----------------------------- MODULE WalProofs ------------------------------
(***************************************************************************)
(* Proofs about Wal, for every number of writers and entries and every     *)
(* combination of failures and stops its theorems name: what is            *)
(* acknowledged is durable, the counters describe the file, memory and     *)
(* rotations agree with the log, and the log implements DurableStore.      *)
(***************************************************************************)
EXTENDS Wal, FiniteSetTheorems, TLAPS

\* The logs a power cut could leave under the log's name.
Survivors == {disk} \cup replaced

\* What the environment is assumed to do: fsync of the log commits its name,
\* and mark_imports' own fsync, which the log does not check, does not fail.
SoundSyncs == SyncCommitsRename /\ "mark" \notin Faults

-----------------------------------------------------------------------------
(* The inductive invariant, in parts.                                      *)

\* Acknowledged entries: durable, in the cache, not dropped, in memory, and
\* below everything a failed sync would cut off.
AckedSafe ==
  /\ \A log \in Survivors : acked \subseteq Replay(log)
  /\ acked \subseteq Replay(cache)
  /\ acked \cap lost \subseteq cache.head
  /\ disk.head = cache.head
  /\ up => acked \subseteq memory
  /\ \A i \in acked : i <= durable_sequence
  /\ pending_entries > 0 => pending_start > durable_sequence

\* Entries an append waits for: in the cache while the log is not poisoned,
\* and on stable storage once the watermark has passed them.
WaitingSafe ==
  \A w \in Writers : waiting[w] # 0 /\ ~Refuses =>
    /\ waiting[w] \in Replay(cache)
    /\ waiting[w] \notin lost
    /\ durable_sequence >= waiting[w] =>
         \A log \in Survivors : waiting[w] \in Replay(log)

\* A checkpoint's graph and position: the graph is older than the position,
\* and together they cover what was acknowledged, or will be.
CapturedSafe ==
  \A c \in captured :
    /\ captured = {c}
    /\ \A i \in c.graph : i < c.from
    /\ \A i \in cache.head : i < c.from
    /\ \A i \in acked : i \in c.graph \/ i >= c.from
    /\ \A w \in Writers : waiting[w] # 0 => waiting[w] >= c.from

\* Who holds the mutex, and that nothing waits in a process that is gone.
HolderSafe ==
  /\ ~up => holder = "none" /\ \A w \in Writers : waiting[w] = 0
  /\ holder = "append" => pending_entries > 0 /\ ~Refuses
  /\ holder \in {"rotate", "renamed"} => ~Refuses

IInv == TypeOK /\ AckedSafe /\ WaitingSafe /\ CapturedSafe /\ HolderSafe

-----------------------------------------------------------------------------

\* A new log satisfies the invariant.
THEOREM InitInv == Init => IInv
<1> SUFFICES ASSUME Init PROVE IInv
  OBVIOUS
<1>1. LogTypeOK
  <2>1. torn \in BOOLEAN
    BY Zenon DEF Init
  <2> QED
    BY <2>1, BoundAssumption DEF Init, LogTypeOK, Replay, Logs, Entries, Errors
<1>2. CallersTypeOK
  <2>1. flush_every \in BOOLEAN /\ worker \in BOOLEAN /\ up \in BOOLEAN
    BY FlushModesAssumption, Zenon DEF Init
  <2> QED
    BY <2>1 DEF Init, CallersTypeOK, Entries, Errors
<1>3. AckedSafe
  BY DEF Init, AckedSafe, Survivors, Replay
<1>4. WaitingSafe /\ CapturedSafe /\ HolderSafe
  BY DEF Init, WaitingSafe, CapturedSafe, HolderSafe, Refuses
<1> QED BY <1>1, <1>2, <1>3, <1>4 DEF IInv, TypeOK

-----------------------------------------------------------------------------
(* Types.                                                                  *)

\* An fsync leaves the log well typed.
LEMMA FsyncTyped ==
  ASSUME LogTypeOK, Fsync
  PROVE  \A log \in {disk'} \cup replaced' :
           log \in Logs /\ Replay(log) \subseteq Entries
BY DEF LogTypeOK, Fsync, Synced, Replay, Logs

\* So does sync_pending, when it succeeds
LEMMA SyncPendingTyped == ASSUME LogTypeOK, SyncPending PROVE LogTypeOK'
<1>1. CASE pending_entries = 0
  BY <1>1 DEF SyncPending, LogTypeOK, Entries
<1>2. CASE pending_entries # 0
  <2>1. Fsync /\ durable_sequence' = next_sequence
    BY <1>2 DEF SyncPending
  <2> QED
    BY <2>1, FsyncTyped, BoundAssumption DEF SyncPending, LogTypeOK, Entries, Replay
<1> QED BY <1>1, <1>2

\* and when it fails.
LEMMA SyncFailsTyped == ASSUME LogTypeOK, SyncPendingFails PROVE LogTypeOK'
<1>1. lost' \in SUBSET Entries
  BY DEF SyncPendingFails, DropsPages, LogTypeOK, Replay
<1>2. /\ Truncate(cache, pending_start) \in Logs
      /\ Replay(Truncate(cache, pending_start)) \subseteq Entries
  BY DEF LogTypeOK, Truncate, Replay, Logs
<1>3. /\ Synced(Truncate(cache, pending_start), lost') \in Logs
      /\ Replay(Synced(Truncate(cache, pending_start), lost')) \subseteq Entries
  BY <1>2 DEF Synced, Replay, Logs
<1>4. UNCHANGED <<next_sequence, durable_sequence, pending_start>>
      /\ pending_entries' = 0 /\ durability_error' \in Errors
  BY DEF SyncPendingFails, Poison, Errors
<1>5. cache' \in Logs /\ Replay(cache') \subseteq Entries
  BY <1>2 DEF SyncPendingFails, LogTypeOK
<1>6. \A log \in {disk'} \cup replaced' : log \in Logs /\ Replay(log) \subseteq Entries
  BY <1>3 DEF SyncPendingFails, LogTypeOK
<1>7. torn' \in BOOLEAN
  BY DEF SyncPendingFails, LogTypeOK
<1> QED
  BY <1>1, <1>4, <1>5, <1>6, <1>7 DEF LogTypeOK, Entries

\* An append that returns Ok leaves the callers' side well typed.
LEMMA ReturnsOkTyped ==
  ASSUME CallersTypeOK, next_sequence \in Nat, next_sequence' = next_sequence,
         NEW w \in Writers, waiting[w] # 0, ReturnsOk(w)
  PROVE  /\ waiting' \in [Writers -> 0 .. next_sequence']
         /\ memory' \in SUBSET Entries'
         /\ acked' \in SUBSET Entries'
         /\ failed' \in SUBSET (Entries' \X Errors)
<1>1. waiting[w] \in Entries
  BY DEF CallersTypeOK, Entries
<1>2. Entries' = Entries
  BY DEF Entries
<1> QED
  BY <1>1, <1>2 DEF ReturnsOk, CallersTypeOK

\* So does a process that stops.
LEMMA GoneTyped ==
  ASSUME CallersTypeOK, next_sequence \in Nat, next_sequence' = next_sequence, Gone
  PROVE  CallersTypeOK'
<1>1. up' \in BOOLEAN /\ worker' \in BOOLEAN /\ flush_every' \in BOOLEAN
  BY Zenon DEF Gone, CallersTypeOK
<1> QED
  BY <1>1 DEF Gone, CallersTypeOK, Entries

\* Every step keeps the types, one case per action.
LEMMA TypeStep == ASSUME TypeOK, Next PROVE LogTypeOK' /\ CallersTypeOK'
<1> USE BoundAssumption
    DEF LogTypeOK, CallersTypeOK, Logs, Replay, Entries, Errors,
        env, client, threads, state, file
<1>0. LogTypeOK /\ CallersTypeOK BY DEF TypeOK
<1>1. ASSUME NEW w \in Writers, WriteEntry(w) PROVE LogTypeOK' /\ CallersTypeOK'
  BY <1>0, <1>1 DEF WriteEntry, FirstPending
<1>2. ASSUME NEW w \in Writers, WriteFails(w) PROVE LogTypeOK' /\ CallersTypeOK'
  BY <1>0, <1>2, FsyncTyped DEF WriteFails
<1>3. ASSUME NEW w \in Writers, RollbackFails(w) PROVE LogTypeOK' /\ CallersTypeOK'
  BY <1>0, <1>3 DEF RollbackFails, DropsPages, Poison
<1>4. ASSUME NEW w \in Writers, FlushEntry(w) PROVE LogTypeOK' /\ CallersTypeOK'
  <2>1. LogTypeOK'
    BY <1>0, <1>4, SyncPendingTyped DEF FlushEntry
  <2>2. CallersTypeOK'
    BY <1>0, <1>4, <2>1, ReturnsOkTyped DEF FlushEntry, SyncPending
  <2> QED BY <2>1, <2>2
<1>5. ASSUME NEW w \in Writers, FlushEntryFails(w) PROVE LogTypeOK' /\ CallersTypeOK'
  <2>1. LogTypeOK'
    BY <1>0, <1>5, SyncFailsTyped DEF FlushEntryFails
  <2>2. CallersTypeOK'
    BY <1>0, <1>5, <2>1 DEF FlushEntryFails, SyncPendingFails, ReturnsErr
  <2> QED BY <2>1, <2>2
<1>6. ASSUME NEW w \in Writers, AppendReturnsOk(w) PROVE LogTypeOK' /\ CallersTypeOK'
  BY <1>0, <1>6, ReturnsOkTyped DEF AppendReturnsOk, Runs
<1>7. ASSUME NEW w \in Writers, AppendReturnsErr(w) PROVE LogTypeOK' /\ CallersTypeOK'
  BY <1>0, <1>7 DEF AppendReturnsErr, Runs, ReturnsErr
<1>8. ASSUME NEW w \in Writers, AppendWaitsAgain(w) PROVE LogTypeOK' /\ CallersTypeOK'
  BY <1>0, <1>8 DEF AppendWaitsAgain, Runs
<1>9. ASSUME NEW w \in Writers, SpuriousWake(w) PROVE LogTypeOK' /\ CallersTypeOK'
  BY <1>0, <1>9 DEF SpuriousWake
<1>10. ASSUME WorkerSyncs PROVE LogTypeOK' /\ CallersTypeOK'
  <2>1. LogTypeOK'
    BY <1>0, <1>10, SyncPendingTyped DEF WorkerSyncs
  <2>2. CallersTypeOK'
    BY <1>0, <1>10, <2>1 DEF WorkerSyncs, SyncPending, NotifyAll, Waiters
  <2> QED BY <2>1, <2>2
<1>11. ASSUME WorkerFails PROVE LogTypeOK' /\ CallersTypeOK'
  <2>1. LogTypeOK'
    BY <1>0, <1>11, SyncFailsTyped DEF WorkerFails
  <2>2. CallersTypeOK'
    BY <1>0, <1>11, <2>1 DEF WorkerFails, SyncPendingFails, NotifyAll, Waiters
  <2> QED BY <2>1, <2>2
<1>12. ASSUME Capture PROVE LogTypeOK' /\ CallersTypeOK'
  BY <1>0, <1>12 DEF Capture
<1>13. ASSUME Abandon PROVE LogTypeOK' /\ CallersTypeOK'
  BY <1>0, <1>13 DEF Abandon
<1>14. ASSUME RotateStarts PROVE LogTypeOK' /\ CallersTypeOK'
  <2>1. LogTypeOK'
    BY <1>0, <1>14, SyncPendingTyped DEF RotateStarts
  <2>2. CallersTypeOK'
    BY <1>0, <1>14, <2>1 DEF RotateStarts, SyncPending, NotifyAll, Waiters
  <2> QED BY <2>1, <2>2
<1>15. ASSUME RotateSyncFails PROVE LogTypeOK' /\ CallersTypeOK'
  <2>1. LogTypeOK'
    BY <1>0, <1>15, SyncFailsTyped DEF RotateSyncFails
  <2>2. CallersTypeOK'
    BY <1>0, <1>15, <2>1 DEF RotateSyncFails, SyncPendingFails
  <2> QED BY <2>1, <2>2
<1>16. ASSUME RotateGivesUp PROVE LogTypeOK' /\ CallersTypeOK'
  BY <1>0, <1>16 DEF RotateGivesUp, RotateEnds
<1>17. ASSUME ReopenFails PROVE LogTypeOK' /\ CallersTypeOK'
  BY <1>0, <1>17 DEF ReopenFails, RotateEnds, Poison
<1>18. ASSUME RotateRenames PROVE LogTypeOK' /\ CallersTypeOK'
  <2> PICK c \in captured : cache' = Rotated(cache, c.from, c.graph)
    BY <1>18 DEF RotateRenames
  <2>1. cache' \in Logs /\ Replay(cache') \subseteq Entries
    BY <1>0 DEF Rotated
  <2> QED
    BY <1>0, <1>18, <2>1 DEF RotateRenames
<1>19. ASSUME RotateSettles PROVE LogTypeOK' /\ CallersTypeOK'
  BY <1>0, <1>19 DEF RotateSettles, RotateEnds
<1>20. ASSUME RotateUnsettled PROVE LogTypeOK' /\ CallersTypeOK'
  BY <1>0, <1>20 DEF RotateUnsettled, RotateEnds, Poison
<1>21. ASSUME MarkImports PROVE LogTypeOK' /\ CallersTypeOK'
  BY <1>0, <1>21, FsyncTyped DEF MarkImports
<1>22. ASSUME MarkImportsFails PROVE LogTypeOK' /\ CallersTypeOK'
  BY <1>0, <1>22 DEF MarkImportsFails, DropsPages
<1>23. ASSUME Kill PROVE LogTypeOK' /\ CallersTypeOK'
  <2>1. torn' \in BOOLEAN
    BY <1>0, <1>23, Zenon DEF Kill
  <2> QED
    BY <1>0, <1>23, <2>1, GoneTyped DEF Kill
<1>24. ASSUME PowerCut PROVE LogTypeOK' /\ CallersTypeOK'
  <2>1. \A log \in AfterPowerCut : log \in Logs /\ Replay(log) \subseteq Entries
    BY <1>0 DEF AfterPowerCut
  <2>2. torn' \in BOOLEAN
    BY <1>24, Zenon DEF PowerCut
  <2> QED
    BY <1>0, <1>24, <2>1, <2>2, GoneTyped DEF PowerCut
<1>25. ASSUME Close PROVE LogTypeOK' /\ CallersTypeOK'
  <2>1. LogTypeOK'
    BY <1>0, <1>25, SyncPendingTyped DEF Close
  <2>2. CallersTypeOK'
    BY <1>0, <1>25, <2>1, GoneTyped DEF Close, SyncPending
  <2> QED BY <2>1, <2>2
<1>26. ASSUME Open PROVE LogTypeOK' /\ CallersTypeOK'
  <2>1. \A log \in {disk'} \cup replaced' : log \in Logs /\ Replay(log) \subseteq
       Entries
    BY <1>0, <1>26, FsyncTyped DEF Open
  <2>2. worker' \in BOOLEAN /\ up' \in BOOLEAN /\ torn' \in BOOLEAN
    BY <1>0, <1>26, Zenon DEF Open
  <2> QED
    BY <1>0, <1>26, <2>1, <2>2 DEF Open
<1> HIDE DEF LogTypeOK, CallersTypeOK, Logs, Replay, Entries, Errors,
             env, client, threads, state, file
<1> QED
  BY Zenon, <1>1, <1>2, <1>3, <1>4, <1>5, <1>6, <1>7, <1>8, <1>9, <1>10, <1>11, <1>12,
       <1>13, <1>14, <1>15, <1>16, <1>17, <1>18, <1>19, <1>20, <1>21, <1>22, <1>23,
       <1>24, <1>25, <1>26
  DEF Next, Append, Rotate

\* Every variable keeps its type and its range.
THEOREM TypeCorrect == Spec => []TypeOK
<1>1. Init => TypeOK
  BY InitInv DEF IInv
<1>2. TypeOK /\ Next => TypeOK'
  BY TypeStep DEF TypeOK
<1>3. TypeOK /\ UNCHANGED vars => TypeOK'
  BY DEF TypeOK, LogTypeOK, CallersTypeOK, Entries, Replay,
         vars, file, state, threads, client, env
<1> QED
  BY <1>1, <1>2, <1>3, PTL DEF Spec
-----------------------------------------------------------------------------
(* Acknowledged writes.                                                    *)

\* What an fsync that succeeds leaves, with the cache and the counters as
\* they were: nothing that is acknowledged, or waited for, is missing.
LEMMA FsyncKeeps ==
  ASSUME TypeOK, AckedSafe, WaitingSafe, SoundSyncs, Fsync
  PROVE  /\ replaced' = {}
         /\ disk'.head = cache.head
         /\ acked \subseteq Replay(disk')
         /\ \A w \in Writers : waiting[w] # 0 /\ ~Refuses => waiting[w] \in
              Replay(disk')
BY DEF TypeOK, LogTypeOK, AckedSafe, WaitingSafe, SoundSyncs, Fsync, Synced,
       Replay, Logs

\* The pages a failed fsync drops hold no acknowledged entry.
LEMMA DropsKeep ==
  ASSUME AckedSafe, DropsPages
  PROVE  acked \cap lost' \subseteq cache.head
BY DEF AckedSafe, DropsPages, Survivors, Replay

\* sync_pending, when it succeeds.
LEMMA SyncPendingKeeps ==
  ASSUME TypeOK, AckedSafe, WaitingSafe, SoundSyncs, SyncPending
  PROVE  /\ disk'.head = cache.head
         /\ \A log \in Survivors' : acked \subseteq Replay(log)
         /\ \A i \in acked : i <= durable_sequence'
         /\ \A w \in Writers : waiting[w] # 0 /\ ~Refuses
              /\ durable_sequence' >= waiting[w] =>
                \A log \in Survivors' : waiting[w] \in Replay(log)
<1>1. CASE pending_entries = 0
  BY <1>1 DEF SyncPending, AckedSafe, WaitingSafe, Survivors
<1>2. CASE pending_entries # 0
  <2>1. Fsync /\ durable_sequence' = next_sequence
    BY <1>2 DEF SyncPending
  <2>2. \A i \in acked : i <= next_sequence
    BY DEF TypeOK, CallersTypeOK, LogTypeOK, Entries
  <2> QED
    BY <2>1, <2>2, FsyncKeeps DEF Survivors
<1> QED BY <1>1, <1>2

\* sync_pending, when it fails: what it cuts off was not acknowledged.
LEMMA SyncFailsKeeps ==
  ASSUME TypeOK, AckedSafe, SoundSyncs, SyncPendingFails
  PROVE  /\ \A log \in Survivors' : acked \subseteq Replay(log)
         /\ acked \subseteq Replay(cache')
         /\ acked \cap lost' \subseteq cache'.head
         /\ disk'.head = cache'.head
         /\ cache'.head = cache.head
         /\ pending_entries' = 0
         /\ durable_sequence' = durable_sequence
         /\ durability_error' # "none"
<1> DEFINE cut == Truncate(cache, pending_start)
<1>1. acked \cap lost' \subseteq cache.head
  BY DropsKeep DEF SyncPendingFails
<1>2. \A i \in acked : i < pending_start
  BY DEF SyncPendingFails, AckedSafe, TypeOK, LogTypeOK, CallersTypeOK, Entries
<1>3. acked \subseteq Replay(cut) /\ cut.head = cache.head
  BY <1>2 DEF AckedSafe, Truncate, Replay
<1>4. acked \subseteq Replay(Synced(cut, lost')) /\ Synced(cut, lost').head = cache.head
  BY <1>1, <1>3 DEF Synced, Replay
<1>5. cache' \in {cache, cut}
  BY DEF SyncPendingFails
<1>6. acked \subseteq Replay(cache') /\ cache'.head = cache.head
  BY <1>3, <1>5 DEF AckedSafe
<1>7. Survivors' \subseteq Survivors \cup {Synced(cut, lost')}
  BY DEF SyncPendingFails, Survivors
<1>8. disk'.head = cache.head
  BY <1>4 DEF SyncPendingFails, AckedSafe
<1> QED
  BY <1>1, <1>4, <1>6, <1>7, <1>8 DEF SyncPendingFails, Poison, AckedSafe

\* Every step keeps the rest of the invariant, one case per action and under
\* it one per conjunct.
LEMMA SafeStep ==
  ASSUME TypeOK, AckedSafe, WaitingSafe, CapturedSafe, HolderSafe, SoundSyncs, Next
  PROVE  AckedSafe' /\ WaitingSafe' /\ CapturedSafe' /\ HolderSafe'
<1> USE DEF env, client, threads, state, file
<1> DEFINE Safe == AckedSafe /\ WaitingSafe /\ CapturedSafe /\ HolderSafe
<1>1. ASSUME NEW w \in Writers, WriteEntry(w) PROVE Safe'
  <2>1. AckedSafe'
    BY <1>1 DEF AckedSafe, Survivors, WriteEntry, FirstPending, Free, Replay, TypeOK,
         LogTypeOK, CallersTypeOK, Entries, Logs
  <2>2. WaitingSafe'
    BY <1>1 DEF WaitingSafe, Refuses, Survivors, WriteEntry, FirstPending, Free,
         Replay, TypeOK, LogTypeOK, CallersTypeOK, Entries, Logs
  <2>3. CapturedSafe'
    BY <1>1 DEF CapturedSafe, WriteEntry, FirstPending, Free, TypeOK, LogTypeOK,
         CallersTypeOK, Entries
  <2>4. HolderSafe'
    BY <1>1 DEF HolderSafe, Refuses, WriteEntry, FirstPending, Free, TypeOK, LogTypeOK
  <2> QED BY <2>1, <2>2, <2>3, <2>4
<1>2. ASSUME NEW w \in Writers, WriteFails(w) PROVE Safe'
  <2>1. AckedSafe'
    BY <1>2, FsyncKeeps DEF AckedSafe, Survivors, WriteFails
  <2>2. WaitingSafe'
    BY <1>2, FsyncKeeps DEF WaitingSafe, Survivors, WriteFails
  <2>3. CapturedSafe'
    BY <1>2, FsyncKeeps DEF CapturedSafe, WriteFails
  <2>4. HolderSafe'
    BY <1>2, FsyncKeeps DEF HolderSafe, WriteFails, Free
  <2> QED BY <2>1, <2>2, <2>3, <2>4
<1>3. ASSUME NEW w \in Writers, RollbackFails(w) PROVE Safe'
  <2>1. AckedSafe'
    BY <1>3, DropsKeep DEF AckedSafe, Survivors, RollbackFails
  <2>2. WaitingSafe'
    BY <1>3, DropsKeep DEF WaitingSafe, Refuses, RollbackFails, Poison
  <2>3. CapturedSafe'
    BY <1>3, DropsKeep DEF CapturedSafe, RollbackFails
  <2>4. HolderSafe'
    BY <1>3, DropsKeep DEF HolderSafe, RollbackFails, Free
  <2> QED BY <2>1, <2>2, <2>3, <2>4
<1>4. ASSUME NEW w \in Writers, FlushEntry(w) PROVE Safe'
  <2>1. AckedSafe'
    <3> DEFINE i == waiting[w]
    <3>1. i # 0 /\ ~Refuses /\ pending_entries > 0
      BY <1>4 DEF FlushEntry, HolderSafe
    <3>2. i \in Replay(cache) /\ i \notin lost /\ i <= next_sequence
      BY <3>1 DEF WaitingSafe, TypeOK, CallersTypeOK
    <3>3. durable_sequence' = next_sequence /\ pending_entries' = 0
      BY <1>4, <3>1 DEF FlushEntry, SyncPending
    <3>4. \A log \in Survivors' : acked \cup {i} \subseteq Replay(log)
      BY <1>4, <3>1, <3>2, <3>3, SyncPendingKeeps DEF FlushEntry
    <3>5. acked' = acked \cup {i} /\ memory' = memory \cup {i} /\ UNCHANGED <<cache,
         lost>>
      BY <1>4 DEF FlushEntry, ReturnsOk, SyncPending
    <3>6. \A log \in Survivors' : acked' \subseteq Replay(log)
      BY <3>4, <3>5
    <3>7. acked' \subseteq Replay(cache') /\ acked' \cap lost' \subseteq cache'.head
      BY <3>2, <3>5 DEF AckedSafe
    <3>8. disk'.head = cache'.head /\ \A a \in acked' : a <= durable_sequence'
      BY <1>4, <3>2, <3>3, <3>5, SyncPendingKeeps DEF FlushEntry
    <3>9. up' => acked' \subseteq memory'
      BY <1>4, <3>5 DEF FlushEntry, AckedSafe
    <3> QED
      BY <3>3, <3>6, <3>7, <3>8, <3>9 DEF AckedSafe
  <2>2. WaitingSafe'
    BY <1>4, SyncPendingKeeps DEF WaitingSafe, Refuses, FlushEntry, SyncPending,
         ReturnsOk
  <2>3. CapturedSafe'
    BY <1>4, SyncPendingKeeps DEF CapturedSafe, FlushEntry, SyncPending, ReturnsOk
  <2>4. HolderSafe'
    BY <1>4, SyncPendingKeeps DEF HolderSafe, FlushEntry
  <2> QED BY <2>1, <2>2, <2>3, <2>4
<1>5. ASSUME NEW w \in Writers, FlushEntryFails(w) PROVE Safe'
  <2>1. AckedSafe'
    BY <1>5, SyncFailsKeeps DEF AckedSafe, FlushEntryFails, ReturnsErr
  <2>2. WaitingSafe'
    BY <1>5, SyncFailsKeeps DEF WaitingSafe, Refuses, FlushEntryFails
  <2>3. CapturedSafe'
    BY <1>5, SyncFailsKeeps DEF CapturedSafe, FlushEntryFails, ReturnsErr
  <2>4. HolderSafe'
    BY <1>5, SyncFailsKeeps DEF HolderSafe, FlushEntryFails
  <2> QED BY <2>1, <2>2, <2>3, <2>4
<1>6. ASSUME NEW w \in Writers, AppendReturnsOk(w) PROVE Safe'
  <2>1. AckedSafe'
    <3> DEFINE i == waiting[w]
    <3>1. i # 0 /\ ~Refuses /\ i <= durable_sequence
      BY <1>6 DEF AppendReturnsOk, Runs, Acknowledged
    <3>2. i \in Replay(cache) /\ i \notin lost /\ \A log \in Survivors : i \in
         Replay(log)
      BY <3>1 DEF WaitingSafe
    <3>3. acked' = acked \cup {i} /\ memory' = memory \cup {i} /\ UNCHANGED <<file,
         state>>
      BY <1>6 DEF AppendReturnsOk, ReturnsOk
    <3>4. \A log \in Survivors' : acked' \subseteq Replay(log)
      BY <3>2, <3>3 DEF AckedSafe, Survivors
    <3>5. acked' \subseteq Replay(cache') /\ acked' \cap lost' \subseteq cache'.head
      BY <3>2, <3>3 DEF AckedSafe
    <3>6. up' => acked' \subseteq memory'
      BY <1>6, <3>3 DEF AppendReturnsOk, AckedSafe
    <3> QED
      BY <3>1, <3>3, <3>4, <3>5, <3>6 DEF AckedSafe
  <2>2. WaitingSafe'
    BY <1>6 DEF WaitingSafe, Survivors, AppendReturnsOk, Acknowledged, ReturnsOk
  <2>3. CapturedSafe'
    BY <1>6 DEF CapturedSafe, AppendReturnsOk, Runs, ReturnsOk
  <2>4. HolderSafe'
    BY <1>6 DEF HolderSafe, AppendReturnsOk, Runs, Free
  <2> QED BY <2>1, <2>2, <2>3, <2>4
<1>7. ASSUME NEW w \in Writers, AppendReturnsErr(w) PROVE Safe'
  <2>1. AckedSafe'
    BY <1>7 DEF AckedSafe, Survivors, AppendReturnsErr, ReturnsErr
  <2>2. WaitingSafe'
    BY <1>7 DEF WaitingSafe, Refuses, AppendReturnsErr
  <2>3. CapturedSafe'
    BY <1>7 DEF CapturedSafe, AppendReturnsErr, ReturnsErr
  <2>4. HolderSafe'
    BY <1>7 DEF HolderSafe, AppendReturnsErr, ReturnsErr
  <2> QED BY <2>1, <2>2, <2>3, <2>4
<1>8. ASSUME NEW w \in Writers, AppendWaitsAgain(w) PROVE Safe'
  <2>1. AckedSafe'
    BY <1>8 DEF AckedSafe, Survivors, AppendWaitsAgain
  <2>2. WaitingSafe'
    BY <1>8 DEF WaitingSafe, Survivors, AppendWaitsAgain
  <2>3. CapturedSafe'
    BY <1>8 DEF CapturedSafe, AppendWaitsAgain
  <2>4. HolderSafe'
    BY <1>8 DEF HolderSafe, AppendWaitsAgain, Runs, Free
  <2> QED BY <2>1, <2>2, <2>3, <2>4
<1>9. ASSUME NEW w \in Writers, SpuriousWake(w) PROVE Safe'
  <2>1. AckedSafe'
    BY <1>9 DEF AckedSafe, Survivors, SpuriousWake
  <2>2. WaitingSafe'
    BY <1>9 DEF WaitingSafe, Refuses, Survivors, SpuriousWake
  <2>3. CapturedSafe'
    BY <1>9 DEF CapturedSafe, SpuriousWake
  <2>4. HolderSafe'
    BY <1>9 DEF HolderSafe, Refuses, SpuriousWake
  <2> QED BY <2>1, <2>2, <2>3, <2>4
<1>10. ASSUME WorkerSyncs PROVE Safe'
  <2>1. AckedSafe'
    BY <1>10, SyncPendingKeeps DEF AckedSafe, WorkerSyncs, SyncPending
  <2>2. WaitingSafe'
    BY <1>10, SyncPendingKeeps DEF WaitingSafe, Refuses, WorkerSyncs, SyncPending
  <2>3. CapturedSafe'
    BY <1>10, SyncPendingKeeps DEF CapturedSafe, WorkerSyncs, SyncPending
  <2>4. HolderSafe'
    BY <1>10, SyncPendingKeeps DEF HolderSafe, WorkerSyncs, Free
  <2> QED BY <2>1, <2>2, <2>3, <2>4
<1>11. ASSUME WorkerFails PROVE Safe'
  <2>1. AckedSafe'
    BY <1>11, SyncFailsKeeps DEF AckedSafe, WorkerFails
  <2>2. WaitingSafe'
    BY <1>11, SyncFailsKeeps DEF WaitingSafe, Refuses, WorkerFails
  <2>3. CapturedSafe'
    BY <1>11, SyncFailsKeeps DEF CapturedSafe, WorkerFails
  <2>4. HolderSafe'
    BY <1>11, SyncFailsKeeps DEF HolderSafe, WorkerFails, Free
  <2> QED BY <2>1, <2>2, <2>3, <2>4
<1>12. ASSUME Capture PROVE Safe'
  <2>1. AckedSafe'
    BY <1>12 DEF AckedSafe, Survivors, Capture
  <2>2. WaitingSafe'
    BY <1>12 DEF WaitingSafe, Capture, Waiters
  <2>3. CapturedSafe'
    <3>1. \A w \in Writers : waiting[w] = 0
      BY <1>12 DEF Capture, Waiters
    <3>2. acked \subseteq memory
      BY <1>12 DEF Capture, Free, AckedSafe
    <3>3. cache.head \subseteq Entries /\ memory \subseteq Entries /\ next_sequence
         \in Nat
      BY DEF Replay, TypeOK, LogTypeOK, CallersTypeOK
    <3> QED
      BY <1>12, <3>1, <3>2, <3>3 DEF CapturedSafe, Capture, Entries
  <2>4. HolderSafe'
    BY <1>12 DEF HolderSafe, Capture, Free
  <2> QED BY <2>1, <2>2, <2>3, <2>4
<1>13. ASSUME Abandon PROVE Safe'
  <2>1. AckedSafe'
    BY <1>13 DEF AckedSafe, Survivors, Abandon
  <2>2. WaitingSafe'
    BY <1>13 DEF WaitingSafe, Refuses, Survivors, Abandon
  <2>3. CapturedSafe'
    BY <1>13 DEF CapturedSafe, Abandon
  <2>4. HolderSafe'
    BY <1>13 DEF HolderSafe, Abandon, Free
  <2> QED BY <2>1, <2>2, <2>3, <2>4
<1>14. ASSUME RotateStarts PROVE Safe'
  <2>1. AckedSafe'
    BY <1>14, SyncPendingKeeps DEF AckedSafe, RotateStarts, SyncPending
  <2>2. WaitingSafe'
    BY <1>14, SyncPendingKeeps DEF WaitingSafe, RotateStarts, SyncPending
  <2>3. CapturedSafe'
    BY <1>14, SyncPendingKeeps DEF CapturedSafe, RotateStarts, SyncPending
  <2>4. HolderSafe'
    BY <1>14, SyncPendingKeeps DEF HolderSafe, Refuses, RotateStarts, SyncPending, Free
  <2> QED BY <2>1, <2>2, <2>3, <2>4
<1>15. ASSUME RotateSyncFails PROVE Safe'
  <2>1. AckedSafe'
    BY <1>15, SyncFailsKeeps DEF AckedSafe, RotateSyncFails
  <2>2. WaitingSafe'
    BY <1>15, SyncFailsKeeps DEF WaitingSafe, Refuses, RotateSyncFails
  <2>3. CapturedSafe'
    BY <1>15, SyncFailsKeeps DEF CapturedSafe, RotateSyncFails
  <2>4. HolderSafe'
    BY <1>15, SyncFailsKeeps DEF HolderSafe, RotateSyncFails, Free
  <2> QED BY <2>1, <2>2, <2>3, <2>4
<1>16. ASSUME RotateGivesUp PROVE Safe'
  <2>1. AckedSafe'
    BY <1>16 DEF AckedSafe, Survivors, RotateGivesUp, RotateEnds
  <2>2. WaitingSafe'
    BY <1>16 DEF WaitingSafe, Refuses, Survivors, RotateGivesUp, RotateEnds
  <2>3. CapturedSafe'
    BY <1>16 DEF CapturedSafe, RotateGivesUp, RotateEnds
  <2>4. HolderSafe'
    BY <1>16 DEF HolderSafe, RotateGivesUp, RotateEnds
  <2> QED BY <2>1, <2>2, <2>3, <2>4
<1>17. ASSUME ReopenFails PROVE Safe'
  <2>1. AckedSafe'
    BY <1>17 DEF AckedSafe, Survivors, ReopenFails, RotateEnds
  <2>2. WaitingSafe'
    BY <1>17 DEF WaitingSafe, Refuses, ReopenFails, Poison
  <2>3. CapturedSafe'
    BY <1>17 DEF CapturedSafe, ReopenFails, RotateEnds
  <2>4. HolderSafe'
    BY <1>17 DEF HolderSafe, ReopenFails, RotateEnds
  <2> QED BY <2>1, <2>2, <2>3, <2>4
<1>18. ASSUME RotateRenames PROVE Safe'
  <2> PICK c \in captured : cache' = Rotated(cache, c.from, c.graph)
    BY <1>18 DEF RotateRenames
  <2>0. /\ c.from \in Nat /\ acked \subseteq Nat
        /\ \A w \in Writers : waiting[w] \in Nat
    BY DEF TypeOK, CallersTypeOK, Entries
  <2>1. AckedSafe'
    <3>1. acked \subseteq Replay(cache')
      BY <2>0 DEF AckedSafe, CapturedSafe, Rotated, Replay
    <3>2. Survivors' = Survivors \cup {cache'}
      BY <1>18 DEF RotateRenames, Survivors
    <3> QED
      BY <1>18, <3>1, <3>2 DEF RotateRenames, AckedSafe
  <2>2. WaitingSafe'
    <3>1. \A w \in Writers : waiting[w] # 0 /\ ~Refuses => waiting[w] \in Replay(cache')
      BY <2>0 DEF WaitingSafe, CapturedSafe, Rotated, Replay
    <3>2. Survivors' = Survivors \cup {cache'}
      BY <1>18 DEF RotateRenames, Survivors
    <3> QED
      BY <1>18, <3>1, <3>2 DEF RotateRenames, WaitingSafe, Refuses
  <2>3. CapturedSafe'
    BY <1>18 DEF CapturedSafe, RotateRenames, Rotated
  <2>4. HolderSafe'
    BY <1>18 DEF HolderSafe, Refuses, RotateRenames
  <2> QED BY <2>1, <2>2, <2>3, <2>4
<1>19. ASSUME RotateSettles PROVE Safe'
  <2>1. AckedSafe'
    BY <1>19 DEF AckedSafe, Survivors, RotateSettles, RotateEnds
  <2>2. WaitingSafe'
    BY <1>19 DEF WaitingSafe, Refuses, Survivors, RotateSettles, RotateEnds
  <2>3. CapturedSafe'
    BY <1>19 DEF CapturedSafe, RotateSettles, RotateEnds
  <2>4. HolderSafe'
    BY <1>19 DEF HolderSafe, RotateSettles, RotateEnds
  <2> QED BY <2>1, <2>2, <2>3, <2>4
<1>20. ASSUME RotateUnsettled PROVE Safe'
  <2>1. AckedSafe'
    BY <1>20 DEF AckedSafe, Survivors, RotateUnsettled, RotateEnds
  <2>2. WaitingSafe'
    BY <1>20 DEF WaitingSafe, Refuses, RotateUnsettled, Poison
  <2>3. CapturedSafe'
    BY <1>20 DEF CapturedSafe, RotateUnsettled, RotateEnds
  <2>4. HolderSafe'
    BY <1>20 DEF HolderSafe, RotateUnsettled, RotateEnds
  <2> QED BY <2>1, <2>2, <2>3, <2>4
<1>21. ASSUME MarkImports PROVE Safe'
  <2>1. AckedSafe'
    BY <1>21, FsyncKeeps DEF AckedSafe, Survivors, MarkImports
  <2>2. WaitingSafe'
    BY <1>21, FsyncKeeps DEF WaitingSafe, Refuses, Survivors, MarkImports
  <2>3. CapturedSafe'
    BY <1>21, FsyncKeeps DEF CapturedSafe, MarkImports
  <2>4. HolderSafe'
    BY <1>21, FsyncKeeps DEF HolderSafe, MarkImports, Free
  <2> QED BY <2>1, <2>2, <2>3, <2>4
<1>22. ASSUME MarkImportsFails PROVE FALSE
  BY <1>22 DEF MarkImportsFails, SoundSyncs
<1>23. ASSUME Kill PROVE Safe'
  <2>1. AckedSafe'
    BY <1>23 DEF AckedSafe, Survivors, Kill, Gone
  <2>2. WaitingSafe'
    BY <1>23 DEF WaitingSafe, Kill, Gone
  <2>3. CapturedSafe'
    BY <1>23 DEF CapturedSafe, Kill, Gone
  <2>4. HolderSafe'
    BY <1>23 DEF HolderSafe, Kill, Gone
  <2> QED BY <2>1, <2>2, <2>3, <2>4
<1>24. ASSUME PowerCut PROVE Safe'
  <2>1. AckedSafe'
    <3>1. cache' \in AfterPowerCut /\ disk' = cache' /\ replaced' = {} /\ lost' = {}
      BY <1>24 DEF PowerCut
    <3>2. \A log \in AfterPowerCut : acked \subseteq Replay(log)
      <4>1. ASSUME NEW log \in replaced PROVE acked \subseteq Replay(log)
        BY <4>1 DEF AckedSafe, Survivors
      <4>2. ASSUME NEW cut \in 1 .. next_sequence + 1,
                   \A i \in cache.tail \cap disk.tail : i < cut
            PROVE  acked \subseteq
                     cache.head \cup {i \in cache.tail \cup disk.tail : i < cut}
        <5>1. acked \subseteq Replay(disk) /\ acked \subseteq Replay(cache) /\
             disk.head = cache.head
          BY DEF AckedSafe, Survivors
        <5> QED
          BY <4>2, <5>1 DEF Replay
      <4> QED
        BY <4>1, <4>2 DEF AfterPowerCut, Replay
    <3> QED
      BY <1>24, <3>1, <3>2 DEF PowerCut, Gone, AckedSafe, Survivors
  <2>2. WaitingSafe'
    BY <1>24 DEF WaitingSafe, PowerCut, Gone
  <2>3. CapturedSafe'
    BY <1>24 DEF CapturedSafe, PowerCut, Gone
  <2>4. HolderSafe'
    BY <1>24 DEF HolderSafe, PowerCut, Gone
  <2> QED BY <2>1, <2>2, <2>3, <2>4
<1>25. ASSUME Close PROVE Safe'
  <2>1. AckedSafe'
    <3>1. CASE worker
      BY <1>25, <3>1, SyncPendingKeeps DEF Close, SyncPending, Gone, AckedSafe
    <3>2. CASE ~worker
      BY <1>25, <3>2 DEF Close, Gone, AckedSafe, Survivors
    <3> QED BY <3>1, <3>2
  <2>2. WaitingSafe'
    BY <1>25, SyncPendingKeeps DEF WaitingSafe, Close, Gone
  <2>3. CapturedSafe'
    BY <1>25, SyncPendingKeeps DEF CapturedSafe, Close, Gone
  <2>4. HolderSafe'
    BY <1>25, SyncPendingKeeps DEF HolderSafe, Close, Gone
  <2> QED BY <2>1, <2>2, <2>3, <2>4
<1>26. ASSUME Open PROVE Safe'
  <2>1. AckedSafe'
    BY <1>26, FsyncKeeps DEF AckedSafe, Survivors, Open, TypeOK, LogTypeOK,
         CallersTypeOK, Replay, Entries
  <2>2. WaitingSafe'
    BY <1>26 DEF Open, HolderSafe, WaitingSafe
  <2>3. CapturedSafe'
    BY <1>26, FsyncKeeps DEF CapturedSafe, Open
  <2>4. HolderSafe'
    BY <1>26, FsyncKeeps DEF HolderSafe, Open
  <2> QED BY <2>1, <2>2, <2>3, <2>4
<1> HIDE DEF Safe, env, client, threads, state, file
<1>27. Safe'
  BY Zenon, <1>1, <1>2, <1>3, <1>4, <1>5, <1>6, <1>7, <1>8, <1>9, <1>10, <1>11, <1>12,
       <1>13, <1>14, <1>15, <1>16, <1>17, <1>18, <1>19, <1>20, <1>21, <1>22, <1>23,
       <1>24, <1>25, <1>26
  DEF Next, Append, Rotate
<1> QED
  BY <1>27 DEF Safe

\* The invariant holds in every state.
LEMMA SafeInvariant == SoundSyncs => (Spec => []IInv)
<1> SUFFICES ASSUME SoundSyncs PROVE Spec => []IInv
  OBVIOUS
<1>1. Init => IInv
  BY InitInv
<1>2. IInv /\ Next => IInv'
  BY TypeStep, SafeStep DEF IInv, TypeOK
<1>3. IInv /\ UNCHANGED vars => IInv'
  BY DEF IInv, TypeOK, LogTypeOK, CallersTypeOK, AckedSafe, WaitingSafe,
         CapturedSafe, HolderSafe, Survivors, Refuses, Entries, Replay,
         vars, file, state, threads, client, env
<1> QED
  BY <1>1, <1>2, <1>3, PTL DEF Spec

\* An acknowledged write is on stable storage, for any number of writers, with
\* or without the graph lock, whatever else fails and however the process
\* stops, as long as fsync is what sync_pending takes it for.
THEOREM AckedDurableTheorem == SoundSyncs => (Spec => []AckedDurable)
<1>1. IInv => AckedDurable
  BY DEF IInv, AckedSafe, AckedDurable, Survivors
<1> QED
  BY <1>1, SafeInvariant, PTL

\* After a torn tail nothing is appended until a reopen.  The invariant is
\* inductive: whatever may leave a part of an entry poisons the log.
THEOREM NothingAfterTornTailTheorem == Spec => []NothingAfterTornTail
<1>1. Init => NothingAfterTornTail
  BY DEF Init, NothingAfterTornTail
<1>2. NothingAfterTornTail /\ [Next]_vars => NothingAfterTornTail'
  <2> SUFFICES ASSUME NothingAfterTornTail, [Next]_vars PROVE NothingAfterTornTail'
    OBVIOUS
  <2> USE DEF NothingAfterTornTail, Refuses, file, state, env
  <2>1. CASE \E w \in Writers : Append(w)
    <3>1. ASSUME NEW w \in Writers,
                 FlushEntry(w) \/ FlushEntryFails(w) \/ RollbackFails(w)
          PROVE  NothingAfterTornTail'
      BY <3>1 DEF FlushEntry, FlushEntryFails, RollbackFails, SyncPending,
                  SyncPendingFails, Poison
    <3> QED
      BY <2>1, <3>1 DEF Append, WriteEntry, WriteFails, AppendReturnsOk,
         AppendReturnsErr, AppendWaitsAgain, SpuriousWake
  <2>2. CASE WorkerSyncs \/ WorkerFails
    BY <2>2 DEF WorkerSyncs, WorkerFails, SyncPending, SyncPendingFails, Poison
  <2>3. CASE Capture \/ Abandon \/ MarkImports \/ MarkImportsFails
    BY <2>3 DEF Capture, Abandon, MarkImports, MarkImportsFails
  <2>4. CASE Rotate
    BY <2>4 DEF Rotate, RotateStarts, RotateSyncFails, RotateGivesUp, ReopenFails,
       RotateRenames, RotateSettles, RotateUnsettled, RotateEnds, SyncPending,
       SyncPendingFails, Poison
  <2>5. CASE Kill \/ PowerCut \/ Close \/ Open
    BY <2>5 DEF Kill, PowerCut, Close, Open, Gone
  <2>6. CASE UNCHANGED vars
    BY <2>6 DEF vars
  <2> QED
    BY <2>1, <2>2, <2>3, <2>4, <2>5, <2>6 DEF Next
<1> QED
  BY <1>1, <1>2, PTL DEF Spec

-----------------------------------------------------------------------------
(* What the counters say of the file, what memory and a rotation say of    *)
(* the log: the second invariant, in parts.                                *)

\* The entries some append waits for.
Awaited == {waiting[w] : w \in Waiters}

\* What is pending is what was appended since the watermark, and starts there.
\* A rotation has nothing pending.
PendingExact ==
  up /\ ~Refuses =>
    /\ {i \in cache.tail : i > durable_sequence} = durable_sequence + 1 .. next_sequence
    /\ pending_entries = next_sequence - durable_sequence
    /\ pending_entries > 0 => pending_start = durable_sequence + 1
    /\ holder \in {"rotate", "renamed"} => pending_entries = 0

\* The log says what memory holds and what appends wait for, and a checkpoint's
\* graph is all of it that is older than its position.  There is one at most.
HistoryExact ==
  /\ up /\ ~Refuses => Replay(cache) = memory \cup Awaited
  /\ \A c \in captured :
       /\ captured = {c}
       /\ ~Refuses => /\ c.graph = {i \in Replay(cache) : i < c.from}
                      /\ \A i \in cache.head : i < c.from

\* What does not outlive the process, and who may hold the mutex.
ProcessSafe ==
  /\ ~up => /\ holder = "none" /\ captured = {} /\ memory = {}
            /\ \A w \in Writers : waiting[w] = 0
  /\ holder = "append" => pending_entries > 0 /\ ~Refuses
  /\ holder \in {"rotate", "renamed"} => ~Refuses

\* Logs that a rename replaced, and the graph a log starts with, hold nothing
\* newer than the watermark.
RotatedOld ==
  /\ \A log \in replaced : \A i \in Replay(log) : i <= durable_sequence
  /\ \A i \in cache.head : i <= durable_sequence

\* Under the graph lock one append waits at most, for the last entry, and while
\* something is pending it is that entry and nothing has failed.
OneWaiter ==
  /\ \A v, w \in Writers : waiting[v] # 0 /\ waiting[w] # 0 => v = w
  /\ \A w \in Writers : waiting[w] # 0 =>
       /\ waiting[w] = next_sequence
       /\ waiting[w] \notin memory \cup acked \cup Removed
  /\ up /\ pending_entries > 0 => ~Refuses /\ Waiters # {}
  /\ \A c \in captured :
       /\ \A i \in c.graph : i < c.from
       /\ \A w \in Writers : waiting[w] # 0 => waiting[w] >= c.from

\* An entry no log holds, nor the graph, nor a checkpoint's.
Vanished(i) ==
  /\ \A log \in {cache} \cup Survivors : i \notin Replay(log)
  /\ i \notin memory
  /\ \A c \in captured : i \notin c.graph

\* An entry whose caller was told that it was removed, or will be.
RemovedSafe ==
  /\ \A i \in Removed : Vanished(i)
  /\ durability_error = "removed" => \A i \in Awaited : Vanished(i)

FileInv  == TypeOK /\ ProcessSafe /\ PendingExact /\ HistoryExact
StoreInv == FileInv /\ RotatedOld /\ OneWaiter /\ RemovedSafe

-----------------------------------------------------------------------------
(* The file and memory, with or without the graph lock.                    *)

\* Every step keeps what the counters and memory say of the file, one case per
\* action and under it one per conjunct.
LEMMA FileStep == ASSUME FileInv, Next PROVE ProcessSafe' /\ PendingExact' /\ HistoryExact'
<1> USE DEF env, client, threads, state, file, Free, Refuses, Fsync, SyncPending,
    SyncPendingFails, ReturnsOk, ReturnsErr, Runs, Acknowledged, RotateEnds, Gone, NotifyAll,
        Poison, FirstPending, DropsPages
<1> DEFINE Goal == ProcessSafe /\ PendingExact /\ HistoryExact
<1> USE DEF FileInv
<1>1. ASSUME NEW w \in Writers, WriteEntry(w) PROVE Goal'
  <2>1. ProcessSafe'
    BY <1>1 DEF WriteEntry, ProcessSafe, TypeOK, LogTypeOK, CallersTypeOK, Entries, Replay, Logs
  <2>2. PendingExact'
    BY <1>1 DEF WriteEntry, PendingExact, Truncate, Rotated, ProcessSafe, TypeOK, LogTypeOK,
        CallersTypeOK, Entries, Replay, Logs
  <2>3. HistoryExact'
    BY <1>1 DEF WriteEntry, HistoryExact, ProcessSafe, PendingExact, Waiters, Awaited, Rotated,
        Truncate, TypeOK, LogTypeOK, CallersTypeOK, Entries, Replay, Logs
  <2> QED BY <2>1, <2>2, <2>3
<1>2. ASSUME NEW w \in Writers, WriteFails(w) PROVE Goal'
  <2>1. ProcessSafe'
    BY <1>2 DEF WriteFails, ProcessSafe
  <2>2. PendingExact'
    BY <1>2 DEF WriteFails, PendingExact
  <2>3. HistoryExact'
    BY <1>2 DEF WriteFails, HistoryExact, Waiters, Awaited
  <2> QED BY <2>1, <2>2, <2>3
<1>3. ASSUME NEW w \in Writers, RollbackFails(w) PROVE Goal'
  <2>1. ProcessSafe'
    BY <1>3 DEF RollbackFails, ProcessSafe
  <2>2. PendingExact'
    BY <1>3 DEF RollbackFails, PendingExact
  <2>3. HistoryExact'
    BY <1>3 DEF RollbackFails, HistoryExact
  <2> QED BY <2>1, <2>2, <2>3
<1>4. ASSUME NEW w \in Writers, FlushEntry(w) PROVE Goal'
  <2>1. ProcessSafe'
    BY <1>4 DEF FlushEntry, ProcessSafe
  <2>2. PendingExact'
    BY <1>4 DEF FlushEntry, PendingExact, TypeOK, LogTypeOK, Entries, Replay
  <2>3. HistoryExact'
    BY <1>4 DEF FlushEntry, HistoryExact, Waiters, Awaited
  <2> QED BY <2>1, <2>2, <2>3
<1>5. ASSUME NEW w \in Writers, FlushEntryFails(w) PROVE Goal'
  <2>1. ProcessSafe'
    BY <1>5 DEF FlushEntryFails, ProcessSafe
  <2>2. PendingExact'
    BY <1>5 DEF FlushEntryFails, PendingExact
  <2>3. HistoryExact'
    BY <1>5 DEF FlushEntryFails, HistoryExact
  <2> QED BY <2>1, <2>2, <2>3
<1>6. ASSUME NEW w \in Writers, AppendReturnsOk(w) PROVE Goal'
  <2>1. ProcessSafe'
    BY <1>6 DEF AppendReturnsOk, ProcessSafe
  <2>2. PendingExact'
    BY <1>6 DEF AppendReturnsOk, PendingExact
  <2>3. HistoryExact'
    BY <1>6 DEF AppendReturnsOk, HistoryExact, Waiters, Awaited
  <2> QED BY <2>1, <2>2, <2>3
<1>7. ASSUME NEW w \in Writers, AppendReturnsErr(w) PROVE Goal'
  <2>1. ProcessSafe'
    BY <1>7 DEF AppendReturnsErr, ProcessSafe
  <2>2. PendingExact'
    BY <1>7 DEF AppendReturnsErr, PendingExact
  <2>3. HistoryExact'
    BY <1>7 DEF AppendReturnsErr, HistoryExact
  <2> QED BY <2>1, <2>2, <2>3
<1>8. ASSUME NEW w \in Writers, AppendWaitsAgain(w) PROVE Goal'
  <2>1. ProcessSafe'
    BY <1>8 DEF AppendWaitsAgain, ProcessSafe
  <2>2. PendingExact'
    BY <1>8 DEF AppendWaitsAgain, PendingExact
  <2>3. HistoryExact'
    BY <1>8 DEF AppendWaitsAgain, HistoryExact, Waiters, Awaited
  <2> QED BY <2>1, <2>2, <2>3
<1>9. ASSUME NEW w \in Writers, SpuriousWake(w) PROVE Goal'
  <2>1. ProcessSafe'
    BY <1>9 DEF SpuriousWake, ProcessSafe
  <2>2. PendingExact'
    BY <1>9 DEF SpuriousWake, PendingExact
  <2>3. HistoryExact'
    BY <1>9 DEF SpuriousWake, HistoryExact, Waiters, Awaited
  <2> QED BY <2>1, <2>2, <2>3
<1>10. ASSUME WorkerSyncs PROVE Goal'
  <2>1. ProcessSafe'
    BY <1>10 DEF WorkerSyncs, ProcessSafe
  <2>2. PendingExact'
    BY <1>10 DEF WorkerSyncs, PendingExact, TypeOK, LogTypeOK, Entries, Replay
  <2>3. HistoryExact'
    BY <1>10 DEF WorkerSyncs, HistoryExact, Waiters, Awaited
  <2> QED BY <2>1, <2>2, <2>3
<1>11. ASSUME WorkerFails PROVE Goal'
  <2>1. ProcessSafe'
    BY <1>11 DEF WorkerFails, ProcessSafe
  <2>2. PendingExact'
    BY <1>11 DEF WorkerFails, PendingExact
  <2>3. HistoryExact'
    BY <1>11 DEF WorkerFails, HistoryExact
  <2> QED BY <2>1, <2>2, <2>3
<1>12. ASSUME Capture PROVE Goal'
  <2>1. ProcessSafe'
    BY <1>12 DEF Capture, ProcessSafe
  <2>2. PendingExact'
    BY <1>12 DEF Capture, PendingExact
  <2>3. HistoryExact'
    BY <1>12 DEF Capture, HistoryExact, Waiters, Awaited, TypeOK, LogTypeOK, Entries, Replay
  <2> QED BY <2>1, <2>2, <2>3
<1>13. ASSUME Abandon PROVE Goal'
  <2>1. ProcessSafe'
    BY <1>13 DEF Abandon, ProcessSafe
  <2>2. PendingExact'
    BY <1>13 DEF Abandon, PendingExact
  <2>3. HistoryExact'
    BY <1>13 DEF Abandon, HistoryExact, Waiters, Awaited
  <2> QED BY <2>1, <2>2, <2>3
<1>14. ASSUME RotateStarts PROVE Goal'
  <2>1. ProcessSafe'
    BY <1>14 DEF RotateStarts, ProcessSafe
  <2>2. PendingExact'
    BY <1>14 DEF RotateStarts, PendingExact, TypeOK, LogTypeOK, Entries, Replay
  <2>3. HistoryExact'
    BY <1>14 DEF RotateStarts, HistoryExact, Waiters, Awaited
  <2> QED BY <2>1, <2>2, <2>3
<1>15. ASSUME RotateSyncFails PROVE Goal'
  <2>1. ProcessSafe'
    BY <1>15 DEF RotateSyncFails, ProcessSafe
  <2>2. PendingExact'
    BY <1>15 DEF RotateSyncFails, PendingExact
  <2>3. HistoryExact'
    BY <1>15 DEF RotateSyncFails, HistoryExact
  <2> QED BY <2>1, <2>2, <2>3
<1>16. ASSUME RotateGivesUp PROVE Goal'
  <2>1. ProcessSafe'
    BY <1>16 DEF RotateGivesUp, ProcessSafe
  <2>2. PendingExact'
    BY <1>16 DEF RotateGivesUp, PendingExact
  <2>3. HistoryExact'
    BY <1>16 DEF RotateGivesUp, HistoryExact, Waiters, Awaited
  <2> QED BY <2>1, <2>2, <2>3
<1>17. ASSUME ReopenFails PROVE Goal'
  <2>1. ProcessSafe'
    BY <1>17 DEF ReopenFails, ProcessSafe
  <2>2. PendingExact'
    BY <1>17 DEF ReopenFails, PendingExact
  <2>3. HistoryExact'
    BY <1>17 DEF ReopenFails, HistoryExact
  <2> QED BY <2>1, <2>2, <2>3
<1>18. ASSUME RotateRenames PROVE Goal'
  <2>1. ProcessSafe'
    BY <1>18 DEF RotateRenames, ProcessSafe
  <2>2. PendingExact'
    BY <1>18 DEF RotateRenames, PendingExact, Rotated, TypeOK, LogTypeOK
  <2>3. HistoryExact'
    <3> PICK c \in captured : cache' = Rotated(cache, c.from, c.graph)
      BY <1>18 DEF RotateRenames
    <3>1. c.from \in Nat /\ \A i \in Replay(cache) : i \in Nat
      BY DEF TypeOK, LogTypeOK, CallersTypeOK, Entries
    <3>2. ~Refuses /\ c.graph = {i \in Replay(cache) : i < c.from}
                   /\ \A i \in cache.head : i < c.from
      BY <1>18 DEF HistoryExact, RotateRenames, ProcessSafe
    <3>3. Replay(cache') = Replay(cache)
      BY <3>1, <3>2 DEF Rotated, Replay
    <3>4. cache'.head = c.graph
      BY DEF Rotated
    <3>5. UNCHANGED <<up, durability_error, memory, captured, waiting>>
      BY <1>18 DEF RotateRenames
    <3>6. up' = up /\ Refuses' = Refuses /\ memory' = memory /\ Awaited' = Awaited
      BY <3>5 DEF Refuses, Awaited, Waiters
    <3>7. (up /\ ~Refuses)' => Replay(cache') = (memory \cup Awaited)'
      BY <3>3, <3>6 DEF HistoryExact
    <3>8. captured' = captured /\ captured = {c}
      BY <3>5 DEF HistoryExact
    <3>9. /\ c.graph = {i \in Replay(cache') : i < c.from}
          /\ \A i \in cache'.head : i < c.from
      BY <3>2, <3>3, <3>4
    <3> QED BY <3>7, <3>8, <3>9 DEF HistoryExact
  <2> QED BY <2>1, <2>2, <2>3
<1>19. ASSUME RotateSettles PROVE Goal'
  <2>1. ProcessSafe'
    BY <1>19 DEF RotateSettles, ProcessSafe
  <2>2. PendingExact'
    BY <1>19 DEF RotateSettles, PendingExact
  <2>3. HistoryExact'
    BY <1>19 DEF RotateSettles, HistoryExact, Waiters, Awaited
  <2> QED BY <2>1, <2>2, <2>3
<1>20. ASSUME RotateUnsettled PROVE Goal'
  <2>1. ProcessSafe'
    BY <1>20 DEF RotateUnsettled, ProcessSafe
  <2>2. PendingExact'
    BY <1>20 DEF RotateUnsettled, PendingExact
  <2>3. HistoryExact'
    BY <1>20 DEF RotateUnsettled, HistoryExact
  <2> QED BY <2>1, <2>2, <2>3
<1>21. ASSUME MarkImports PROVE Goal'
  <2>1. ProcessSafe'
    BY <1>21 DEF MarkImports, ProcessSafe
  <2>2. PendingExact'
    BY <1>21 DEF MarkImports, PendingExact
  <2>3. HistoryExact'
    BY <1>21 DEF MarkImports, HistoryExact, Waiters, Awaited
  <2> QED BY <2>1, <2>2, <2>3
<1>22. ASSUME MarkImportsFails PROVE Goal'
  <2>1. ProcessSafe'
    BY <1>22 DEF MarkImportsFails, ProcessSafe
  <2>2. PendingExact'
    BY <1>22 DEF MarkImportsFails, PendingExact
  <2>3. HistoryExact'
    BY <1>22 DEF MarkImportsFails, HistoryExact, Waiters, Awaited
  <2> QED BY <2>1, <2>2, <2>3
<1>23. ASSUME Kill PROVE Goal'
  <2>1. ProcessSafe'
    BY <1>23 DEF Kill, ProcessSafe
  <2>2. PendingExact'
    BY <1>23 DEF Kill, PendingExact
  <2>3. HistoryExact'
    BY <1>23 DEF Kill, HistoryExact
  <2> QED BY <2>1, <2>2, <2>3
<1>24. ASSUME PowerCut PROVE Goal'
  <2>1. ProcessSafe'
    BY <1>24 DEF PowerCut, ProcessSafe
  <2>2. PendingExact'
    BY <1>24 DEF PowerCut, PendingExact
  <2>3. HistoryExact'
    BY <1>24 DEF PowerCut, HistoryExact
  <2> QED BY <2>1, <2>2, <2>3
<1>25. ASSUME Close PROVE Goal'
  <2>1. ProcessSafe'
    BY <1>25 DEF Close, ProcessSafe
  <2>2. PendingExact'
    BY <1>25 DEF Close, PendingExact
  <2>3. HistoryExact'
    BY <1>25 DEF Close, HistoryExact
  <2> QED BY <2>1, <2>2, <2>3
<1>26. ASSUME Open PROVE Goal'
  <2>1. ProcessSafe'
    BY <1>26 DEF Open, ProcessSafe
  <2>2. PendingExact'
    BY <1>26 DEF Open, PendingExact, TypeOK, LogTypeOK, Entries, Replay
  <2>3. HistoryExact'
    BY <1>26 DEF Open, HistoryExact, ProcessSafe, Waiters, Awaited
  <2> QED BY <2>1, <2>2, <2>3
<1> HIDE DEF Goal, env, client, threads, state, file, Free, Refuses, Fsync, SyncPending,
    SyncPendingFails, ReturnsOk, ReturnsErr, Runs, Acknowledged, RotateEnds, Gone, NotifyAll,
        Poison, FirstPending, DropsPages
<1>27. Goal'
  BY Zenon, <1>1, <1>2, <1>3, <1>4, <1>5, <1>6, <1>7, <1>8, <1>9, <1>10, <1>11, <1>12, <1>13,
      <1>14, <1>15, <1>16, <1>17, <1>18, <1>19, <1>20, <1>21, <1>22, <1>23, <1>24, <1>25, <1>26
          DEF Next, Append, Rotate
<1> QED BY <1>27 DEF Goal

-----------------------------------------------------------------------------
(* Removed entries, under the graph lock.                                  *)

\* A sync that fails and says that it removed what was pending did so: no log
\* holds the entry the append waits for.  It brings back no other.
LEMMA SyncFailsRemoves ==
  ASSUME StoreInv, up, SyncPendingFails, memory' = memory, captured' \subseteq captured
  PROVE  /\ \A i \in Removed : Vanished(i)'
         /\ durability_error' = "removed" =>
              \A i \in Awaited : Vanished(i)'
<1> DEFINE cut == Truncate(cache, pending_start)
<1> USE DEF StoreInv, FileInv
<1>1. \A i \in Replay(cut) \cup Replay(Synced(cut, lost')) : i \in Replay(cache)
  BY DEF Truncate, Synced, Replay
<1>2. cache' \in {cache, cut} /\ Survivors' \subseteq Survivors \cup {Synced(cut, lost')}
  BY DEF SyncPendingFails, Survivors
<1>3. \A i \in Removed : Vanished(i)'
  BY <1>1, <1>2 DEF RemovedSafe, Vanished
<1>4. ASSUME durability_error' = "removed", NEW i \in Awaited
      PROVE  Vanished(i)'
  <2>1. /\ cache' = cut /\ disk' = Synced(cut, lost') /\ replaced' \subseteq replaced
    BY <1>4 DEF SyncPendingFails, Poison
  <2>2. /\ ~Refuses /\ pending_start = durable_sequence + 1
        /\ i = next_sequence /\ next_sequence > durable_sequence
    BY <1>4 DEF SyncPendingFails, Awaited, Waiters, OneWaiter, PendingExact, TypeOK, LogTypeOK
  <2>3. i \notin Replay(cut)
    BY <2>2 DEF RotatedOld, Truncate, Replay, TypeOK, LogTypeOK
  <2>4. \A log \in replaced : i \notin Replay(log)
    BY <2>2 DEF RotatedOld, TypeOK, LogTypeOK
  <2>5. i \notin memory /\ \A c \in captured : i \notin c.graph
    BY <1>4 DEF Awaited, Waiters, OneWaiter, TypeOK, CallersTypeOK
  <2> QED
    BY <2>1, <2>3, <2>4, <2>5 DEF Survivors, Synced, Replay, Vanished
<1> QED BY <1>3, <1>4

\* Every step keeps what is said of the last entry and of removed ones.
LEMMA StoreStep == ASSUME StoreInv, GraphLock, Next PROVE RotatedOld' /\ OneWaiter' /\ RemovedSafe'
<1> USE DEF env, client, threads, state, file, Free, Refuses, Fsync, SyncPending,
    SyncPendingFails, ReturnsOk, ReturnsErr, Runs, Acknowledged, RotateEnds, Gone, NotifyAll,
        Poison, FirstPending, DropsPages
<1> DEFINE Goal == RotatedOld /\ OneWaiter /\ RemovedSafe
<1> USE GraphLock DEF StoreInv, FileInv
<1>1. ASSUME NEW w \in Writers, WriteEntry(w) PROVE Goal'
  <2>1. RotatedOld'
    BY <1>1 DEF WriteEntry, RotatedOld
  <2>2. OneWaiter'
    BY <1>1 DEF WriteEntry, OneWaiter, Removed, Waiters, TypeOK, LogTypeOK, CallersTypeOK, Entries
  <2>3. RemovedSafe'
    BY <1>1 DEF WriteEntry, RemovedSafe, Vanished, Survivors, Removed, TypeOK, LogTypeOK,
        CallersTypeOK, Entries, Replay
  <2> QED BY <2>1, <2>2, <2>3
<1>2. ASSUME NEW w \in Writers, WriteFails(w) PROVE Goal'
  <2>1. RotatedOld'
    BY <1>2 DEF WriteFails, RotatedOld
  <2>2. OneWaiter'
    BY <1>2 DEF WriteFails, OneWaiter, Waiters
  <2>3. RemovedSafe'
    BY <1>2 DEF WriteFails, RemovedSafe, HistoryExact, Vanished, Survivors, Removed, Synced,
        TypeOK, LogTypeOK, Replay
  <2> QED BY <2>1, <2>2, <2>3
<1>3. ASSUME NEW w \in Writers, RollbackFails(w) PROVE Goal'
  <2>1. RotatedOld'
    BY <1>3 DEF RollbackFails, RotatedOld
  <2>2. OneWaiter'
    BY <1>3 DEF RollbackFails, OneWaiter, Waiters
  <2>3. RemovedSafe'
    BY <1>3 DEF RollbackFails, RemovedSafe, HistoryExact, Vanished, Survivors, Removed, TypeOK,
        LogTypeOK
  <2> QED BY <2>1, <2>2, <2>3
<1>4. ASSUME NEW w \in Writers, FlushEntry(w) PROVE Goal'
  <2>1. RotatedOld'
    BY <1>4 DEF FlushEntry, RotatedOld, TypeOK, LogTypeOK, Entries, Replay
  <2>2. OneWaiter'
    BY <1>4 DEF FlushEntry, OneWaiter, TypeOK, CallersTypeOK
  <2>3. RemovedSafe'
    BY <1>4 DEF FlushEntry, RemovedSafe, Awaited, ProcessSafe, HistoryExact, Vanished, Survivors,
        Removed, Synced, Waiters, TypeOK, LogTypeOK, Replay
  <2> QED BY <2>1, <2>2, <2>3
<1>5. ASSUME NEW w \in Writers, FlushEntryFails(w) PROVE Goal'
  <2>1. RotatedOld'
    BY <1>5 DEF FlushEntryFails, RotatedOld, Truncate
  <2>2. OneWaiter'
    BY <1>5 DEF FlushEntryFails, OneWaiter, TypeOK, CallersTypeOK
  <2>3. RemovedSafe'
    <3>1. memory' = memory /\ captured' = captured
      BY <1>5 DEF FlushEntryFails
    <3>2. \A i \in Removed' : i \in Removed \/ (i \in Awaited /\ durability_error' = "removed")
      BY <1>5 DEF FlushEntryFails, Removed, Awaited, Waiters, Entries
    <3>3. waiting[w] # 0 /\ waiting' = [waiting EXCEPT ![w] = 0]
      BY <1>5 DEF FlushEntryFails
    <3>4. \A i \in Removed' : Vanished(i)'
      BY <1>5, <3>1, <3>2, <3>3, SyncFailsRemoves DEF FlushEntryFails
    <3>5. Awaited' \subseteq Awaited
      BY <3>3 DEF Awaited, Waiters
    <3> QED
      BY <1>5, <3>1, <3>4, <3>5, SyncFailsRemoves DEF FlushEntryFails, RemovedSafe
  <2> QED BY <2>1, <2>2, <2>3
<1>6. ASSUME NEW w \in Writers, AppendReturnsOk(w) PROVE Goal'
  <2>1. RotatedOld'
    BY <1>6 DEF AppendReturnsOk, RotatedOld
  <2>2. OneWaiter'
    <3>1. \A v \in Writers : waiting'[v] = 0
      BY <1>6 DEF AppendReturnsOk, OneWaiter, TypeOK, CallersTypeOK
    <3>2. pending_entries = 0
      BY <1>6 DEF AppendReturnsOk, OneWaiter, PendingExact, TypeOK, LogTypeOK
    <3> QED
      BY <1>6, <3>1, <3>2 DEF AppendReturnsOk, OneWaiter
  <2>3. RemovedSafe'
    BY <1>6 DEF AppendReturnsOk, RemovedSafe, Awaited, HistoryExact, Vanished, Survivors, Removed,
        Waiters, TypeOK, LogTypeOK
  <2> QED BY <2>1, <2>2, <2>3
<1>7. ASSUME NEW w \in Writers, AppendReturnsErr(w) PROVE Goal'
  <2>1. RotatedOld'
    BY <1>7 DEF AppendReturnsErr, RotatedOld
  <2>2. OneWaiter'
    BY <1>7 DEF AppendReturnsErr, OneWaiter, TypeOK, CallersTypeOK
  <2>3. RemovedSafe'
    BY <1>7 DEF AppendReturnsErr, RemovedSafe, Awaited, Vanished, Survivors, Removed, Waiters,
        TypeOK, CallersTypeOK
  <2> QED BY <2>1, <2>2, <2>3
<1>8. ASSUME NEW w \in Writers, AppendWaitsAgain(w) PROVE Goal'
  <2>1. RotatedOld'
    BY <1>8 DEF AppendWaitsAgain, RotatedOld
  <2>2. OneWaiter'
    BY <1>8 DEF AppendWaitsAgain, OneWaiter, Removed, Waiters, TypeOK, CallersTypeOK
  <2>3. RemovedSafe'
    BY <1>8 DEF AppendWaitsAgain, RemovedSafe, HistoryExact, Vanished, Survivors, Removed, TypeOK,
        LogTypeOK
  <2> QED BY <2>1, <2>2, <2>3
<1>9. ASSUME NEW w \in Writers, SpuriousWake(w) PROVE Goal'
  <2>1. RotatedOld'
    BY <1>9 DEF SpuriousWake, RotatedOld
  <2>2. OneWaiter'
    BY <1>9 DEF SpuriousWake, OneWaiter, Removed, Waiters, TypeOK, CallersTypeOK
  <2>3. RemovedSafe'
    BY <1>9 DEF SpuriousWake, RemovedSafe, Awaited, Vanished, Survivors, Removed, Waiters, TypeOK,
        CallersTypeOK
  <2> QED BY <2>1, <2>2, <2>3
<1>10. ASSUME WorkerSyncs PROVE Goal'
  <2>1. RotatedOld'
    BY <1>10 DEF WorkerSyncs, RotatedOld, TypeOK, LogTypeOK, Entries, Replay
  <2>2. OneWaiter'
    BY <1>10 DEF WorkerSyncs, OneWaiter, Removed, TypeOK, CallersTypeOK
  <2>3. RemovedSafe'
    BY <1>10 DEF WorkerSyncs, RemovedSafe, OneWaiter, HistoryExact, Vanished, Survivors, Removed,
        Synced, TypeOK, LogTypeOK, Replay
  <2> QED BY <2>1, <2>2, <2>3
<1>11. ASSUME WorkerFails PROVE Goal'
  <2>1. RotatedOld'
    BY <1>11 DEF WorkerFails, RotatedOld, Truncate
  <2>2. OneWaiter'
    BY <1>11 DEF WorkerFails, OneWaiter, Removed, TypeOK, CallersTypeOK
  <2>3. RemovedSafe'
    <3>1. memory' = memory /\ captured' = captured /\ waiting' = waiting /\ Removed' = Removed
      BY <1>11 DEF WorkerFails, Removed, Entries
    <3> QED
      BY <1>11, <3>1, SyncFailsRemoves DEF WorkerFails, RemovedSafe, Awaited, Waiters
  <2> QED BY <2>1, <2>2, <2>3
<1>12. ASSUME Capture PROVE Goal'
  <2>1. RotatedOld'
    BY <1>12 DEF Capture, RotatedOld
  <2>2. OneWaiter'
    BY <1>12 DEF Capture, OneWaiter, Waiters, TypeOK, LogTypeOK, CallersTypeOK, Entries
  <2>3. RemovedSafe'
    BY <1>12 DEF Capture, RemovedSafe, HistoryExact, Vanished, Survivors, Removed, TypeOK, LogTypeOK
  <2> QED BY <2>1, <2>2, <2>3
<1>13. ASSUME Abandon PROVE Goal'
  <2>1. RotatedOld'
    BY <1>13 DEF Abandon, RotatedOld
  <2>2. OneWaiter'
    BY <1>13 DEF Abandon, OneWaiter, Removed, Waiters, TypeOK, CallersTypeOK
  <2>3. RemovedSafe'
    BY <1>13 DEF Abandon, RemovedSafe, Awaited, Vanished, Survivors, Removed, Waiters, TypeOK,
        CallersTypeOK
  <2> QED BY <2>1, <2>2, <2>3
<1>14. ASSUME RotateStarts PROVE Goal'
  <2>1. RotatedOld'
    BY <1>14 DEF RotateStarts, RotatedOld, TypeOK, LogTypeOK, Entries, Replay
  <2>2. OneWaiter'
    BY <1>14 DEF RotateStarts, OneWaiter, Removed, TypeOK, CallersTypeOK
  <2>3. RemovedSafe'
    BY <1>14 DEF RotateStarts, RemovedSafe, HistoryExact, Vanished, Survivors, Removed, Synced,
        TypeOK, LogTypeOK, Replay
  <2> QED BY <2>1, <2>2, <2>3
<1>15. ASSUME RotateSyncFails PROVE Goal'
  <2>1. RotatedOld'
    BY <1>15 DEF RotateSyncFails, RotatedOld, Truncate
  <2>2. OneWaiter'
    BY <1>15 DEF RotateSyncFails, OneWaiter, Removed, TypeOK, CallersTypeOK
  <2>3. RemovedSafe'
    <3>1. memory' = memory /\ captured' = {} /\ waiting' = waiting /\ Removed' = Removed
      BY <1>15 DEF RotateSyncFails, Removed, Entries
    <3> QED
      BY <1>15, <3>1, SyncFailsRemoves DEF RotateSyncFails, RemovedSafe, Awaited, Waiters
  <2> QED BY <2>1, <2>2, <2>3
<1>16. ASSUME RotateGivesUp PROVE Goal'
  <2>1. RotatedOld'
    BY <1>16 DEF RotateGivesUp, RotatedOld
  <2>2. OneWaiter'
    BY <1>16 DEF RotateGivesUp, OneWaiter, PendingExact, Removed, TypeOK, CallersTypeOK
  <2>3. RemovedSafe'
    BY <1>16 DEF RotateGivesUp, RemovedSafe, ProcessSafe, HistoryExact, Vanished, Survivors,
        Removed, TypeOK, LogTypeOK
  <2> QED BY <2>1, <2>2, <2>3
<1>17. ASSUME ReopenFails PROVE Goal'
  <2>1. RotatedOld'
    BY <1>17 DEF ReopenFails, RotatedOld
  <2>2. OneWaiter'
    BY <1>17 DEF ReopenFails, OneWaiter, PendingExact, Removed, TypeOK, CallersTypeOK
  <2>3. RemovedSafe'
    BY <1>17 DEF ReopenFails, RemovedSafe, ProcessSafe, HistoryExact, Vanished, Survivors,
        Removed, TypeOK, LogTypeOK
  <2> QED BY <2>1, <2>2, <2>3
<1>18. ASSUME RotateRenames PROVE Goal'
  <2>1. RotatedOld'
    BY <1>18 DEF RotateRenames, RotatedOld, Rotated, ProcessSafe, PendingExact, TypeOK, LogTypeOK,
        CallersTypeOK, Entries
  <2>2. OneWaiter'
    BY <1>18 DEF RotateRenames, OneWaiter, PendingExact, Removed, TypeOK, CallersTypeOK
  <2>3. RemovedSafe'
    BY <1>18 DEF RotateRenames, RemovedSafe, ProcessSafe, HistoryExact, Vanished, Survivors,
        Removed, Rotated, TypeOK, LogTypeOK, Replay
  <2> QED BY <2>1, <2>2, <2>3
<1>19. ASSUME RotateSettles PROVE Goal'
  <2>1. RotatedOld'
    BY <1>19 DEF RotateSettles, RotatedOld
  <2>2. OneWaiter'
    BY <1>19 DEF RotateSettles, OneWaiter, PendingExact, Removed, TypeOK, CallersTypeOK
  <2>3. RemovedSafe'
    BY <1>19 DEF RotateSettles, RemovedSafe, ProcessSafe, HistoryExact, Vanished, Survivors,
        Removed, TypeOK, LogTypeOK
  <2> QED BY <2>1, <2>2, <2>3
<1>20. ASSUME RotateUnsettled PROVE Goal'
  <2>1. RotatedOld'
    BY <1>20 DEF RotateUnsettled, RotatedOld
  <2>2. OneWaiter'
    BY <1>20 DEF RotateUnsettled, OneWaiter, PendingExact, Removed, TypeOK, CallersTypeOK
  <2>3. RemovedSafe'
    BY <1>20 DEF RotateUnsettled, RemovedSafe, ProcessSafe, HistoryExact, Vanished, Survivors,
        Removed, TypeOK, LogTypeOK
  <2> QED BY <2>1, <2>2, <2>3
<1>21. ASSUME MarkImports PROVE Goal'
  <2>1. RotatedOld'
    BY <1>21 DEF MarkImports, RotatedOld
  <2>2. OneWaiter'
    BY <1>21 DEF MarkImports, OneWaiter, Removed, Waiters, TypeOK, CallersTypeOK
  <2>3. RemovedSafe'
    BY <1>21 DEF MarkImports, RemovedSafe, Awaited, Vanished, Survivors, Removed, Synced, Waiters,
        TypeOK, CallersTypeOK, Replay
  <2> QED BY <2>1, <2>2, <2>3
<1>22. ASSUME MarkImportsFails PROVE Goal'
  <2>1. RotatedOld'
    BY <1>22 DEF MarkImportsFails, RotatedOld
  <2>2. OneWaiter'
    BY <1>22 DEF MarkImportsFails, OneWaiter, Removed, Waiters, TypeOK, CallersTypeOK
  <2>3. RemovedSafe'
    BY <1>22 DEF MarkImportsFails, RemovedSafe, Awaited, Vanished, Survivors, Removed, Waiters,
        TypeOK, CallersTypeOK
  <2> QED BY <2>1, <2>2, <2>3
<1>23. ASSUME Kill PROVE Goal'
  <2>1. RotatedOld'
    BY <1>23 DEF Kill, RotatedOld
  <2>2. OneWaiter'
    BY <1>23 DEF Kill, OneWaiter
  <2>3. RemovedSafe'
    BY <1>23 DEF Kill, RemovedSafe, Awaited, Vanished, Survivors, Removed, Waiters, TypeOK,
        LogTypeOK
  <2> QED BY <2>1, <2>2, <2>3
<1>24. ASSUME PowerCut PROVE Goal'
  <2>1. RotatedOld'
    BY <1>24 DEF PowerCut, RotatedOld, AfterPowerCut, Replay
  <2>2. OneWaiter'
    BY <1>24 DEF PowerCut, OneWaiter
  <2>3. RemovedSafe'
    BY <1>24 DEF PowerCut, RemovedSafe, Awaited, Vanished, Survivors, Removed, AfterPowerCut,
        Waiters, TypeOK, LogTypeOK, Replay
  <2> QED BY <2>1, <2>2, <2>3
<1>25. ASSUME Close PROVE Goal'
  <2>1. RotatedOld'
    BY <1>25 DEF Close, RotatedOld, TypeOK, LogTypeOK, Entries, Replay
  <2>2. OneWaiter'
    BY <1>25 DEF Close, OneWaiter
  <2>3. RemovedSafe'
    BY <1>25 DEF Close, RemovedSafe, Awaited, OneWaiter, Vanished, Survivors, Removed, Waiters,
        TypeOK, LogTypeOK
  <2> QED BY <2>1, <2>2, <2>3
<1>26. ASSUME Open PROVE Goal'
  <2>1. RotatedOld'
    BY <1>26 DEF Open, RotatedOld, TypeOK, LogTypeOK, Entries, Replay
  <2>2. OneWaiter'
    BY <1>26 DEF Open, OneWaiter, ProcessSafe
  <2>3. RemovedSafe'
    BY <1>26 DEF Open, RemovedSafe, ProcessSafe, Vanished, Survivors, Removed, Synced, TypeOK,
        LogTypeOK, Replay
  <2> QED BY <2>1, <2>2, <2>3
<1> HIDE DEF Goal, env, client, threads, state, file, Free, Refuses, Fsync, SyncPending,
    SyncPendingFails, ReturnsOk, ReturnsErr, Runs, Acknowledged, RotateEnds, Gone, NotifyAll,
        Poison, FirstPending, DropsPages
<1>27. Goal'
  BY Zenon, <1>1, <1>2, <1>3, <1>4, <1>5, <1>6, <1>7, <1>8, <1>9, <1>10, <1>11, <1>12, <1>13,
      <1>14, <1>15, <1>16, <1>17, <1>18, <1>19, <1>20, <1>21, <1>22, <1>23, <1>24, <1>25, <1>26
          DEF Next, Append, Rotate
<1> QED BY <1>27 DEF Goal

-----------------------------------------------------------------------------
(* The theorems.                                                           *)

\* The parts that need no assumption hold in every state.
LEMMA FileInvariant == Spec => []FileInv
<1>1. Init => FileInv
  <2> SUFFICES ASSUME Init PROVE FileInv
    OBVIOUS
  <2>1. TypeOK
    BY InitInv DEF IInv
  <2>2. ProcessSafe /\ PendingExact /\ HistoryExact
    BY DEF Init, ProcessSafe, PendingExact, HistoryExact, Replay, Awaited, Waiters
  <2> QED BY <2>1, <2>2 DEF FileInv
<1>2. FileInv /\ Next => FileInv'
  BY TypeStep, FileStep DEF FileInv, TypeOK
<1>3. FileInv /\ UNCHANGED vars => FileInv'
  BY DEF FileInv, TypeOK, LogTypeOK, CallersTypeOK, ProcessSafe, PendingExact,
         HistoryExact, Awaited, Waiters, Refuses, Entries, Replay,
         vars, file, state, threads, client, env
<1> QED
  BY <1>1, <1>2, <1>3, PTL DEF Spec

\* Under the graph lock so do the others.
LEMMA StoreInvariant == GraphLock => (Spec => []StoreInv)
<1> SUFFICES ASSUME GraphLock PROVE Spec => []StoreInv
  OBVIOUS
<1>1. Init /\ FileInv => StoreInv
  BY DEF StoreInv, Init, RotatedOld, OneWaiter, RemovedSafe, Removed
<1>2. StoreInv /\ Next /\ FileInv' => StoreInv'
  BY StoreStep DEF StoreInv
<1>3. StoreInv /\ UNCHANGED vars => StoreInv'
  BY DEF StoreInv, FileInv, TypeOK, LogTypeOK, CallersTypeOK, ProcessSafe, PendingExact,
         HistoryExact, Awaited, Waiters, Refuses, Entries, Replay, RotatedOld, OneWaiter,
         RemovedSafe, Vanished, Removed, Survivors, vars, file, state, threads, client, env
<1> QED
  BY <1>1, <1>2, <1>3, FileInvariant, PTL DEF Spec

\* The counters sync_pending works from describe the file, for any number of
\* writers and whatever fails: a failed sync cuts off exactly what is pending.
THEOREM PendingMatchesFileTheorem == Spec => []PendingMatchesFile
<1>1. FileInv => PendingMatchesFile
  <2> SUFFICES ASSUME FileInv, up, ~Refuses
               PROVE  LET pending == {i \in cache.tail : i > durable_sequence}
                      IN  /\ pending_entries = Cardinality(pending)
                          /\ pending_entries > 0 =>
                               Truncate(cache, pending_start).tail = cache.tail \ pending
    BY DEF PendingMatchesFile
  <2> DEFINE pending == {i \in cache.tail : i > durable_sequence}
  <2>1. /\ durable_sequence \in Nat /\ next_sequence \in Nat
        /\ durable_sequence <= next_sequence
        /\ cache.tail \subseteq Nat
    BY DEF FileInv, TypeOK, LogTypeOK, Logs
  <2>2. /\ pending = durable_sequence + 1 .. next_sequence
        /\ pending_entries = next_sequence - durable_sequence
        /\ pending_entries > 0 => pending_start = durable_sequence + 1
    BY DEF FileInv, PendingExact
  <2>3. Cardinality(durable_sequence + 1 .. next_sequence) = next_sequence - durable_sequence
    <3>1. durable_sequence + 1 \in Int /\ next_sequence \in Int
      BY <2>1
    <3>2. Cardinality(durable_sequence + 1 .. next_sequence) =
            IF durable_sequence + 1 > next_sequence THEN 0
            ELSE next_sequence - (durable_sequence + 1) + 1
      BY <3>1, FS_Interval
    <3> QED BY <2>1, <3>2
  <2>4. pending_entries > 0 => Truncate(cache, pending_start).tail = cache.tail \ pending
    BY <2>1, <2>2 DEF Truncate
  <2> QED BY <2>2, <2>3, <2>4
<1> QED
  BY <1>1, FileInvariant, PTL

\* With no append waiting, memory is what an open of the log would find.
THEOREM MemoryIsLogTheorem == Spec => []MemoryIsLog
<1>1. FileInv => MemoryIsLog
  BY DEF FileInv, HistoryExact, MemoryIsLog, Awaited
<1> QED
  BY <1>1, FileInvariant, PTL

\* A rotation never changes what the log says, waiting entries included.
THEOREM RotationKeepsHistoryTheorem == Spec => RotationKeepsHistory
<1> DEFINE Keeps == up' /\ cache'.head # cache.head => Replay(cache') = Replay(cache)
<1>1. ASSUME FileInv, Next PROVE Keeps
  <2> USE DEF file, state, threads, client, env
  <2>1. CASE RotateRenames
    <3> PICK c \in captured : cache' = Rotated(cache, c.from, c.graph)
      BY <2>1 DEF RotateRenames
    <3>1. c.from \in Nat /\ \A i \in Replay(cache) : i \in Nat
      BY <1>1 DEF FileInv, TypeOK, LogTypeOK, CallersTypeOK, Entries
    <3>2. /\ c.graph = {i \in Replay(cache) : i < c.from}
          /\ \A i \in cache.head : i < c.from
      BY <1>1, <2>1 DEF FileInv, HistoryExact, ProcessSafe, RotateRenames
    <3> QED
      BY <3>1, <3>2 DEF Rotated, Replay
  <2>2. CASE PowerCut
    BY <2>2 DEF PowerCut, Gone
  <2>3. ASSUME NEW w \in Writers, Append(w) PROVE cache'.head = cache.head
    BY <2>3 DEF Append, WriteEntry, WriteFails, RollbackFails, FlushEntry, FlushEntryFails,
       AppendReturnsOk, AppendReturnsErr, AppendWaitsAgain, SpuriousWake, SyncPending,
       SyncPendingFails, Truncate
  <2>4. ASSUME Rotate, ~RotateRenames PROVE cache'.head = cache.head
    BY <2>4 DEF Rotate, RotateStarts, RotateSyncFails, RotateGivesUp, ReopenFails,
       RotateSettles, RotateUnsettled, SyncPending, SyncPendingFails, Truncate
  <2>5. ASSUME WorkerSyncs \/ WorkerFails \/ Capture \/ Abandon \/ MarkImports \/ MarkImportsFails
        PROVE  cache'.head = cache.head
    BY <2>5 DEF WorkerSyncs, WorkerFails, Capture, Abandon, MarkImports, MarkImportsFails,
       SyncPending, SyncPendingFails, Truncate
  <2>6. ASSUME Kill \/ Close \/ Open PROVE cache'.head = cache.head
    BY <2>6 DEF Kill, Close, Open, SyncPending
  <2>7. Keeps \/ cache'.head = cache.head
    BY Zenon, <1>1, <2>1, <2>2, <2>3, <2>4, <2>5, <2>6 DEF Next
  <2> QED BY <2>7
<1>2. FileInv /\ [Next]_vars => [Keeps]_vars
  BY <1>1
<1>3. Spec => [][Keeps]_vars
  BY <1>2, FileInvariant, PTL DEF Spec
<1> QED
  BY <1>3 DEF RotationKeepsHistory

\* Under the graph lock, a write whose caller was told that it was removed is
\* in no log an open could find, whatever fails and however the process stops,
\* even where fsync does not commit a rename.
THEOREM RemovedWritesStayGoneTheorem == GraphLock => (Spec => []RemovedWritesStayGone)
<1>1. StoreInv => RemovedWritesStayGone
  BY DEF StoreInv, RemovedSafe, Removed, Vanished, Survivors, RemovedWritesStayGone
<1> QED
  BY <1>1, StoreInvariant, PTL

-----------------------------------------------------------------------------
(* The log implements DurableStore, step by step.                          *)

\* The invariants of both.
EngineInv == StoreInv /\ IInv

\* A step that answers nobody, and neither stops nor opens.
LEMMA Stutters ==
  ASSUME UNCHANGED <<up, memory, acked, next_sequence>>, Removed' = Removed
  PROVE  UNCHANGED Store!vars
BY DEF Store!vars, Entries

\* Nobody is told of an error.
LEMMA RemovedUnchanged ==
  ASSUME UNCHANGED <<next_sequence, failed>>
  PROVE  Removed' = Removed
BY DEF Removed, Entries

\* A waiting entry is in doubt.
LEMMA WaitingInDoubt ==
  ASSUME EngineInv, NEW w \in Writers, waiting[w] # 0
  PROVE  /\ waiting[w] \in 1 .. MaxEntries
         /\ waiting[w] \in Entries \ (acked \cup Removed)
         /\ waiting[w] \notin memory
BY BoundAssumption
   DEF EngineInv, StoreInv, FileInv, OneWaiter, TypeOK, LogTypeOK, CallersTypeOK, Entries

\* An append that returns Ok is an Accept,
LEMMA Accepts ==
  ASSUME EngineInv, up, up' = up, next_sequence' = next_sequence,
         NEW w \in Writers, waiting[w] # 0, ReturnsOk(w)
  PROVE  Store!Next
<1>1. Removed' = Removed
  BY RemovedUnchanged DEF ReturnsOk
<1>2. Store!Accept(waiting[w])
  BY <1>1, WaitingInDoubt DEF Store!Accept, ReturnsOk, Entries
<1> QED BY <1>2, WaitingInDoubt DEF Store!Next

\* and one that returns an error a Refuse, or nothing, by what the error says.
LEMMA RefusesOrNot ==
  ASSUME EngineInv, up, up' = up, next_sequence' = next_sequence,
         NEW w \in Writers, waiting[w] # 0, NEW error \in Errors, ReturnsErr(w, error)
  PROVE  Store!Next \/ UNCHANGED Store!vars
<1>1. CASE error = "removed"
  <2>1. Removed' = Removed \cup {waiting[w]}
    BY <1>1, WaitingInDoubt DEF Removed, ReturnsErr, Entries
  <2>2. Store!Refuse(waiting[w])
    BY <2>1, WaitingInDoubt DEF Store!Refuse, ReturnsErr, Entries
  <2> QED BY <2>2, WaitingInDoubt DEF Store!Next
<1>2. CASE error # "removed"
  <2>1. Removed' = Removed
    BY <1>2 DEF Removed, ReturnsErr, Entries
  <2> QED BY <2>1, Stutters DEF ReturnsErr
<1> QED BY <1>1, <1>2

\* A process that ends is a Stop, if it was running.
LEMMA StopsOrNot ==
  ASSUME EngineInv, Gone, next_sequence' = next_sequence
  PROVE  Store!Next \/ UNCHANGED Store!vars
<1>1. Removed' = Removed
  BY RemovedUnchanged DEF Gone
<1>2. CASE up
  BY <1>1, <1>2 DEF Gone, Store!Next, Store!Stop, Entries
<1>3. CASE ~up
  <2>1. memory = {}
    BY <1>3 DEF EngineInv, StoreInv, FileInv, ProcessSafe
  <2>2. up' = up
    BY <1>3 DEF Gone, EngineInv, IInv, TypeOK, CallersTypeOK
  <2> QED BY <1>1, <2>1, <2>2, Stutters DEF Gone
<1> QED BY <1>2, <1>3

\* Every step of the log is one of the store, or none.
LEMMA StoreRefines ==
  ASSUME EngineInv, Next
  PROVE  Store!Next \/ UNCHANGED Store!vars
<1> DEFINE Maps == Store!Next \/ UNCHANGED Store!vars
<1> USE DEF file, state, threads, client, env
<1>1. ASSUME NEW w \in Writers, WriteEntry(w) PROVE Maps
  <2> DEFINE id == next_sequence + 1
  <2>1. /\ next_sequence \in Nat /\ id \in 1 .. MaxEntries
        /\ acked \subseteq Entries /\ Removed \subseteq Entries
    BY <1>1, BoundAssumption
    DEF WriteEntry, EngineInv, IInv, TypeOK, LogTypeOK, CallersTypeOK, Entries, Removed
  <2>2. Entries' = Entries \cup {id} /\ id \notin Entries
    BY <1>1, <2>1 DEF WriteEntry, Entries
  <2>3. UNCHANGED <<up, memory, acked, failed>> /\ up
    BY <1>1 DEF WriteEntry, Free
  <2>4. Removed' = Removed
    <3>1. <<id, "removed">> \notin failed
      BY <2>2 DEF EngineInv, IInv, TypeOK, CallersTypeOK
    <3> QED BY <2>2, <2>3, <3>1 DEF Removed
  <2>5. Store!Submit(id)
    BY <2>1, <2>2, <2>3, <2>4 DEF Store!Submit
  <2> QED BY <2>1, <2>5 DEF Store!Next
<1>2. ASSUME NEW w \in Writers,
             WriteFails(w) \/ RollbackFails(w) \/ AppendWaitsAgain(w) \/ SpuriousWake(w)
      PROVE  Maps
  BY <1>2, Stutters, RemovedUnchanged
  DEF WriteFails, RollbackFails, AppendWaitsAgain, SpuriousWake
<1>3. ASSUME NEW w \in Writers, FlushEntry(w) \/ AppendReturnsOk(w) PROVE Maps
  <2>1. /\ up /\ waiting[w] # 0 /\ ReturnsOk(w)
        /\ UNCHANGED <<up, next_sequence>>
    BY <1>3 DEF FlushEntry, AppendReturnsOk, SyncPending, Runs, Free
  <2> QED BY <2>1, Accepts
<1>4. ASSUME NEW w \in Writers, FlushEntryFails(w) \/ AppendReturnsErr(w) PROVE Maps
  <2>1. /\ up /\ waiting[w] # 0 /\ UNCHANGED <<up, next_sequence>>
        /\ \E error \in Errors : ReturnsErr(w, error)
    BY <1>4
    DEF FlushEntryFails, AppendReturnsErr, SyncPendingFails, Poison, Runs, Free, Errors,
        EngineInv, IInv, TypeOK, LogTypeOK
  <2> QED BY <2>1, RefusesOrNot
<1>5. ASSUME WorkerSyncs \/ WorkerFails PROVE Maps
  BY <1>5, Stutters, RemovedUnchanged DEF WorkerSyncs, WorkerFails, SyncPending, SyncPendingFails
<1>6. ASSUME Capture \/ Abandon \/ MarkImports \/ MarkImportsFails PROVE Maps
  BY <1>6, Stutters, RemovedUnchanged DEF Capture, Abandon, MarkImports, MarkImportsFails
<1>7. ASSUME Rotate PROVE Maps
  BY <1>7, Stutters, RemovedUnchanged
  DEF Rotate, RotateStarts, RotateSyncFails, RotateGivesUp, ReopenFails, RotateRenames,
      RotateSettles, RotateUnsettled, RotateEnds, SyncPending, SyncPendingFails
<1>8. ASSUME Kill \/ PowerCut \/ Close PROVE Maps
  BY <1>8, StopsOrNot DEF Kill, PowerCut, Close, SyncPending
<1>9. ASSUME Open PROVE Maps
  <2>1. acked \subseteq Replay(cache) /\ Replay(cache) \subseteq Entries
    BY DEF EngineInv, IInv, AckedSafe, TypeOK, LogTypeOK
  <2>2. Replay(cache) \cap Removed = {}
    BY DEF EngineInv, StoreInv, RemovedSafe, Vanished
  <2>3. UNCHANGED <<acked, failed, next_sequence>> /\ ~up /\ up' /\ memory' = Replay(cache)
    BY <1>9 DEF Open
  <2>4. Removed' = Removed /\ Entries' = Entries
    BY <2>3, RemovedUnchanged DEF Entries
  <2> DEFINE found == Replay(cache) \ acked
  <2>5. found \in SUBSET (Entries \ (acked \cup Removed)) /\ memory' = acked \cup found
    BY <2>1, <2>2, <2>3
  <2>6. Store!Reopen
    BY <2>3, <2>4, <2>5, <1>9 DEF Store!Reopen
  <2> QED BY <2>6 DEF Store!Next
<1> HIDE DEF Maps, file, state, threads, client, env
<1>10. Maps
  BY Zenon, <1>1, <1>2, <1>3, <1>4, <1>5, <1>6, <1>7, <1>8, <1>9 DEF Next, Append
<1> QED BY <1>10 DEF Maps

\* Under the graph lock, and with the syncs AckedDurableTheorem assumes, the log
\* implements the durable store its callers take it for.
THEOREM ImplementsStoreTheorem == GraphLock /\ SoundSyncs => (Spec => ImplementsStore)
<1> SUFFICES ASSUME GraphLock, SoundSyncs PROVE Spec => Store!Spec
  BY DEF ImplementsStore
<1>1. Init => Store!Init
  <2> SUFFICES ASSUME Init PROVE Store!Init
    OBVIOUS
  <2>1. Removed = {} /\ Entries = {}
    BY DEF Init, Removed, Entries
  <2>2. up = TRUE /\ memory = {} /\ acked = {}
    BY Zenon DEF Init
  <2> QED BY <2>1, <2>2 DEF Store!Init
<1>2. Spec => []EngineInv
  BY StoreInvariant, SafeInvariant, PTL DEF EngineInv
<1>3. EngineInv /\ [Next]_vars => [Store!Next]_(Store!vars)
  <2>1. EngineInv /\ UNCHANGED vars => UNCHANGED Store!vars
    BY Stutters, RemovedUnchanged DEF vars, client, state, env
  <2> QED BY <2>1, StoreRefines
<1> QED
  BY <1>1, <1>2, <1>3, PTL DEF Spec, Store!Spec

\* An open database shows every acknowledged write and no refused one.
THEOREM HonestTheorem == GraphLock /\ SoundSyncs => (Spec => []Store!Honest)
<1> SUFFICES ASSUME GraphLock, SoundSyncs PROVE Spec => []Store!Honest
  OBVIOUS
<1>1. EngineInv => Store!Honest
  BY DEF EngineInv, StoreInv, RemovedSafe, Vanished, IInv, AckedSafe, Store!Honest
<1> QED
  BY <1>1, StoreInvariant, SafeInvariant, PTL DEF EngineInv
=============================================================================

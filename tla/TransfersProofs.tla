--------------------------- MODULE TransfersProofs --------------------------
(***************************************************************************)
(* Proofs about Transfers, for any requests, any number of slots, any      *)
(* length of file, channel and upload, and any uploads.                    *)
(***************************************************************************)
EXTENDS Transfers, FiniteSetTheorems, TLAPS

-----------------------------------------------------------------------------
(* The inductive invariant, in parts.                                      *)

\* Nothing has been sent or received yet.
Unstarted ==
  {"new", "query", "running", "spool", "exporting", "stream", "stage", "creating", "orphaned"}

\* A download, an upload, and a request that owns a staging file.
Downloads ==
  {"spool", "exporting", "sending", "failing", "stream", "streaming", "breaking", "sent", "read",
   "broken"}
Uploads == {"stage", "creating", "upload", "orphaned", "import", "installing"}
Staged  ==
  {"exporting", "sending", "failing", "creating", "upload", "orphaned", "import", "installing"}

Phases == Unstarted \cup Downloads \cup Uploads \cup {"done"}

Statuses == {"none", "200", "400", "408", "413", "500", "503"}

\* The types of the variables.
Types ==
  /\ disk \in BOOLEAN
  /\ gate \in Requests \cup {Nobody} /\ db \in Requests \cup {Nobody}
  /\ pc \in [Requests -> Phases] /\ answer \in [Requests -> Statuses]
  /\ handler \subseteq Requests
  /\ body \in [Requests -> [chunks : Nat, declared : BOOLEAN, valid : BOOLEAN]]
  /\ sent \in [Requests -> Nat] /\ got \in [Requests -> Nat]

\* The slots that are taken can be counted, and are no more than there are.
SlotsHeld == IsFiniteSet(slots) /\ Cardinality(slots) <= Slots

\* The gate is held by the one request that is in a task.
GateHeld == \A r \in Requests : gate = r <=> pc[r] \in Tasks

\* What a request has sent or received, by where it is.
Counted(r) ==
  /\ got[r] <= sent[r]
  /\ body[r] = NoBody => sent[r] - got[r] <= InFlight
  /\ pc[r] \in Unstarted => sent[r] = 0
  /\ pc[r] \in {"new", "query", "running"} \cup Downloads => body[r] = NoBody
  /\ pc[r] \in Downloads => sent[r] <= Length
  /\ pc[r] \in Uploads => got[r] = 0 /\ sent[r] <= body[r].chunks
  /\ pc[r] \in {"import", "installing"} => sent[r] = body[r].chunks

\* Only a disk database exports to files, and in memory a body that ends
\* without an error is whole.
Whole(r) ==
  /\ pc[r] \in {"exporting", "sending", "failing"} => disk
  /\ pc[r] = "sent" /\ ~disk /\ r \notin failed => sent[r] = Length
  /\ pc[r] = "read" => got[r] = Length

\* A request is answered when it ends, and the graph is one that has ended.
Answered(r) ==
  /\ pc[r] \in {"new", "query", "running"} \cup Uploads => answer[r] = "none"
  /\ db = r => pc[r] = "done"
  /\ db = r /\ body[r] # NoBody =>
       sent[r] = body[r].chunks /\ body[r].valid /\ answer[r] \in {"200", "none"}

\* Files belong to requests that are under way.
FilesOwned == \A r \in files : r \in Requests /\ pc[r] \in Staged

IInv ==
  /\ Types /\ SlotsHeld /\ GateHeld /\ FilesOwned
  /\ \A r \in Requests : Counted(r) /\ Whole(r) /\ Answered(r)

-----------------------------------------------------------------------------

\* A server that has served nothing satisfies the invariant.
LEMMA InitInv == Init => IInv
<1> SUFFICES ASSUME Init PROVE IInv
  OBVIOUS
<1>1. disk \in BOOLEAN
  BY Zenon DEF Init
<1>2. Types
  BY <1>1 DEF Init, Types, Phases, Unstarted, Statuses, NoBody
<1>3. SlotsHeld
  BY FS_EmptySet, SlotsAssumption DEF Init, SlotsHeld
<1>4. GateHeld /\ FilesOwned
  BY RequestsAssumption DEF Init, GateHeld, FilesOwned, Tasks
<1>5. \A r \in Requests : Counted(r)
  BY SlotsAssumption DEF Init, Counted, Unstarted, Downloads, Uploads, NoBody
<1>6. \A r \in Requests : Whole(r) /\ Answered(r)
  BY RequestsAssumption DEF Init, Whole, Answered, Uploads
<1> QED BY <1>2, <1>3, <1>4, <1>5, <1>6 DEF IInv

-----------------------------------------------------------------------------
(* Slots: try_acquire_owned takes one only while fewer than Slots are      *)
(* taken, and dropping a permit frees at most one.                         *)

\* A slot taken while there is one free.
LEMMA SlotTaken ==
  ASSUME SlotsHeld, Cardinality(slots) < Slots, NEW r, slots' = slots \cup {r}
  PROVE  SlotsHeld'
<1>1. IsFiniteSet(slots') /\ Cardinality(slots') \in {Cardinality(slots), Cardinality(slots) + 1}
  BY FS_AddElement DEF SlotsHeld
<1> QED BY <1>1, FS_CardinalityType, SlotsAssumption DEF SlotsHeld

\* A slot freed, by a request that may not hold one.
LEMMA SlotFreed ==
  ASSUME SlotsHeld, NEW r, slots' = slots \ {r}
  PROVE  SlotsHeld'
<1>1. IsFiniteSet(slots') /\ Cardinality(slots') <= Cardinality(slots)
  BY FS_Subset DEF SlotsHeld
<1> QED BY <1>1, FS_CardinalityType, SlotsAssumption DEF SlotsHeld

\* No slot taken or freed.
LEMMA SlotsKept == ASSUME SlotsHeld, UNCHANGED slots PROVE SlotsHeld'
BY DEF SlotsHeld

-----------------------------------------------------------------------------

\* Every step keeps the invariant, one case per action.
LEMMA IInvStep == ASSUME IInv, Next PROVE IInv'
<1> USE SlotsAssumption, BodiesAssumption, LengthsAssumption, RequestsAssumption
    DEF Nobody, Goes, Answers, FreesSlot, DropsFile, TakesGate, LeavesGate, GateFree,
        Ends, Moved, Admitted, Room, SenderEnds, Complete, Uploading, Types
<1>0. /\ Types /\ SlotsHeld /\ GateHeld /\ FilesOwned
      /\ \A r \in Requests : Counted(r) /\ Whole(r) /\ Answered(r)
  BY DEF IInv
<1> USE <1>0
<1>1. ASSUME NEW r \in Requests, Get(r) PROVE IInv'
  <2>1. Types'
    BY <1>1 DEF Get, Phases, Statuses, Unstarted
  <2>2. GateHeld'
    BY <1>1 DEF Get, GateHeld, Tasks
  <2>3. FilesOwned'
    BY <1>1 DEF Get, FilesOwned, Staged
  <2>4. \A q \in Requests : Counted(q)'
    BY <1>1 DEF Get, Counted, Unstarted
  <2>5. \A q \in Requests : Whole(q)'
    BY <1>1 DEF Get, Whole
  <2>6. \A q \in Requests : Answered(q)'
    BY <1>1 DEF Get, Answered, Uploads
  <2>7. SlotsHeld'
    BY <1>1, SlotTaken, SlotFreed, SlotsKept DEF Get
  <2> QED BY <2>1, <2>2, <2>3, <2>4, <2>5, <2>6, <2>7 DEF IInv
<1>2. ASSUME NEW r \in Requests, Query(r) PROVE IInv'
  <2>1. Types'
    BY <1>2 DEF Query, Phases, Unstarted
  <2>2. GateHeld'
    BY <1>2 DEF Query, GateHeld, Tasks
  <2>3. FilesOwned'
    BY <1>2 DEF Query, FilesOwned, Staged
  <2>4. \A q \in Requests : Counted(q)'
    BY <1>2 DEF Query, Counted, Unstarted
  <2>5. \A q \in Requests : Whole(q)'
    BY <1>2 DEF Query, Whole
  <2>6. \A q \in Requests : Answered(q)'
    BY <1>2 DEF Query, Answered
  <2>7. SlotsHeld'
    BY <1>2, SlotTaken, SlotFreed, SlotsKept DEF Query
  <2> QED BY <2>1, <2>2, <2>3, <2>4, <2>5, <2>6, <2>7 DEF IInv
<1>3. ASSUME NEW r \in Requests, NEW upload \in Bodies, Put(r, upload) PROVE IInv'
  <2>0. upload.chunks \in Nat /\ body' = [body EXCEPT ![r] = upload] /\ db # r
    BY <1>3 DEF Put, Answered
  <2>1. Types'
    BY <1>3, <2>0 DEF Put, Phases, Statuses, Unstarted, Downloads
  <2>2. GateHeld'
    BY <1>3, <2>0 DEF Put, GateHeld, Tasks
  <2>3. FilesOwned'
    BY <1>3, <2>0 DEF Put, FilesOwned, Staged
  <2>4. \A q \in Requests : Counted(q)'
    <3>1. \A q \in Requests \ {r} : Counted(q)'
      BY <1>3 DEF Put, Counted
    <3>2. sent'[r] = 0 /\ got'[r] = 0 /\ body'[r] = upload /\ pc'[r] \in {"stage", "done"}
      BY <1>3 DEF Put, Counted, Unstarted
    <3>3. Counted(r)'
      BY <2>0, <3>2 DEF Counted, Downloads
    <3> QED BY <3>1, <3>3
  <2>5. \A q \in Requests : Whole(q)'
    BY <1>3, <2>0 DEF Put, Whole
  <2>6. \A q \in Requests : Answered(q)'
    <3>1. \A q \in Requests \ {r} : Answered(q)'
      BY <1>3 DEF Put, Answered
    <3>2. Answered(r)'
      BY <1>3, <2>0 DEF Put, Answered, Uploads
    <3> QED BY <3>1, <3>2
  <2>7. SlotsHeld'
    BY <1>3, SlotTaken, SlotFreed, SlotsKept DEF Put
  <2> QED BY <2>1, <2>2, <2>3, <2>4, <2>5, <2>6, <2>7 DEF IInv
<1>4. ASSUME NEW r \in Requests, QueryStarts(r) PROVE IInv'
  <2>1. Types'
    BY <1>4 DEF QueryStarts, Phases, Unstarted
  <2>2. GateHeld'
    BY <1>4 DEF QueryStarts, GateHeld, Tasks
  <2>3. FilesOwned'
    BY <1>4 DEF QueryStarts, FilesOwned, Staged
  <2>4. \A q \in Requests : Counted(q)'
    BY <1>4 DEF QueryStarts, Counted, Unstarted
  <2>5. \A q \in Requests : Whole(q)'
    BY <1>4 DEF QueryStarts, Whole
  <2>6. \A q \in Requests : Answered(q)'
    BY <1>4 DEF QueryStarts, Answered
  <2>7. SlotsHeld'
    BY <1>4, SlotTaken, SlotFreed, SlotsKept DEF QueryStarts
  <2> QED BY <2>1, <2>2, <2>3, <2>4, <2>5, <2>6, <2>7 DEF IInv
<1>5. ASSUME NEW r \in Requests, QueryEnds(r) PROVE IInv'
  <2>1. Types'
    BY <1>5 DEF QueryEnds, Phases, Statuses
  <2>2. GateHeld'
    BY <1>5 DEF QueryEnds, GateHeld, Tasks
  <2>3. FilesOwned'
    BY <1>5 DEF QueryEnds, FilesOwned
  <2>4. \A q \in Requests : Counted(q)'
    BY <1>5 DEF QueryEnds, Counted, Unstarted
  <2>5. \A q \in Requests : Whole(q)'
    BY <1>5 DEF QueryEnds, Whole
  <2>6. \A q \in Requests : Answered(q)'
    BY <1>5 DEF QueryEnds, Answered, Uploads, Counted
  <2>7. SlotsHeld'
    BY <1>5, SlotTaken, SlotFreed, SlotsKept DEF QueryEnds
  <2> QED BY <2>1, <2>2, <2>3, <2>4, <2>5, <2>6, <2>7 DEF IInv
<1>6. ASSUME NEW r \in Requests, ExportStarts(r) PROVE IInv'
  <2>1. Types'
    BY <1>6 DEF ExportStarts, Phases, Unstarted
  <2>2. GateHeld'
    BY <1>6 DEF ExportStarts, GateHeld, Tasks
  <2>3. FilesOwned'
    BY <1>6 DEF ExportStarts, FilesOwned, Staged
  <2>4. \A q \in Requests : Counted(q)'
    BY <1>6 DEF ExportStarts, Counted, Unstarted, Downloads
  <2>5. \A q \in Requests : Whole(q)'
    BY <1>6 DEF ExportStarts, Whole
  <2>6. \A q \in Requests : Answered(q)'
    BY <1>6 DEF ExportStarts, Answered, Uploads
  <2>7. SlotsHeld'
    BY <1>6, SlotTaken, SlotFreed, SlotsKept DEF ExportStarts
  <2> QED BY <2>1, <2>2, <2>3, <2>4, <2>5, <2>6, <2>7 DEF IInv
<1>7. ASSUME NEW r \in Requests, ExportEnds(r) PROVE IInv'
  <2>1. Types'
    BY <1>7 DEF ExportEnds, Phases, Statuses, Downloads
  <2>2. GateHeld'
    BY <1>7 DEF ExportEnds, GateHeld, Tasks
  <2>3. FilesOwned'
    BY <1>7 DEF ExportEnds, FilesOwned, Staged
  <2>4. \A q \in Requests : Counted(q)'
    BY <1>7 DEF ExportEnds, Counted, Unstarted, Downloads
  <2>5. \A q \in Requests : Whole(q)'
    BY <1>7 DEF ExportEnds, Whole
  <2>6. \A q \in Requests : Answered(q)'
    BY <1>7 DEF ExportEnds, Answered, Uploads
  <2>7. SlotsHeld'
    BY <1>7, SlotTaken, SlotFreed, SlotsKept DEF ExportEnds
  <2> QED BY <2>1, <2>2, <2>3, <2>4, <2>5, <2>6, <2>7 DEF IInv
<1>8. ASSUME NEW r \in Requests, ExportFails(r) PROVE IInv'
  <2>1. Types'
    BY <1>8 DEF ExportFails, Phases, Statuses
  <2>2. GateHeld'
    BY <1>8 DEF ExportFails, GateHeld, Tasks
  <2>3. FilesOwned'
    BY <1>8 DEF ExportFails, FilesOwned
  <2>4. \A q \in Requests : Counted(q)'
    BY <1>8 DEF ExportFails, Counted, Unstarted, Downloads
  <2>5. \A q \in Requests : Whole(q)'
    BY <1>8 DEF ExportFails, Whole
  <2>6. \A q \in Requests : Answered(q)'
    BY <1>8 DEF ExportFails, Answered, Uploads
  <2>7. SlotsHeld'
    BY <1>8, SlotTaken, SlotFreed, SlotsKept DEF ExportFails
  <2> QED BY <2>1, <2>2, <2>3, <2>4, <2>5, <2>6, <2>7 DEF IInv
<1>9. ASSUME NEW r \in Requests, Sends(r) PROVE IInv'
  <2>1. Types'
    BY <1>9 DEF Sends
  <2>2. GateHeld'
    BY <1>9 DEF Sends, GateHeld
  <2>3. FilesOwned'
    BY <1>9 DEF Sends, FilesOwned
  <2>4. \A q \in Requests : Counted(q)'
    BY <1>9 DEF Sends, Counted, Unstarted, Uploads
  <2>5. \A q \in Requests : Whole(q)'
    BY <1>9 DEF Sends, Whole
  <2>6. \A q \in Requests : Answered(q)'
    BY <1>9 DEF Sends, Answered
  <2>7. SlotsHeld'
    BY <1>9, SlotTaken, SlotFreed, SlotsKept DEF Sends
  <2> QED BY <2>1, <2>2, <2>3, <2>4, <2>5, <2>6, <2>7 DEF IInv
<1>10. ASSUME NEW r \in Requests, SendsLast(r) PROVE IInv'
  <2>1. Types'
    BY <1>10 DEF SendsLast, Phases, Downloads
  <2>2. GateHeld'
    BY <1>10 DEF SendsLast, GateHeld, Tasks
  <2>3. FilesOwned'
    BY <1>10 DEF SendsLast, FilesOwned
  <2>4. \A q \in Requests : Counted(q)'
    BY <1>10 DEF SendsLast, Counted, Unstarted, Downloads, Uploads
  <2>5. \A q \in Requests : Whole(q)'
    BY <1>10 DEF SendsLast, Whole
  <2>6. \A q \in Requests : Answered(q)'
    BY <1>10 DEF SendsLast, Answered, Uploads
  <2>7. SlotsHeld'
    BY <1>10, SlotTaken, SlotFreed, SlotsKept DEF SendsLast
  <2> QED BY <2>1, <2>2, <2>3, <2>4, <2>5, <2>6, <2>7 DEF IInv
<1>11. ASSUME NEW r \in Requests, SendFails(r) PROVE IInv'
  <2>1. Types'
    BY <1>11 DEF SendFails, Phases, Downloads
  <2>2. GateHeld'
    BY <1>11 DEF SendFails, GateHeld, Tasks
  <2>3. FilesOwned'
    BY <1>11 DEF SendFails, FilesOwned, Staged
  <2>4. \A q \in Requests : Counted(q)'
    BY <1>11 DEF SendFails, Counted, Unstarted, Downloads, Uploads
  <2>5. \A q \in Requests : Whole(q)'
    BY <1>11 DEF SendFails, Whole
  <2>6. \A q \in Requests : Answered(q)'
    BY <1>11 DEF SendFails, Answered, Uploads
  <2>7. SlotsHeld'
    BY <1>11, SlotTaken, SlotFreed, SlotsKept DEF SendFails
  <2> QED BY <2>1, <2>2, <2>3, <2>4, <2>5, <2>6, <2>7 DEF IInv
<1>12. ASSUME NEW r \in Requests, SendsError(r) PROVE IInv'
  <2>1. Types'
    BY <1>12 DEF SendsError, Phases, Downloads
  <2>2. GateHeld'
    BY <1>12 DEF SendsError, GateHeld, Tasks
  <2>3. FilesOwned'
    BY <1>12 DEF SendsError, FilesOwned
  <2>4. \A q \in Requests : Counted(q)'
    BY <1>12 DEF SendsError, Counted, Unstarted, Downloads, Uploads
  <2>5. \A q \in Requests : Whole(q)'
    BY <1>12 DEF SendsError, Whole
  <2>6. \A q \in Requests : Answered(q)'
    BY <1>12 DEF SendsError, Answered, Uploads
  <2>7. SlotsHeld'
    BY <1>12, SlotTaken, SlotFreed, SlotsKept DEF SendsError
  <2> QED BY <2>1, <2>2, <2>3, <2>4, <2>5, <2>6, <2>7 DEF IInv
<1>13. ASSUME NEW r \in Requests, FindsNoStaging(r) PROVE IInv'
  <2>1. Types'
    BY <1>13 DEF FindsNoStaging, Phases, Statuses, Unstarted
  <2>2. GateHeld'
    BY <1>13 DEF FindsNoStaging, GateHeld, Tasks
  <2>3. FilesOwned'
    BY <1>13 DEF FindsNoStaging, FilesOwned, Staged
  <2>4. \A q \in Requests : Counted(q)'
    BY <1>13 DEF FindsNoStaging, Counted, Unstarted, Downloads
  <2>5. \A q \in Requests : Whole(q)'
    BY <1>13 DEF FindsNoStaging, Whole
  <2>6. \A q \in Requests : Answered(q)'
    BY <1>13 DEF FindsNoStaging, Answered, Uploads
  <2>7. SlotsHeld'
    BY <1>13, SlotTaken, SlotFreed, SlotsKept DEF FindsNoStaging
  <2> QED BY <2>1, <2>2, <2>3, <2>4, <2>5, <2>6, <2>7 DEF IInv
<1>14. ASSUME NEW r \in Requests, StreamStarts(r) PROVE IInv'
  <2>1. Types'
    BY <1>14 DEF StreamStarts, Phases, Downloads
  <2>2. GateHeld'
    BY <1>14 DEF StreamStarts, GateHeld, Tasks
  <2>3. FilesOwned'
    BY <1>14 DEF StreamStarts, FilesOwned, Staged
  <2>4. \A q \in Requests : Counted(q)'
    BY <1>14 DEF StreamStarts, Counted, Unstarted, Downloads
  <2>5. \A q \in Requests : Whole(q)'
    BY <1>14 DEF StreamStarts, Whole
  <2>6. \A q \in Requests : Answered(q)'
    BY <1>14 DEF StreamStarts, Answered, Uploads
  <2>7. SlotsHeld'
    BY <1>14, SlotTaken, SlotFreed, SlotsKept DEF StreamStarts
  <2> QED BY <2>1, <2>2, <2>3, <2>4, <2>5, <2>6, <2>7 DEF IInv
<1>15. ASSUME NEW r \in Requests, StreamEnds(r) PROVE IInv'
  <2>1. Types'
    BY <1>15 DEF StreamEnds, Phases, Downloads
  <2>2. GateHeld'
    BY <1>15 DEF StreamEnds, GateHeld, Tasks
  <2>3. FilesOwned'
    BY <1>15 DEF StreamEnds, FilesOwned, Staged
  <2>4. \A q \in Requests : Counted(q)'
    BY <1>15 DEF StreamEnds, Counted, Unstarted, Downloads, Uploads
  <2>5. \A q \in Requests : Whole(q)'
    BY <1>15 DEF StreamEnds, Whole
  <2>6. \A q \in Requests : Answered(q)'
    BY <1>15 DEF StreamEnds, Answered, Uploads
  <2>7. SlotsHeld'
    BY <1>15, SlotTaken, SlotFreed, SlotsKept DEF StreamEnds
  <2> QED BY <2>1, <2>2, <2>3, <2>4, <2>5, <2>6, <2>7 DEF IInv
<1>16. ASSUME NEW r \in Requests, StreamFails(r) PROVE IInv'
  <2>1. Types'
    BY <1>16 DEF StreamFails, Phases, Downloads
  <2>2. GateHeld'
    BY <1>16 DEF StreamFails, GateHeld, Tasks
  <2>3. FilesOwned'
    BY <1>16 DEF StreamFails, FilesOwned, Staged
  <2>4. \A q \in Requests : Counted(q)'
    BY <1>16 DEF StreamFails, Counted, Unstarted, Downloads, Uploads
  <2>5. \A q \in Requests : Whole(q)'
    BY <1>16 DEF StreamFails, Whole
  <2>6. \A q \in Requests : Answered(q)'
    BY <1>16 DEF StreamFails, Answered, Uploads
  <2>7. SlotsHeld'
    BY <1>16, SlotTaken, SlotFreed, SlotsKept DEF StreamFails
  <2> QED BY <2>1, <2>2, <2>3, <2>4, <2>5, <2>6, <2>7 DEF IInv
<1>17. ASSUME NEW r \in Requests, StagingStarts(r) PROVE IInv'
  <2>1. Types'
    BY <1>17 DEF StagingStarts, Phases, Unstarted
  <2>2. GateHeld'
    BY <1>17 DEF StagingStarts, GateHeld, Tasks
  <2>3. FilesOwned'
    BY <1>17 DEF StagingStarts, FilesOwned, Staged
  <2>4. \A q \in Requests : Counted(q)'
    BY <1>17 DEF StagingStarts, Counted, Unstarted, Downloads
  <2>5. \A q \in Requests : Whole(q)'
    BY <1>17 DEF StagingStarts, Whole
  <2>6. \A q \in Requests : Answered(q)'
    BY <1>17 DEF StagingStarts, Answered, Uploads
  <2>7. SlotsHeld'
    BY <1>17, SlotTaken, SlotFreed, SlotsKept DEF StagingStarts
  <2> QED BY <2>1, <2>2, <2>3, <2>4, <2>5, <2>6, <2>7 DEF IInv
<1>18. ASSUME NEW r \in Requests, StagingEnds(r) PROVE IInv'
  <2>1. Types'
    BY <1>18 DEF StagingEnds, Phases, Uploads
  <2>2. GateHeld'
    BY <1>18 DEF StagingEnds, GateHeld, Tasks
  <2>3. FilesOwned'
    BY <1>18 DEF StagingEnds, FilesOwned, Staged
  <2>4. \A q \in Requests : Counted(q)'
    BY <1>18 DEF StagingEnds, Counted, Unstarted, Downloads
  <2>5. \A q \in Requests : Whole(q)'
    BY <1>18 DEF StagingEnds, Whole
  <2>6. \A q \in Requests : Answered(q)'
    BY <1>18 DEF StagingEnds, Answered, Uploads
  <2>7. SlotsHeld'
    BY <1>18, SlotTaken, SlotFreed, SlotsKept DEF StagingEnds
  <2> QED BY <2>1, <2>2, <2>3, <2>4, <2>5, <2>6, <2>7 DEF IInv
<1>19. ASSUME NEW r \in Requests, StagingFails(r) PROVE IInv'
  <2>1. Types'
    BY <1>19 DEF StagingFails, Phases, Statuses
  <2>2. GateHeld'
    BY <1>19 DEF StagingFails, GateHeld, Tasks
  <2>3. FilesOwned'
    BY <1>19 DEF StagingFails, FilesOwned
  <2>4. \A q \in Requests : Counted(q)'
    BY <1>19 DEF StagingFails, Counted, Unstarted, Downloads
  <2>5. \A q \in Requests : Whole(q)'
    BY <1>19 DEF StagingFails, Whole
  <2>6. \A q \in Requests : Answered(q)'
    BY <1>19 DEF StagingFails, Answered, Uploads
  <2>7. SlotsHeld'
    BY <1>19, SlotTaken, SlotFreed, SlotsKept DEF StagingFails
  <2> QED BY <2>1, <2>2, <2>3, <2>4, <2>5, <2>6, <2>7 DEF IInv
<1>20. ASSUME NEW r \in Requests, Receives(r) PROVE IInv'
  <2>1. Types'
    BY <1>20 DEF Receives
  <2>2. GateHeld'
    BY <1>20 DEF Receives, GateHeld
  <2>3. FilesOwned'
    BY <1>20 DEF Receives, FilesOwned
  <2>4. \A q \in Requests : Counted(q)'
    BY <1>20 DEF Receives, Counted, NoBody, Unstarted
  <2>5. \A q \in Requests : Whole(q)'
    BY <1>20 DEF Receives, Whole
  <2>6. \A q \in Requests : Answered(q)'
    BY <1>20 DEF Receives, Answered
  <2>7. SlotsHeld'
    BY <1>20, SlotTaken, SlotFreed, SlotsKept DEF Receives
  <2> QED BY <2>1, <2>2, <2>3, <2>4, <2>5, <2>6, <2>7 DEF IInv
<1>21. ASSUME NEW r \in Requests, TooLarge(r) PROVE IInv'
  <2>1. Types'
    BY <1>21 DEF TooLarge, Phases, Statuses
  <2>2. GateHeld'
    BY <1>21 DEF TooLarge, GateHeld, Tasks
  <2>3. FilesOwned'
    BY <1>21 DEF TooLarge, FilesOwned
  <2>4. \A q \in Requests : Counted(q)'
    BY <1>21 DEF TooLarge, Counted, Unstarted, Downloads, Uploads
  <2>5. \A q \in Requests : Whole(q)'
    BY <1>21 DEF TooLarge, Whole
  <2>6. \A q \in Requests : Answered(q)'
    BY <1>21 DEF TooLarge, Answered, Uploads
  <2>7. SlotsHeld'
    BY <1>21, SlotTaken, SlotFreed, SlotsKept DEF TooLarge
  <2> QED BY <2>1, <2>2, <2>3, <2>4, <2>5, <2>6, <2>7 DEF IInv
<1>22. ASSUME NEW r \in Requests, NEW with \in {"400", "408", "500"}, UploadFails(r, with)
       PROVE  IInv'
  <2>1. Types'
    BY <1>22 DEF UploadFails, Phases, Statuses
  <2>2. GateHeld'
    BY <1>22 DEF UploadFails, GateHeld, Tasks
  <2>3. FilesOwned'
    BY <1>22 DEF UploadFails, FilesOwned
  <2>4. \A q \in Requests : Counted(q)'
    BY <1>22 DEF UploadFails, Counted, Unstarted, Downloads, Uploads
  <2>5. \A q \in Requests : Whole(q)'
    BY <1>22 DEF UploadFails, Whole
  <2>6. \A q \in Requests : Answered(q)'
    BY <1>22 DEF UploadFails, Answered, Uploads
  <2>7. SlotsHeld'
    BY <1>22, SlotTaken, SlotFreed, SlotsKept DEF UploadFails
  <2> QED BY <2>1, <2>2, <2>3, <2>4, <2>5, <2>6, <2>7 DEF IInv
<1>23. ASSUME NEW r \in Requests, UploadEnds(r) PROVE IInv'
  <2>1. Types'
    BY <1>23 DEF UploadEnds, Phases, Uploads
  <2>2. GateHeld'
    BY <1>23 DEF UploadEnds, GateHeld, Tasks
  <2>3. FilesOwned'
    BY <1>23 DEF UploadEnds, FilesOwned, Staged
  <2>4. \A q \in Requests : Counted(q)'
    BY <1>23 DEF UploadEnds, Counted, Unstarted, Downloads, Uploads
  <2>5. \A q \in Requests : Whole(q)'
    BY <1>23 DEF UploadEnds, Whole
  <2>6. \A q \in Requests : Answered(q)'
    BY <1>23 DEF UploadEnds, Answered, Uploads
  <2>7. SlotsHeld'
    BY <1>23, SlotTaken, SlotFreed, SlotsKept DEF UploadEnds
  <2> QED BY <2>1, <2>2, <2>3, <2>4, <2>5, <2>6, <2>7 DEF IInv
<1>24. ASSUME NEW r \in Requests, ImportStarts(r) PROVE IInv'
  <2>1. Types'
    BY <1>24 DEF ImportStarts, Phases, Uploads
  <2>2. GateHeld'
    BY <1>24 DEF ImportStarts, GateHeld, Tasks
  <2>3. FilesOwned'
    BY <1>24 DEF ImportStarts, FilesOwned, Staged
  <2>4. \A q \in Requests : Counted(q)'
    BY <1>24 DEF ImportStarts, Counted, Unstarted, Downloads, Uploads
  <2>5. \A q \in Requests : Whole(q)'
    BY <1>24 DEF ImportStarts, Whole
  <2>6. \A q \in Requests : Answered(q)'
    BY <1>24 DEF ImportStarts, Answered, Uploads
  <2>7. SlotsHeld'
    BY <1>24, SlotTaken, SlotFreed, SlotsKept DEF ImportStarts
  <2> QED BY <2>1, <2>2, <2>3, <2>4, <2>5, <2>6, <2>7 DEF IInv
<1>25. ASSUME NEW r \in Requests, ImportEnds(r) PROVE IInv'
  <2>1. Types'
    BY <1>25 DEF ImportEnds, Phases, Statuses
  <2>2. GateHeld'
    BY <1>25 DEF ImportEnds, GateHeld, Tasks
  <2>3. FilesOwned'
    BY <1>25 DEF ImportEnds, FilesOwned
  <2>4. \A q \in Requests : Counted(q)'
    BY <1>25 DEF ImportEnds, Counted, Unstarted, Downloads, Uploads
  <2>5. \A q \in Requests : Whole(q)'
    BY <1>25 DEF ImportEnds, Whole
  <2>6. \A q \in Requests : Answered(q)'
    BY <1>25 DEF ImportEnds, Answered, Uploads, Counted
  <2>7. SlotsHeld'
    BY <1>25, SlotTaken, SlotFreed, SlotsKept DEF ImportEnds
  <2> QED BY <2>1, <2>2, <2>3, <2>4, <2>5, <2>6, <2>7 DEF IInv
<1>26. ASSUME NEW r \in Requests, ImportFails(r) PROVE IInv'
  <2>1. Types'
    BY <1>26 DEF ImportFails, Phases, Statuses
  <2>2. GateHeld'
    BY <1>26 DEF ImportFails, GateHeld, Tasks
  <2>3. FilesOwned'
    BY <1>26 DEF ImportFails, FilesOwned
  <2>4. \A q \in Requests : Counted(q)'
    BY <1>26 DEF ImportFails, Counted, Unstarted, Downloads, Uploads
  <2>5. \A q \in Requests : Whole(q)'
    BY <1>26 DEF ImportFails, Whole
  <2>6. \A q \in Requests : Answered(q)'
    BY <1>26 DEF ImportFails, Answered, Uploads
  <2>7. SlotsHeld'
    BY <1>26, SlotTaken, SlotFreed, SlotsKept DEF ImportFails
  <2> QED BY <2>1, <2>2, <2>3, <2>4, <2>5, <2>6, <2>7 DEF IInv
<1>27. ASSUME NEW r \in Requests, Reads(r) PROVE IInv'
  <2>1. Types'
    BY <1>27 DEF Reads
  <2>2. GateHeld'
    BY <1>27 DEF Reads, GateHeld
  <2>3. FilesOwned'
    BY <1>27 DEF Reads, FilesOwned
  <2>4. \A q \in Requests : Counted(q)'
    BY <1>27 DEF Reads, Counted, NoBody, Downloads
  <2>5. \A q \in Requests : Whole(q)'
    BY <1>27 DEF Reads, Whole
  <2>6. \A q \in Requests : Answered(q)'
    BY <1>27 DEF Reads, Answered
  <2>7. SlotsHeld'
    BY <1>27, SlotTaken, SlotFreed, SlotsKept DEF Reads
  <2> QED BY <2>1, <2>2, <2>3, <2>4, <2>5, <2>6, <2>7 DEF IInv
<1>28. ASSUME NEW r \in Requests, Reaches(r) PROVE IInv'
  <2>1. Types'
    BY <1>28 DEF Reaches, Phases, Downloads
  <2>2. GateHeld'
    BY <1>28 DEF Reaches, GateHeld, Tasks
  <2>3. FilesOwned'
    BY <1>28 DEF Reaches, FilesOwned, Staged
  <2>4. \A q \in Requests : Counted(q)'
    BY <1>28 DEF Reaches, Counted, Unstarted, Downloads, Uploads
  <2>5. \A q \in Requests : Whole(q)'
    BY <1>28 DEF Reaches, Whole
  <2>6. \A q \in Requests : Answered(q)'
    BY <1>28 DEF Reaches, Answered, Uploads
  <2>7. SlotsHeld'
    BY <1>28, SlotTaken, SlotFreed, SlotsKept DEF Reaches
  <2> QED BY <2>1, <2>2, <2>3, <2>4, <2>5, <2>6, <2>7 DEF IInv
<1>29. ASSUME NEW r \in Requests, Leaves(r) PROVE IInv'
  <2>1. Types'
    BY <1>29 DEF Leaves, Phases
  <2>2. GateHeld'
    BY <1>29 DEF Leaves, GateHeld, Tasks
  <2>3. FilesOwned'
    BY <1>29 DEF Leaves, FilesOwned
  <2>4. \A q \in Requests : Counted(q)'
    BY <1>29 DEF Leaves, Counted, Unstarted, Downloads, Uploads
  <2>5. \A q \in Requests : Whole(q)'
    BY <1>29 DEF Leaves, Whole
  <2>6. \A q \in Requests : Answered(q)'
    BY <1>29 DEF Leaves, Answered, Uploads
  <2>7. SlotsHeld'
    BY <1>29, SlotTaken, SlotFreed, SlotsKept DEF Leaves
  <2> QED BY <2>1, <2>2, <2>3, <2>4, <2>5, <2>6, <2>7 DEF IInv
<1>30. ASSUME NEW r \in Requests, StopsReading(r) PROVE IInv'
  <2>1. Types'
    BY <1>30 DEF StopsReading, Phases, Downloads
  <2>2. GateHeld'
    BY <1>30 DEF StopsReading, GateHeld, Tasks
  <2>3. FilesOwned'
    BY <1>30 DEF StopsReading, FilesOwned, Staged
  <2>4. \A q \in Requests : Counted(q)'
    BY <1>30 DEF StopsReading, Counted, Unstarted, Downloads, Uploads
  <2>5. \A q \in Requests : Whole(q)'
    BY <1>30 DEF StopsReading, Whole
  <2>6. \A q \in Requests : Answered(q)'
    <3>1. pc[r] \in Downloads /\ body[r] = NoBody /\ db # r
      BY <1>30 DEF StopsReading, Counted, Answered, Downloads
    <3> QED
      BY <1>30, <3>1 DEF StopsReading, Answered, Uploads
  <2>7. SlotsHeld'
    BY <1>30, SlotTaken, SlotFreed, SlotsKept DEF StopsReading
  <2> QED BY <2>1, <2>2, <2>3, <2>4, <2>5, <2>6, <2>7 DEF IInv
<1>31. ASSUME NEW r \in Requests, StreamSendsError(r) PROVE IInv'
  <2>1. Types'
    BY <1>31 DEF StreamSendsError, Phases, Downloads
  <2>2. GateHeld'
    BY <1>31 DEF StreamSendsError, GateHeld, Tasks
  <2>3. FilesOwned'
    BY <1>31 DEF StreamSendsError, FilesOwned, Staged
  <2>4. \A q \in Requests : Counted(q)'
    BY <1>31 DEF StreamSendsError, Counted, Unstarted, Downloads, Uploads
  <2>5. \A q \in Requests : Whole(q)'
    BY <1>31 DEF StreamSendsError, Whole
  <2>6. \A q \in Requests : Answered(q)'
    BY <1>31 DEF StreamSendsError, Answered, Uploads
  <2>7. SlotsHeld'
    BY <1>31, SlotTaken, SlotFreed, SlotsKept DEF StreamSendsError
  <2> QED BY <2>1, <2>2, <2>3, <2>4, <2>5, <2>6, <2>7 DEF IInv
<1> HIDE DEF Nobody, Goes, Answers, FreesSlot, DropsFile, TakesGate, LeavesGate, GateFree,
             Ends, Moved, Admitted, Room, SenderEnds, Complete, Uploading, Types
<1> QED
  BY Zenon, <1>1, <1>2, <1>3, <1>4, <1>5, <1>6, <1>7, <1>8, <1>9, <1>10, <1>11, <1>12, <1>13,
      <1>14, <1>15, <1>16, <1>17, <1>18, <1>19, <1>20, <1>21, <1>22,
     <1>23, <1>24, <1>25, <1>26, <1>27, <1>28, <1>29, <1>30, <1>31
  DEF Next, Serves

\* So does a step that changes nothing.
LEMMA Stutters == ASSUME IInv, UNCHANGED vars PROVE IInv'
BY DEF IInv, vars, Types, SlotsHeld, GateHeld, FilesOwned, Counted, Whole, Answered

\* The invariant holds in every reachable state.
LEMMA Invariant == Spec => []IInv
<1>1. IInv /\ [Next]_vars => IInv'
  BY IInvStep, Stutters
<1> QED BY InitInv, <1>1, PTL DEF Spec

-----------------------------------------------------------------------------
(* The theorems.                                                           *)

\* One task at a time holds the gate and is in one, slots are never
\* oversubscribed however requests end, and no channel holds more than its
\* bound, for any number of requests and slots.
THEOREM TypeCorrect == Spec => []TypeOK
<1>1. IInv => TypeOK
  <2> SUFFICES ASSUME IInv PROVE TypeOK
    OBVIOUS
  <2>1. /\ gate \in Requests \cup {Nobody} /\ db \in Requests \cup {Nobody}
        /\ Cardinality(slots) <= Slots /\ handler \subseteq Requests
        /\ \A r \in Requests : gate = r <=> pc[r] \in Tasks
    BY DEF IInv, Types, SlotsHeld, GateHeld
  <2>2. ASSUME NEW r \in Requests, body[r] = NoBody
        PROVE  sent[r] - got[r] \in 0 .. InFlight
    BY <2>2, SlotsAssumption DEF IInv, Types, Counted
  <2> QED BY <2>1, <2>2 DEF TypeOK
<1> QED BY Invariant, <1>1, PTL

\* A download its client takes for complete is the whole graph, and the graph
\* is replaced only by an upload that arrived whole, is valid and was not
\* answered with an error.
THEOREM TransfersAreWholeTheorem == Spec => []TransfersAreWhole
<1>1. IInv => TransfersAreWhole
  BY DEF IInv, TransfersAreWhole, Whole, Answered
<1> QED BY Invariant, <1>1, PTL

\* No request that is over leaves its staging file behind.
THEOREM NoStagingLeftTheorem == Spec => []NoStagingLeft
<1>1. IInv => NoStagingLeft
  BY DEF IInv, NoStagingLeft, FilesOwned, Staged, Over
<1> QED BY Invariant, <1>1, PTL
=============================================================================

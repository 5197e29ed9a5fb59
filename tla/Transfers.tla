------------------------------ MODULE Transfers -----------------------------
(***************************************************************************)
(* GET, PUT and the statements of the HTTP server over one database        *)
(* (zega-server/src/handlers.rs).  Engine work is done by tasks of the     *)
(* blocking pool, one at a time: each takes the gate first.  A .graph      *)
(* transfer needs one of a few slots, and on a disk database a staging     *)
(* file.  A download is exported to its file under the gate and then sent  *)
(* in chunks through a short channel; an upload is spooled to its file and *)
(* then imported under the gate.  In memory there are no files: a download *)
(* streams under the gate, an upload is collected.                         *)
(*                                                                         *)
(* A client may stall at any point, for ever, or go away.  A request whose *)
(* client goes away is dropped: the handler's slot and the file it owns    *)
(* go, while a task it started runs on.                                    *)
(***************************************************************************)
EXTENDS Naturals, FiniteSets

CONSTANTS
  Requests,    \* the requests, each served once
  Slots,       \* AppState.transfers
  Length,      \* chunks in an exported file
  InFlight,    \* CHUNKS_IN_FLIGHT
  MaxImport,   \* AppState.max_import_bytes, in chunks
  Bodies       \* the uploads: [chunks, declared: Content-Length is given, valid]

ASSUME SlotsAssumption == Slots \in Nat \ {0} /\ InFlight \in Nat \ {0}
ASSUME BodiesAssumption ==
  Bodies \subseteq [chunks : Nat, declared : BOOLEAN, valid : BOOLEAN]
ASSUME LengthsAssumption == Length \in Nat /\ MaxImport \in Nat

VARIABLES
  disk,     \* whether the database is on disk
  db,       \* the graph: the request that last replaced or changed it
  gate,     \* the request whose task holds the gate, or Nobody
  pc,       \* where each request is
  handler,  \* the requests whose handler has not returned or been dropped
  slots,    \* the requests that hold a transfer slot
  files,    \* the requests whose staging file exists
  body,     \* each upload's body
  sent,     \* chunks put into the channel, or received from the client
  got,      \* chunks the client of a download has read
  failed,   \* the downloads that end in an error item
  answer    \* each request's answer: a status, or "none"

vars == <<disk, db, gate, pc, handler, slots, files, body, sent, got, failed, answer>>

Nobody  == 0
NoBody  == [chunks |-> 0, declared |-> TRUE, valid |-> FALSE]
Tasks   == {"exporting", "creating", "installing", "running", "streaming"}
GateFree == gate = Nobody

ASSUME RequestsAssumption == Nobody \notin Requests

-----------------------------------------------------------------------------
(* How requests move.                                                      *)

Goes(r, to)       == pc' = [pc EXCEPT ![r] = to]
Answers(r, with)  == answer' = [answer EXCEPT ![r] = IF r \in handler THEN with ELSE @]
FreesSlot(r)      == slots' = slots \ {r}
\* Staged::drop.
DropsFile(r)      == files' = files \ {r}
TakesGate(r, to)  == pc[r] = to[1] /\ GateFree /\ gate' = r /\ Goes(r, to[2])
LeavesGate        == gate' = Nobody

\* The handler returns: what it owns goes.
Ends(r, with) ==
  /\ Goes(r, "done") /\ Answers(r, with)
  /\ handler' = handler \ {r} /\ FreesSlot(r) /\ DropsFile(r)

Moved == <<disk, body, sent, got, failed>>

-----------------------------------------------------------------------------
(* Requests arrive.                                                        *)

Init ==
  /\ disk \in BOOLEAN
  /\ db = Nobody /\ gate = Nobody
  /\ pc = [r \in Requests |-> "new"] /\ answer = [r \in Requests |-> "none"]
  /\ handler = {} /\ slots = {} /\ files = {} /\ failed = {}
  /\ body = [r \in Requests |-> NoBody]
  /\ sent = [r \in Requests |-> 0] /\ got = [r \in Requests |-> 0]

\* try_acquire_owned: with no slot free the request is refused at once.
Admitted(r, to) ==
  IF Cardinality(slots) < Slots
  THEN /\ slots' = slots \cup {r} /\ handler' = handler \cup {r} /\ Goes(r, to)
       /\ UNCHANGED answer
  ELSE /\ Goes(r, "done") /\ answer' = [answer EXCEPT ![r] = "503"]
       /\ UNCHANGED <<slots, handler>>

Get(r) ==
  /\ pc[r] = "new"
  /\ Admitted(r, "spool")
  /\ UNCHANGED <<Moved, db, gate, files>>

\* A declared length over the limit is refused before a slot is taken.
Put(r, upload) ==
  /\ pc[r] = "new"
  /\ body' = [body EXCEPT ![r] = upload]
  /\ IF upload.declared /\ upload.chunks > MaxImport
     THEN /\ Goes(r, "done") /\ answer' = [answer EXCEPT ![r] = "413"]
          /\ UNCHANGED <<slots, handler>>
     ELSE Admitted(r, "stage")
  /\ UNCHANGED <<disk, sent, got, failed, db, gate, files>>

Query(r) ==
  /\ pc[r] = "new" /\ Goes(r, "query")
  /\ handler' = handler \cup {r}
  /\ UNCHANGED <<Moved, db, gate, slots, files, answer>>

\* execute: a statement, which may change the graph.
QueryStarts(r) ==
  /\ TakesGate(r, <<"query", "running">>)
  /\ UNCHANGED <<Moved, db, handler, slots, files, answer>>
QueryEnds(r) ==
  /\ pc[r] = "running" /\ LeavesGate /\ Ends(r, "200")
  /\ db' \in {db, r}
  /\ UNCHANGED Moved

-----------------------------------------------------------------------------
(* A download.                                                             *)

ExportStarts(r) ==
  /\ disk /\ TakesGate(r, <<"spool", "exporting">>)
  /\ files' = files \cup {r}
  /\ UNCHANGED <<Moved, db, handler, slots, answer>>

\* The staging file is made and read by the task: what it returns to a
\* handler that is gone is dropped.  The sender takes over slot and file.
ExportEnds(r) ==
  /\ pc[r] = "exporting" /\ LeavesGate
  /\ IF r \in handler
     THEN /\ Goes(r, "sending") /\ handler' = handler \ {r}
          /\ answer' = [answer EXCEPT ![r] = "200"]
          /\ UNCHANGED <<slots, files>>
     ELSE Ends(r, "none")
  /\ UNCHANGED <<disk, body, sent, got, failed, db>>

\* Creating, writing or flushing the file fails, or the lock is poisoned.
ExportFails(r) ==
  /\ pc[r] = "exporting" /\ LeavesGate /\ Ends(r, "500")
  /\ UNCHANGED <<Moved, db>>

\* Mutant: one chunk more than the channel holds.
RoomForOneMore(r) == sent[r] - got[r] <= InFlight
Room(r) == sent[r] - got[r] < InFlight

Sends(r) ==
  /\ pc[r] \in {"sending", "streaming"} /\ Room(r) /\ sent[r] < Length
  /\ sent' = [sent EXCEPT ![r] = @ + 1]
  /\ UNCHANGED <<disk, body, got, failed, db, gate, pc, handler, slots, files, answer>>

\* Mutant: only a sender that ends well deletes its file.
SenderEndsKeepingFile(r) ==
  /\ Goes(r, "sent") /\ FreesSlot(r)
  /\ IF pc[r] = "sending" THEN DropsFile(r) ELSE UNCHANGED files

\* Its own handler is gone: the sender drops its slot and its file.
SenderEnds(r) == Goes(r, "sent") /\ FreesSlot(r) /\ DropsFile(r)

SendsLast(r) ==
  /\ pc[r] = "sending" /\ sent[r] = Length /\ SenderEnds(r)
  /\ UNCHANGED <<Moved, db, gate, handler, answer>>

\* Mutant: the sender has no idle timeout.
SendFailsReading(r) ==
  /\ pc[r] = "sending" /\ sent[r] < Length /\ Room(r)
  /\ Goes(r, "failing")
  /\ UNCHANGED <<Moved, db, gate, handler, slots, files, answer>>

\* The file cannot be read, or the client read nothing for the idle timeout.
SendFails(r) ==
  /\ pc[r] = "sending" /\ sent[r] < Length
  /\ Goes(r, "failing")
  /\ UNCHANGED <<Moved, db, gate, handler, slots, files, answer>>

\* try_send: the error is an item of the body if there is room for it.
SendsError(r) ==
  /\ pc[r] = "failing" /\ SenderEnds(r)
  /\ failed' = IF Room(r) THEN failed \cup {r} ELSE failed
  /\ UNCHANGED <<disk, body, sent, got, db, gate, handler, answer>>

\* In memory the first task finds no staging directory, and the handler starts
\* a second one that streams under the gate; the slot goes with the handler.
FindsNoStaging(r) ==
  /\ ~disk /\ pc[r] = "spool" /\ GateFree
  /\ IF r \in handler THEN Goes(r, "stream") ELSE Goes(r, "done")
  /\ answer' = [answer EXCEPT ![r] = IF r \in handler THEN "200" ELSE @]
  /\ handler' = handler \ {r} /\ FreesSlot(r)
  /\ UNCHANGED <<Moved, db, gate, files>>
StreamStarts(r) ==
  /\ TakesGate(r, <<"stream", "streaming">>)
  /\ UNCHANGED <<disk, body, sent, got, failed, db, handler, slots, files, answer>>
StreamEnds(r) ==
  /\ pc[r] = "streaming" /\ sent[r] = Length /\ LeavesGate /\ Goes(r, "sent")
  /\ UNCHANGED <<Moved, db, handler, slots, files, answer>>

\* The export fails: the gate is dropped first, and the task then waits for
\* room to send the error, the last item of the body.
StreamFails(r) ==
  /\ pc[r] = "streaming" /\ LeavesGate /\ Goes(r, "breaking")
  /\ UNCHANGED <<Moved, db, handler, slots, files, answer>>
StreamSendsError(r) ==
  /\ pc[r] = "breaking" /\ Room(r) /\ Goes(r, "sent")
  /\ failed' = failed \cup {r}
  /\ UNCHANGED <<disk, body, sent, got, db, gate, handler, slots, files, answer>>

\* The client reads a chunk, or the end of the body.
Reads(r) ==
  /\ pc[r] \in {"sending", "failing", "streaming", "breaking", "sent"} /\ got[r] < sent[r]
  /\ got' = [got EXCEPT ![r] = @ + 1]
  /\ UNCHANGED <<disk, body, sent, failed, db, gate, pc, handler, slots, files, answer>>

\* Mutant: the body of a file is sent without its length.
CompleteWithoutLength(r) == r \notin failed

\* A body that ends in an error, or short of its Content-Length, is broken.
Complete(r) == r \notin failed /\ (disk => got[r] = Length)
Reaches(r) ==
  /\ pc[r] = "sent" /\ got[r] = sent[r]
  /\ Goes(r, IF Complete(r) THEN "read" ELSE "broken")
  /\ UNCHANGED <<Moved, db, gate, handler, slots, files, answer>>

-----------------------------------------------------------------------------
(* An upload.                                                              *)

StagingStarts(r) ==
  /\ TakesGate(r, <<"stage", "creating">>)
  /\ files' = IF disk THEN files \cup {r} ELSE files
  /\ UNCHANGED <<Moved, db, handler, slots, answer>>

\* The task returns the path; the handler, if there still is one, owns the
\* file.  If there is none, nobody does, and the next open deletes it.
StagingEnds(r) ==
  /\ pc[r] = "creating" /\ LeavesGate
  /\ Goes(r, IF r \in handler THEN "upload" ELSE "orphaned")
  /\ UNCHANGED <<Moved, db, handler, slots, files, answer>>

StagingFails(r) ==
  /\ pc[r] = "creating" /\ LeavesGate /\ Ends(r, "500")
  /\ UNCHANGED <<Moved, db>>

Uploading(r) == pc[r] = "upload" /\ UNCHANGED <<disk, db, gate, body, got, failed>>

Receives(r) ==
  /\ Uploading(r) /\ sent[r] < body[r].chunks /\ sent[r] < MaxImport
  /\ sent' = [sent EXCEPT ![r] = @ + 1]
  /\ UNCHANGED <<pc, handler, slots, files, answer>>
TooLarge(r) ==
  /\ Uploading(r) /\ sent[r] < body[r].chunks /\ sent[r] = MaxImport
  /\ Ends(r, "413") /\ UNCHANGED sent

\* Nothing came for the idle timeout, the body broke off, or a write failed.
UploadFails(r, with) == Uploading(r) /\ Ends(r, with) /\ UNCHANGED sent

UploadEnds(r) ==
  /\ Uploading(r) /\ sent[r] = body[r].chunks
  /\ Goes(r, "import")
  /\ UNCHANGED <<sent, handler, slots, files, answer>>

ImportStarts(r) ==
  /\ TakesGate(r, <<"import", "installing">>)
  /\ UNCHANGED <<Moved, db, handler, slots, files, answer>>

\* import_staged renames the file of a valid graph into place; a file that is
\* refused is dropped with the task.
ImportEnds(r) ==
  /\ pc[r] = "installing" /\ body[r].valid /\ LeavesGate
  /\ db' = r /\ Ends(r, "200")
  /\ UNCHANGED Moved
ImportFails(r) ==
  /\ pc[r] = "installing" /\ LeavesGate /\ Ends(r, "400")
  /\ UNCHANGED <<Moved, db>>

-----------------------------------------------------------------------------
(* The client of a request goes away.  A handler that owns the file of an  *)
(* upload drops it; a channel without a reader ends its sender.            *)

Leaves(r) ==
  /\ r \in handler
  /\ handler' = handler \ {r} /\ FreesSlot(r)
  /\ IF pc[r] = "upload" THEN Goes(r, "done") /\ DropsFile(r) ELSE UNCHANGED <<pc, files>>
  /\ UNCHANGED <<Moved, db, gate, answer>>

StopsReading(r) ==
  \/ /\ pc[r] \in {"sending", "failing"} /\ Goes(r, "broken") /\ FreesSlot(r) /\ DropsFile(r)
     /\ UNCHANGED <<Moved, db, gate, handler, answer>>
  \/ /\ pc[r] = "streaming" /\ LeavesGate /\ Goes(r, "broken")
     /\ UNCHANGED <<Moved, db, handler, slots, files, answer>>
  \/ /\ pc[r] = "breaking" /\ Goes(r, "broken")
     /\ UNCHANGED <<Moved, db, gate, handler, slots, files, answer>>

\* What the server does without the client's help.
Serves(r) ==
  \/ QueryStarts(r) \/ QueryEnds(r)
  \/ ExportStarts(r) \/ ExportEnds(r) \/ ExportFails(r)
  \/ Sends(r) \/ SendsLast(r) \/ SendFails(r) \/ SendsError(r)
  \/ FindsNoStaging(r) \/ StreamStarts(r) \/ StreamEnds(r)
  \/ StreamFails(r) \/ StreamSendsError(r)
  \/ StagingStarts(r) \/ StagingEnds(r) \/ StagingFails(r)
  \/ TooLarge(r) \/ UploadFails(r, "408") \/ UploadEnds(r)
  \/ ImportStarts(r) \/ ImportEnds(r) \/ ImportFails(r)

Next ==
  \E r \in Requests :
    \/ Get(r) \/ Query(r) \/ \E upload \in Bodies : Put(r, upload)
    \/ Serves(r)
    \/ Receives(r) \/ UploadFails(r, "400") \/ UploadFails(r, "500")
    \/ Reads(r) \/ Reaches(r)
    \/ Leaves(r) \/ StopsReading(r)

Spec == Init /\ [][Next]_vars

\* The runtime runs every task, and its timers fire: what the server does
\* for a request without its client's help is done.
FairSpec == Spec /\ \A r \in Requests : WF_vars(Serves(r))

-----------------------------------------------------------------------------
(* Properties.                                                             *)

\* One task at a time holds the gate, slots are never oversubscribed, and the
\* channel of a download never holds more than its bound.
TypeOK ==
  /\ gate \in Requests \cup {Nobody} /\ db \in Requests \cup {Nobody}
  /\ Cardinality(slots) <= Slots /\ handler \subseteq Requests
  /\ \A r \in Requests : gate = r <=> pc[r] \in Tasks
  /\ \A r \in Requests : body[r] = NoBody => sent[r] - got[r] \in 0 .. InFlight

\* A download its client takes for complete holds the whole graph, whatever
\* failed or stalled on the way (handlers.rs:522-523: "failing the body is how
\* the client learns the file is incomplete").  "Nothing changes unless all of
\* it is a valid file" (handlers.rs:602): an upload is the graph only if all of
\* its body arrived and is valid, and none that was answered with an error is.
TransfersAreWhole ==
  \A r \in Requests :
    /\ pc[r] = "read" => got[r] = Length
    /\ db = r /\ body[r] # NoBody =>
         sent[r] = body[r].chunks /\ body[r].valid /\ answer[r] \in {"200", "none"}

\* "Deletes a staging file when the transfer that owns it ends, however it
\* ends" (handlers.rs:395): no file is left behind, but for the upload whose
\* client went away while its file was being made, which nobody owns.
Over == {"done", "sent", "read", "broken"}
NoStagingLeft == \A r \in files : pc[r] \notin Over

\* On disk no client, however slow, keeps a slot, a file, the gate or another
\* client's request for ever (README.md of the repository: "a slow client
\* never blocks anyone else", zega-server/src/lib.rs:33).
EveryTransferEnds ==
  disk => <>[](/\ slots = {} /\ gate = Nobody /\ handler = {}
               /\ \A r \in files : pc[r] = "orphaned")
=============================================================================

------------------------------- MODULE Linked -------------------------------
(***************************************************************************)
(* Linked graphs: a source graph, one subscriber that mirrors some of its  *)
(* nodes, the network between them and the mailbox (zega/src/linked.rs,    *)
(* zega-server/src/sync.rs).  The source numbers every commit and every    *)
(* change of a node; a worker pushes coalesced windows of changes, each    *)
(* once, with the mailbox as its only fallback.  The subscriber applies    *)
(* what it can, fetches whole nodes where it cannot, and repairs itself by *)
(* comparing versions when it wakes.                                       *)
(*                                                                         *)
(* A field's value is the version of the node that wrote it, 0 a field     *)
(* that is not there.  A compound field stands for every change a plain    *)
(* diff cannot carry: lists, maps, and relationships to nodes the          *)
(* subscriber does not know.                                               *)
(***************************************************************************)
EXTENDS Naturals, Sequences, FiniteSets

CONSTANTS
  Nodes,        \* the stable external ids of the source
  Fields,       \* the fields a node may have
  Compound,     \* the fields whose change needs a whole snapshot
  Handlers,     \* requests the subscriber serves at once: pushes and links
  Wakers,       \* wakes that run at once: the daily one, POST /sync/repair
  Daily,        \* the daily one
  MaxCommits,   \* bound: commits of the source
  MaxWrites,    \* bound: fields a commit writes to one node
  Reloads,      \* whether a reload may bring a deleted id back
  None          \* no value

ASSUME LinkedAssumption ==
  /\ Compound \subseteq Fields
  /\ MaxCommits \in Nat
  /\ MaxWrites \in Nat
  /\ Reloads \in BOOLEAN
  /\ Handlers \cap Wakers = {}
  /\ Daily \in Wakers

VARIABLES
  past,         \* the states of each node, by version (a history variable)
  history,      \* the source's records, by graph version
  leased,       \* the nodes the subscriber has a lease on
  cursor,       \* the worker's cursor into history
  batch,        \* the window the worker is coalescing, or None
  delivering,   \* the deliveries that wait for the answer to their push
  inflight,     \* the pushes the network holds
  mailbox,      \* the diffs the mailbox holds
  mirror,       \* the subscriber's mirrors, None where there is none
  ready,        \* whether the subscriber accepts pushes
  token,        \* whether it holds the source's token
  task          \* where each handler and each wake is

source == <<past, history, leased>>
worker == <<cursor, batch>>
network == <<delivering, inflight, mailbox>>
subscriber == <<mirror, ready, token, task>>
vars == <<source, worker, network, subscriber>>

-----------------------------------------------------------------------------
(* Data *)

Tasks == Handlers \cup Wakers
Version == 0 .. MaxCommits
Content == [Fields -> Version]
Blank == [f \in Fields |-> 0]

(* The fields of g over those of f.                                         *)
Over(f, g) ==
  [x \in DOMAIN f \cup DOMAIN g |-> IF x \in DOMAIN g THEN g[x] ELSE f[x]]

Partial(S, T) == UNION {[D -> T] : D \in SUBSET S}

Change ==
  [version : Version \ {0}, kind : {"upsert", "delete"},
   fields : Partial(Fields, Version \ {0})]

Diff == [version : Version \ {0}, changes : Partial(Nodes, Change)]

Mirror == [version : Version \ {0}, gone : BOOLEAN, content : Content]

ASSUME NoneAssumption == None \notin Mirror

Snapshot == [node : Nodes, version : Version, gone : BOOLEAN, content : Content]

At == {"idle", "renew", "subscribe", "look", "fetch", "link", "apply",
       "delete", "check", "open", "list"}

Task ==
  [goal : {"none", "push", "link", "drain", "repair"}, at : At,
   diff : Diff \cup {None}, need : SUBSET Nodes,
   snapshot : Snapshot \cup {None}, page : SUBSET Diff]

Idle ==
  [goal |-> "none", at |-> "idle", diff |-> None, need |-> {},
   snapshot |-> None, page |-> {}]

TypeOK ==
  /\ past \in [Nodes -> Seq([gone : BOOLEAN, content : Content])]
  /\ history \in Seq(Partial(Nodes, Change))
  /\ leased \subseteq Nodes
  /\ cursor \in 0 .. Len(history)
  /\ batch \in Diff \cup {None}
  /\ delivering \subseteq Diff
  /\ inflight \subseteq Diff
  /\ mailbox \subseteq Diff
  /\ mirror \in [Nodes -> Mirror \cup {None}]
  /\ ready \in BOOLEAN
  /\ token \in BOOLEAN
  /\ task \in [Tasks -> Task]

Init ==
  /\ past = [n \in Nodes |-> <<>>]
  /\ history = <<>>
  /\ leased = {}
  /\ cursor = 0
  /\ batch = None
  /\ delivering = {}
  /\ inflight = {}
  /\ mailbox = {}
  /\ mirror = [n \in Nodes |-> None]
  /\ ready = FALSE
  /\ token = FALSE
  /\ task = [t \in Tasks |-> Idle]

-----------------------------------------------------------------------------
(* The source *)

VersionOf(n) == Len(past[n])

Live(n) == VersionOf(n) > 0 /\ ~past[n][VersionOf(n)].gone

ContentOf(n) == IF Live(n) THEN past[n][VersionOf(n)].content ELSE Blank

Upserts(n) ==
  {[version |-> VersionOf(n) + 1, kind |-> "upsert",
    fields |-> [f \in F |-> VersionOf(n) + 1]] :
     F \in {G \in SUBSET Fields : Cardinality(G) \in 1 .. MaxWrites}}

Delete(n) == [version |-> VersionOf(n) + 1, kind |-> "delete", fields |-> <<>>]

(* What one record may say of node n.  A statement cannot insert an id that *)
(* was there before; a reload can, and sends the fields of the new node.    *)
Changes(n) ==
  IF Live(n) THEN Upserts(n) \cup {Delete(n)}
  ELSE IF VersionOf(n) = 0 \/ Reloads THEN Upserts(n)
  ELSE {}

After(n, change) ==
  IF change.kind = "delete" THEN [gone |-> TRUE, content |-> Blank]
  ELSE [gone |-> FALSE, content |-> Over(ContentOf(n), change.fields)]

(* A statement or a reload commits: one record, one more version of each    *)
(* node it changes.                                                         *)
Commit ==
  /\ Len(history) < MaxCommits
  /\ \E S \in SUBSET Nodes \ {{}} :
       /\ \A n \in S : Changes(n) # {}
       /\ \E record \in [S -> UNION {Changes(n) : n \in S}] :
            /\ \A n \in S : record[n] \in Changes(n)
            /\ history' = Append(history, record)
            /\ past' = [n \in Nodes |->
                 IF n \in S THEN Append(past[n], After(n, record[n]))
                 ELSE past[n]]
  /\ UNCHANGED <<leased, worker, network, subscriber>>

MergeChange(older, newer) ==
  IF older.kind = "upsert" /\ newer.kind = "upsert"
  THEN [newer EXCEPT !.fields = Over(older.fields, newer.fields)]
  ELSE newer

(* Two windows as one: the last version of each node, with every field that *)
(* changed since the first.                                                 *)
Coalesce(older, newer) ==
  [version |-> newer.version,
   changes |->
     [n \in DOMAIN older.changes \cup DOMAIN newer.changes |->
        IF n \notin DOMAIN newer.changes THEN older.changes[n]
        ELSE IF n \notin DOMAIN older.changes THEN newer.changes[n]
        ELSE MergeChange(older.changes[n], newer.changes[n])]]

(* The worker takes the next record and keeps of it what the subscriber has *)
(* a lease on.                                                              *)
WorkerReads ==
  /\ cursor < Len(history)
  /\ cursor' = cursor + 1
  /\ LET record == history[cursor + 1]
         mine == leased \cap DOMAIN record
         scoped == [version |-> cursor + 1, changes |-> [n \in mine |-> record[n]]]
     IN batch' = IF mine = {} THEN batch
                 ELSE IF batch = None THEN scoped
                 ELSE Coalesce(batch, scoped)
  /\ UNCHANGED <<source, network, subscriber>>

(* The window is over: a delivery of its own pushes it.  A push that is     *)
(* lost, or refused with 503 or 401, stays in inflight for good: nobody     *)
(* acts on it but the delivery, by falling back.                            *)
Deliver ==
  /\ batch # None
  /\ batch' = None
  /\ delivering' = delivering \cup {batch}
  /\ inflight' = inflight \cup {batch}
  /\ UNCHANGED <<source, cursor, mailbox, subscriber>>

(* A delivery without a good answer in time puts the diff into the mailbox, *)
(* once; if that fails too, nobody hears of it.  The push may still arrive. *)
FallBack(diff) ==
  /\ diff \in delivering
  /\ delivering' = delivering \ {diff}
  /\ mailbox' \in {mailbox, mailbox \cup {diff}}
  /\ UNCHANGED <<source, worker, inflight, subscriber>>

(* The source stops and starts: deliveries and the window die with it, and  *)
(* the worker begins at the last graph version.                             *)
SourceRestarts ==
  /\ cursor' = Len(history)
  /\ batch' = None
  /\ delivering' = {}
  /\ UNCHANGED <<source, inflight, mailbox, subscriber>>

-----------------------------------------------------------------------------
(* The subscriber *)

Mirrored == {n \in Nodes : mirror[n] # None}

(* Later than the mirror, so that apply_diff will look at it.               *)
Later(n, change) == n \in Mirrored /\ change.version > mirror[n].version

(* apply_diff refuses a diff that skips a version of a mirror.              *)
Gap(n, change) == change.version > mirror[n].version + 1

NeedsSnapshot(n, change) ==
  /\ Later(n, change)
  /\ \/ Gap(n, change)
     \/ change.kind = "upsert" /\ DOMAIN change.fields \cap Compound # {}

Refused(diff) ==
  \E n \in DOMAIN diff.changes : Later(n, diff.changes[n]) /\ Gap(n, diff.changes[n])

(* A bug: an upsert would replace the fields instead of merging them.       *)
Updated_Replaces(m, change) ==
  IF change.kind = "delete"
  THEN [m EXCEPT !.version = change.version, !.gone = TRUE]
  ELSE [version |-> change.version, gone |-> FALSE,
        content |-> Over(Blank, change.fields)]

Updated(m, change) ==
  IF change.kind = "delete"
  THEN [m EXCEPT !.version = change.version, !.gone = TRUE]
  ELSE [version |-> change.version, gone |-> FALSE,
        content |-> Over(m.content, change.fields)]

(* A bug: the loop over the changes would end with the first it applies.    *)
ApplyDiff_FirstOnly(diff) ==
  LET later == {n \in DOMAIN diff.changes : Later(n, diff.changes[n])}
  IN [n \in Nodes |->
        IF later # {} /\ n = (CHOOSE m \in later : TRUE)
        THEN Updated(mirror[n], diff.changes[n])
        ELSE mirror[n]]

ApplyDiff(diff) ==
  [n \in Nodes |->
     IF n \in DOMAIN diff.changes /\ Later(n, diff.changes[n])
     THEN Updated(mirror[n], diff.changes[n])
     ELSE mirror[n]]

(* A bug: an answer that was overtaken would still be installed.            *)
KeepsMirror_Never(s) == FALSE

(* A snapshot no newer than the mirror is ignored.                          *)
KeepsMirror(s) == s.node \in Mirrored /\ mirror[s.node].version >= s.version

(* A snapshot of a node that is gone leaves the fields the mirror has.      *)
Linked(s) ==
  [version |-> s.version, gone |-> s.gone,
   content |-> IF ~s.gone THEN s.content
               ELSE IF s.node \in Mirrored THEN mirror[s.node].content
               ELSE Blank]

Oldest(page) == CHOOSE d \in page : \A e \in page : d.version <= e.version

(* A wake goes on with the oldest item of its page, or with the check.      *)
Drains(page) ==
  IF page = {} THEN [Idle EXCEPT !.goal = "repair", !.at = "check"]
  ELSE [Idle EXCEPT !.goal = "drain", !.at = "look", !.diff = Oldest(page),
                    !.page = page]

(* Where a task goes with the fetches it still needs.                       *)
Onward(k) ==
  [k EXCEPT !.snapshot = None,
     !.at = IF k.need # {} THEN "fetch"
            ELSE CASE k.goal \in {"push", "drain"} -> "apply"
                   [] k.goal = "repair" -> "open"
                   [] k.goal = "link" -> "renew"]

(* A push passes the gate: the subscriber is ready and knows the token.     *)
Accept(t, diff) ==
  /\ task[t].at = "idle"
  /\ diff \in inflight
  /\ ready /\ token
  /\ inflight' = inflight \ {diff}
  /\ task' = [task EXCEPT ![t] =
                [Idle EXCEPT !.goal = "push", !.at = "look", !.diff = diff]]
  /\ UNCHANGED <<source, worker, delivering, mailbox, mirror, ready, token>>

(* POST /sync/link asks for one node.                                       *)
Link(t, n) ==
  /\ task[t].at = "idle"
  /\ VersionOf(n) > 0
  /\ task' = [task EXCEPT ![t] =
                [Idle EXCEPT !.goal = "link", !.at = "fetch", !.need = {n}]]
  /\ UNCHANGED <<source, worker, network, mirror, ready, token>>

(* A wake closes the gate and begins with the leases.                       *)
Wake(t) ==
  /\ task[t].at = "idle"
  /\ ready' = FALSE
  /\ task' = [task EXCEPT ![t] = [Idle EXCEPT !.goal = "drain", !.at = "renew"]]
  /\ UNCHANGED <<source, worker, network, mirror, token>>

(* renew reads the mirrors, and then asks the source for leases on them.    *)
Renew(t) ==
  /\ task[t].at = "renew"
  /\ task' = [task EXCEPT ![t].at = "subscribe", ![t].need = Mirrored]
  /\ UNCHANGED <<source, worker, network, mirror, ready, token>>

Subscribe(t) ==
  /\ task[t].at = "subscribe"
  /\ leased' = leased \cup task[t].need
  /\ token' = (token \/ task[t].need # {})
  /\ task' = [task EXCEPT ![t] =
       IF task[t].goal = "link" THEN Idle
       ELSE [Idle EXCEPT !.goal = "drain", !.at = "list"]]
  /\ UNCHANGED <<past, history, worker, network, mirror, ready>>

(* drain reads a page of the mailbox; without a token there is none.        *)
List(t) ==
  /\ task[t].at = "list"
  /\ task' = [task EXCEPT ![t] = Drains(IF token THEN mailbox ELSE {})]
  /\ UNCHANGED <<source, worker, network, mirror, ready, token>>

(* receive looks which changes need a fetch before the diff is applied.     *)
Look(t) ==
  /\ task[t].at = "look"
  /\ LET diff == task[t].diff
         need == {n \in DOMAIN diff.changes : NeedsSnapshot(n, diff.changes[n])}
     IN task' = [task EXCEPT ![t] = Onward([@ EXCEPT !.need = need])]
  /\ UNCHANGED <<source, worker, network, mirror, ready, token>>

(* The source answers a fetch with the node as it is now.                   *)
Fetch(t) ==
  /\ task[t].at = "fetch"
  /\ \E n \in task[t].need :
       task' = [task EXCEPT ![t].at = "link",
                  ![t].snapshot = [node |-> n, version |-> VersionOf(n),
                                   gone |-> ~Live(n), content |-> ContentOf(n)]]
  /\ UNCHANGED <<source, worker, network, mirror, ready, token>>

(* A bug: the first fetch would end the loop over the changes.              *)
Install_FirstOnly(t) ==
  /\ task[t].at = "link"
  /\ LET s == task[t].snapshot
     IN /\ mirror' = IF KeepsMirror(s) THEN mirror
                     ELSE [mirror EXCEPT ![s.node] = Linked(s)]
        /\ task' = [task EXCEPT ![t] = Onward([@ EXCEPT !.need = {}])]
  /\ UNCHANGED <<source, worker, network, ready, token>>

(* The answer reaches the subscriber and is installed.                      *)
Install(t) ==
  /\ task[t].at = "link"
  /\ LET s == task[t].snapshot
     IN /\ mirror' = IF KeepsMirror(s) THEN mirror
                     ELSE [mirror EXCEPT ![s.node] = Linked(s)]
        /\ task' = [task EXCEPT ![t] = Onward([@ EXCEPT !.need = task[t].need \ {s.node}])]
  /\ UNCHANGED <<source, worker, network, ready, token>>

(* apply_diff, all of the diff or none.  The answer to a push may come in   *)
(* time for its delivery, or not.                                           *)
Apply(t) ==
  /\ task[t].at = "apply"
  /\ LET diff == task[t].diff
         refused == Refused(diff)
         push == task[t].goal = "push"
     IN /\ mirror' = IF refused THEN mirror ELSE ApplyDiff(diff)
        /\ task' = [task EXCEPT ![t] =
             IF push \/ refused THEN Idle ELSE [@ EXCEPT !.at = "delete"]]
        /\ delivering' \in {delivering,
             IF push /\ ~refused THEN delivering \ {diff} ELSE delivering}
  /\ UNCHANGED <<source, worker, inflight, mailbox, ready, token>>

(* drain deletes the item it has applied.                                   *)
DeleteItem(t) ==
  /\ task[t].at = "delete"
  /\ mailbox' = mailbox \ {task[t].diff}
  /\ task' = [task EXCEPT ![t] = Drains(@.page \ {@.diff})]
  /\ UNCHANGED <<source, worker, delivering, inflight, mirror, ready, token>>

(* A bug: a mirror one version behind would pass for fresh.                 *)
Stale_GapsOnly == {n \in Mirrored : mirror[n].version + 1 < VersionOf(n)}

(* The mirrors whose version is not the source's.                           *)
Stale == {n \in Mirrored : mirror[n].version # VersionOf(n)}

(* repair_all sends the versions of its mirrors; sync_check names the stale.*)
Check(t) ==
  /\ task[t].at = "check"
  /\ task' = [task EXCEPT ![t] = Onward([@ EXCEPT !.need = Stale])]
  /\ UNCHANGED <<source, worker, network, mirror, ready, token>>

(* The wake is over and opens the gate.                                     *)
Open(t) ==
  /\ task[t].at = "open"
  /\ ready' = TRUE
  /\ task' = [task EXCEPT ![t] = Idle]
  /\ UNCHANGED <<source, worker, network, mirror, token>>

(* A request of the task fails: the handler answers an error, a wake ends   *)
(* with the gate closed.                                                    *)
Fail(t) ==
  /\ task[t].at \in {"subscribe", "list", "fetch", "link", "delete", "check"}
  /\ task' = [task EXCEPT ![t] = Idle]
  /\ UNCHANGED <<source, worker, network, mirror, ready, token>>

(* The subscriber stops and starts: mirrors are durable, tokens are not.    *)
SubscriberRestarts ==
  /\ ready' = FALSE
  /\ token' = FALSE
  /\ task' = [t \in Tasks |-> Idle]
  /\ UNCHANGED <<source, worker, network, mirror>>

-----------------------------------------------------------------------------
Step(t) ==
  \/ Renew(t)
  \/ Subscribe(t)
  \/ List(t)
  \/ Look(t)
  \/ Fetch(t)
  \/ Install(t)
  \/ Apply(t)
  \/ DeleteItem(t)
  \/ Check(t)
  \/ Open(t)

Next ==
  \/ Commit
  \/ WorkerReads
  \/ Deliver
  \/ \E diff \in delivering : FallBack(diff)
  \/ SourceRestarts
  \/ SubscriberRestarts
  \/ \E t \in Handlers, diff \in inflight : Accept(t, diff)
  \/ \E t \in Handlers, n \in Nodes : Link(t, n)
  \/ \E t \in Wakers : Wake(t)
  \/ \E t \in Tasks : Step(t)
  \/ \E t \in Tasks : Fail(t)

Spec == Init /\ [][Next]_vars

(* The daily wake comes again and again, and its requests are answered or   *)
(* fail.  Nothing is assumed of other wakes, of pushes, of deliveries or of *)
(* the other side.                                                          *)
Fairness == WF_vars(Wake(Daily) \/ Step(Daily))

FairSpec == Spec /\ Fairness
-----------------------------------------------------------------------------
(* Properties *)

(* A mirror that is gone says nothing of its fields.                        *)
Copy ==
  [n \in Nodes |->
     IF n \notin Mirrored THEN [version |-> 0, gone |-> TRUE, content |-> Blank]
     ELSE IF mirror[n].gone THEN [mirror[n] EXCEPT !.content = Blank]
     ELSE mirror[n]]

R == INSTANCE Replica WITH copy <- Copy

(* Whatever is lost, doubled, late or out of order, whichever fetches and   *)
(* diffs cross and whichever side restarts: a mirror only ever moves to a   *)
(* later state of its source, whole and under that state's version          *)
(* (receive, link, apply_diff, coalesce).                                   *)
ImplementsReplica == R!Spec

(* The state the mirror holds is the state the source had at its version.   *)
(* docs/linked-graphs.md:21 promises it across reloads, too (reconcile,     *)
(* apply_diff, link).                                                       *)
MirrorIsPast ==
  \A n \in Mirrored :
    LET s == past[n][mirror[n].version]
    IN mirror[n].gone = s.gone /\ (~s.gone => mirror[n].content = s.content)

(* What receive looked up before its fetches is still enough when it        *)
(* applies: a diff is never refused for a gap, so an item cannot block the  *)
(* mailbox behind it (receive, drain).                                      *)
ReceiveNeverRefuses ==
  \A t \in Tasks : task[t].at = "apply" => ~Refused(task[t].diff)

(* An item leaves the mailbox only when every mirror has reached the        *)
(* version it carries, though the delete answers for what was applied       *)
(* earlier and other tasks ran in between (drain).                          *)
MailboxKeepsUnapplied ==
  [][\A diff \in mailbox \ mailbox' : \A n \in DOMAIN diff.changes :
       n \in Mirrored /\ mirror[n].version >= diff.changes[n].version]_vars

(* If from some time on no daily wake is interrupted, then every mirror     *)
(* reaches the last version of its source and stays there, whatever pushes, *)
(* puts, windows and restarts were lost and whatever another wake does to   *)
(* the gate and the mailbox meanwhile: repair_all makes up for all of it.   *)
Interrupted(t) == task[t].at \notin {"idle", "open"} /\ task'[t].at = "idle"

Converges ==
  <>[][~Interrupted(Daily)]_vars
    => <>[](\A n \in Mirrored : mirror[n].version = VersionOf(n))

=============================================================================

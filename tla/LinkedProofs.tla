---------------------------- MODULE LinkedProofs ----------------------------
(***************************************************************************)
(* Proofs about Linked, first of the positions.  A diff may be lost, late  *)
(* or out of order, and a receive lets other tasks run between its look,   *)
(* its fetches and its apply.  What makes the apply safe is that nothing   *)
(* is ever taken back (Grows), so that what a task has looked up (Ahead)   *)
(* stays enough.  The invariant is Types and Positions; it holds with      *)
(* reloads, too.                                                           *)
(*                                                                         *)
(* Then of the contents, and the refinement of Replica.  A change carries  *)
(* the fields it wrote, so a mirror is right only if every change is sound *)
(* against the version before it (Sound), the history has every version in *)
(* a row (Chained), and a coalesced window ends where the worker has read  *)
(* to (BatchLast).  A reload that brings a deleted id back breaks this, so *)
(* the theorems assume there is none; the run linked_reload shows they     *)
(* need to.                                                                *)
(***************************************************************************)
EXTENDS Linked, WellFoundedInduction, TLAPS

\* The task applies a diff, from a push or from the mailbox.
Receiving(k) == k.goal \in {"push", "drain"}

\* Versions are counted by the history, which is bounded.
Counted == Len(history) <= MaxCommits /\ \A n \in Nodes : VersionOf(n) <= Len(history)

\* What a task has, by where it is.
Shaped(k) ==
  /\ k.at \in {"look", "apply"} => Receiving(k)
  /\ k.at = "check" => k.goal = "repair"
  /\ k.at \in {"fetch", "link"} => k.goal # "none"
  /\ k.at \in {"look", "fetch", "link", "apply"} /\ Receiving(k) => k.diff \in Diff
  /\ k.at = "delete" => k.diff \in Diff
  /\ k.at = "link" => k.snapshot \in Snapshot

\* The source and the worker that reads its history have their types.
SourceTypes ==
  /\ past \in [Nodes -> Seq([gone : BOOLEAN, content : Content])]
  /\ history \in Seq(Partial(Nodes, Change))
  /\ leased \subseteq Nodes
  /\ cursor \in 0 .. Len(history)
  /\ Counted

\* What is between the two sides are diffs.
DiffTypes ==
  /\ batch \in Diff \cup {None}
  /\ delivering \subseteq Diff /\ inflight \subseteq Diff /\ mailbox \subseteq Diff

\* Every task is one, and has what it needs where it is.
TaskTypes == task \in [Tasks -> Task] /\ \A t \in Tasks : Shaped(task[t])

\* The mirrors and the gate have their types.
MirrorTypes == mirror \in [Nodes -> Mirror \cup {None}] /\ ready \in BOOLEAN /\ token \in BOOLEAN

\* The type invariant, with what makes it inductive.
Types == SourceTypes /\ DiffTypes /\ TaskTypes /\ MirrorTypes

\* The nodes the source has, or has had.
Known == {n \in Nodes : VersionOf(n) > 0}

\* A diff tells of versions its nodes have, and of nodes the subscriber mirrors.
Placed(diff) ==
  \A n \in DOMAIN diff.changes : n \in leased /\ diff.changes[n].version <= VersionOf(n)

\* The mirrors that would miss a version before a diff.
Behind(diff) ==
  {n \in DOMAIN diff.changes : Later(n, diff.changes[n]) /\ Gap(n, diff.changes[n])}

\* What a task has looked up is still enough for what it will do.
Ahead(k) ==
  /\ k.need \subseteq Known
  /\ \A diff \in k.page : Placed(diff)
  /\ k.at = "subscribe" => k.need \subseteq Mirrored
  /\ k.at = "link" => k.snapshot.version \in 1 .. VersionOf(k.snapshot.node)
  /\ k.at \in {"look", "fetch", "link", "apply"} /\ Receiving(k) => Placed(k.diff)
  /\ k.at \in {"fetch", "link"} /\ Receiving(k) => Behind(k.diff) \subseteq k.need
  /\ k.at = "link" /\ Receiving(k) /\ k.snapshot.node \in DOMAIN k.diff.changes =>
       k.diff.changes[k.snapshot.node].version <= k.snapshot.version
  /\ k.at = "apply" => Behind(k.diff) = {}
  /\ k.at = "delete" =>
       Placed(k.diff) /\ \A n \in DOMAIN k.diff.changes : ~Later(n, k.diff.changes[n])

\* A record of the history tells of versions its nodes have.
HistoryPlaced ==
  \A i \in 1 .. Len(history) : \A n \in DOMAIN history[i] :
    history[i][n].version <= VersionOf(n)

\* A leased node is mirrored, and no mirror is ahead of its source.
MirrorsPlaced ==
  /\ leased \subseteq Mirrored
  /\ \A n \in Mirrored : mirror[n].version <= VersionOf(n)

\* Every diff that is anywhere between the two sides is placed.
DiffsPlaced ==
  /\ batch # None => Placed(batch)
  /\ \A diff \in delivering \cup inflight \cup mailbox : Placed(diff)

\* Who is how far: the inductive part the safety of receive and drain rests on.
Positions ==
  HistoryPlaced /\ MirrorsPlaced /\ DiffsPlaced /\ \A t \in Tasks : Ahead(task[t])

\* A function on a subset is a partial function.
LEMMA PartialIn ==
  ASSUME NEW S, NEW T, NEW D \in SUBSET S, NEW f \in [D -> T]
  PROVE  f \in Partial(S, T)
BY DEF Partial

\* A partial function is a function on a subset.
LEMMA PartialOut ==
  ASSUME NEW S, NEW T, NEW f \in Partial(S, T)
  PROVE  DOMAIN f \in SUBSET S /\ f \in [DOMAIN f -> T]
BY DEF Partial

\* The empty function is a partial function.
LEMMA EmptyPartial == ASSUME NEW S, NEW T PROVE <<>> \in Partial(S, T)
<1>1. <<>> \in [{} -> T]
  OBVIOUS
<1> QED BY <1>1, PartialIn

\* Over keeps partial functions what they are.
LEMMA OverPartial ==
  ASSUME NEW S, NEW T, NEW f \in Partial(S, T), NEW g \in Partial(S, T)
  PROVE  Over(f, g) \in Partial(S, T)
<1>1. /\ DOMAIN f \in SUBSET S /\ f \in [DOMAIN f -> T]
      /\ DOMAIN g \in SUBSET S /\ g \in [DOMAIN g -> T]
  BY PartialOut
<1>2. Over(f, g) \in [DOMAIN f \cup DOMAIN g -> T]
  BY <1>1 DEF Over
<1> QED BY <1>1, <1>2, PartialIn

\* A change written over a content is a content (apply_diff).
LEMMA OverContent ==
  ASSUME NEW f \in Content, NEW g \in Partial(Fields, Version \ {0})
  PROVE  Over(f, g) \in Content
BY PartialOut DEF Over, Content

\* The elements of a sequence are of its type.
LEMMA ElementsTyped ==
  ASSUME NEW T, NEW s \in Seq(T)
  PROVE  Len(s) \in Nat /\ \A i \in 1 .. Len(s) : s[i] \in T
OBVIOUS

\* The states of a node have their types at every version it has.
LEMMA SourceTyped ==
  ASSUME SourceTypes, NEW n \in Nodes
  PROVE  /\ VersionOf(n) \in Nat
         /\ \A v \in 1 .. VersionOf(n) : past[n][v].gone \in BOOLEAN
             /\ past[n][v].content \in Content
         /\ VersionOf(n) > 0 => VersionOf(n) \in 1 .. VersionOf(n)
<1>1. past[n] \in Seq([gone : BOOLEAN, content : Content])
  BY DEF SourceTypes
<1>2. VersionOf(n) \in Nat
  BY <1>1 DEF VersionOf
<1>3. \A v \in 1 .. VersionOf(n) : past[n][v] \in [gone : BOOLEAN, content : Content]
  BY <1>1, ElementsTyped DEF VersionOf
<1> QED BY <1>2, <1>3

\* What a fetch answers is a content.
LEMMA ContentTyped ==
  ASSUME SourceTypes, NEW n \in Nodes
  PROVE  Blank \in Content /\ ContentOf(n) \in Content
<1>1. Blank \in Content
  BY LinkedAssumption DEF Blank, Content, Version
<1> QED BY <1>1, SourceTyped DEF ContentOf, Live

\* What a record may say of a node is a change, of its next version.
LEMMA ChangesTyped ==
  ASSUME SourceTypes, Len(history) < MaxCommits, NEW n \in Nodes, NEW c \in Changes(n)
  PROVE  /\ c \in Change /\ c.version = VersionOf(n) + 1
         /\ After(n, c) \in [gone : BOOLEAN, content : Content]
<1>1. VersionOf(n) + 1 \in Version \ {0}
  BY LinkedAssumption DEF SourceTypes, Counted, VersionOf, Version
<1>2. ContentOf(n) \in Content
  BY ContentTyped
<1>3. Blank \in Content
  BY ContentTyped
<1>4. CASE c \in Upserts(n)
  <2>1. PICK F \in SUBSET Fields :
          c = [version |-> VersionOf(n) + 1, kind |-> "upsert",
               fields |-> [f \in F |-> VersionOf(n) + 1]]
    BY <1>4 DEF Upserts
  <2>2. [f \in F |-> VersionOf(n) + 1] \in Partial(Fields, Version \ {0})
    BY <1>1, PartialIn
  <2> QED BY <1>1, <1>2, <2>1, <2>2, OverContent DEF Change, After
<1>5. CASE c = Delete(n)
  BY <1>1, <1>3, <1>5, EmptyPartial DEF Change, Delete, After
<1> QED BY <1>4, <1>5 DEF Changes

\* Two windows coalesced are a diff.
LEMMA CoalesceTyped ==
  ASSUME NEW a \in Diff, NEW b \in Diff
  PROVE  Coalesce(a, b) \in Diff
<1> DEFINE D == DOMAIN a.changes \cup DOMAIN b.changes
<1>1. /\ D \in SUBSET Nodes
      /\ a.changes \in [DOMAIN a.changes -> Change]
      /\ b.changes \in [DOMAIN b.changes -> Change]
  BY PartialOut DEF Diff
<1>2. ASSUME NEW x \in Change, NEW y \in Change PROVE MergeChange(x, y) \in Change
  BY OverPartial DEF MergeChange, Change
<1>3. Coalesce(a, b).changes \in [D -> Change]
  BY <1>1, <1>2 DEF Coalesce
<1>4. Coalesce(a, b).changes \in Partial(Nodes, Change)
  BY <1>1, <1>3, PartialIn
<1> QED BY <1>4 DEF Coalesce, Diff

\* A set of naturals that is not empty has a least element.
LEMMA Least == ASSUME NEW S \in SUBSET Nat, S # {} PROVE \E m \in S : \A k \in S : m <= k
<1>1. \E m \in S : \A k \in S : <<k, m>> \notin OpToRel(<, Nat)
  BY NatLessThanWellFounded, WFMin, Zenon
<1>2. \E m \in S : \A k \in S : <<k, m>> \notin {p \in Nat \X Nat : p[1] < p[2]}
  BY <1>1, Zenon DEF OpToRel
<1>3. PICK m \in S : \A k \in S : <<k, m>> \notin {p \in Nat \X Nat : p[1] < p[2]}
  BY <1>2
<1>4. ASSUME NEW k \in S PROVE m <= k
  <2>1. <<k, m>> \notin {p \in Nat \X Nat : p[1] < p[2]}
    BY <1>3
  <2>2. ~(k < m)
    BY <2>1
  <2> QED BY <2>2
<1> QED BY <1>4

\* An idle task is a task.
LEMMA IdleTyped == Idle \in Task
BY DEF Idle, Task, At

\* A task that goes on has what it needs where it goes.
LEMMA OnwardTyped ==
  ASSUME NEW k \in Task, k.goal # "none", Receiving(k) => k.diff \in Diff
  PROVE  Onward(k) \in Task /\ Shaped(Onward(k))
BY DEF Onward, Task, At, Shaped, Receiving

\* The oldest item of a page is an item of it.
LEMMA OldestIn == ASSUME NEW page \in SUBSET Diff, page # {} PROVE Oldest(page) \in page
<1>1. PICK e \in page : TRUE
  OBVIOUS
<1> DEFINE S == {d.version : d \in page}
<1>2. S \in SUBSET Nat /\ e.version \in S
  BY LinkedAssumption DEF Diff, Version
<1>3. \E m \in S : \A k \in S : m <= k
  BY <1>2, Least
<1>4. \E d \in page : \A x \in page : d.version <= x.version
  BY <1>3
<1> QED BY <1>4, Zenon DEF Oldest

\* A wake that goes on with a page is a task, and has what it needs.
LEMMA DrainsTyped ==
  ASSUME NEW page \in SUBSET Diff
  PROVE  Drains(page) \in Task /\ Shaped(Drains(page))
<1>2. CASE page = {}
  BY <1>2, IdleTyped DEF Drains, Task, At, Shaped, Receiving, Idle
<1>3. CASE page # {}
  BY <1>3, OldestIn, IdleTyped DEF Drains, Task, At, Shaped, Receiving, Idle
<1> QED BY <1>2, <1>3

\* A step that moves one task to a good one leaves all of them good.
LEMMA TaskTyped ==
  ASSUME TaskTypes, NEW t \in Tasks, NEW k \in Task, Shaped(k), task' = [task EXCEPT ![t] = k]
  PROVE  TaskTypes'
BY DEF TaskTypes, Shaped, Receiving

\* A commit adds one record to the history.
Committed(record) ==
  /\ DOMAIN record \in SUBSET Nodes /\ record = [n \in DOMAIN record |-> record[n]]
  /\ \A n \in DOMAIN record : record[n] \in Changes(n)
  /\ history' = Append(history, record)
  /\ past' = [n \in Nodes |->
       IF n \in DOMAIN record THEN Append(past[n], After(n, record[n])) ELSE past[n]]

\* Commit is one record, written to the history and to its nodes.
LEMMA CommitRecord ==
  ASSUME Commit
  PROVE  /\ \E record : Committed(record)
         /\ Len(history) < MaxCommits /\ UNCHANGED <<leased, worker, network, subscriber>>
<1>1. PICK S \in SUBSET Nodes \ {{}} :
        \E record \in [S -> UNION {Changes(n) : n \in S}] :
          /\ \A n \in S : record[n] \in Changes(n)
          /\ history' = Append(history, record)
          /\ past' = [n \in Nodes |->
               IF n \in S THEN Append(past[n], After(n, record[n])) ELSE past[n]]
  BY DEF Commit
<1>2. PICK record \in [S -> UNION {Changes(n) : n \in S}] :
        /\ \A n \in S : record[n] \in Changes(n)
        /\ history' = Append(history, record)
        /\ past' = [n \in Nodes |->
             IF n \in S THEN Append(past[n], After(n, record[n])) ELSE past[n]]
  BY <1>1
<1>3. DOMAIN record = S /\ record = [n \in S |-> record[n]]
  OBVIOUS
<1>4. Committed(record)
  BY <1>1, <1>2, <1>3 DEF Committed
<1> QED BY <1>4 DEF Commit

\* What a sequence is after one more element.
LEMMA Appended ==
  ASSUME NEW T, NEW s \in Seq(T), NEW e \in T
  PROVE  /\ Append(s, e) \in Seq(T) /\ Len(s) \in Nat /\ Len(Append(s, e)) = Len(s) + 1
         /\ \A i \in 1 .. Len(s) : Append(s, e)[i] = s[i]
         /\ Append(s, e)[Len(s) + 1] = e
OBVIOUS

\* A mirror with a change applied is a mirror.
LEMMA UpdatedTyped == \A m \in Mirror, c \in Change : Updated(m, c) \in Mirror
BY OverContent DEF Mirror, Change, Updated

\* The mirrors with a diff applied are mirrors.
LEMMA ApplyTyped ==
  ASSUME SourceTypes, MirrorTypes, NEW diff \in Diff
  PROVE  ApplyDiff(diff) \in [Nodes -> Mirror \cup {None}]
<1>2. \A n \in DOMAIN diff.changes : diff.changes[n] \in Change
  BY PartialOut DEF Diff
<1>3. \A n \in Mirrored : mirror[n] \in Mirror
  BY DEF Mirrored, MirrorTypes
<1> QED BY UpdatedTyped, <1>2, <1>3 DEF ApplyDiff, Later, MirrorTypes

\* The mirror a snapshot makes is one: its version is not zero.
LEMMA LinkedTyped ==
  ASSUME SourceTypes, MirrorTypes, NEW s \in Snapshot, s.version # 0
  PROVE  Linked(s) \in Mirror
BY ContentTyped DEF Linked, Snapshot, Mirrored, MirrorTypes, Mirror

\* Every step keeps the types.
LEMMA TypeStep == ASSUME Types, Positions, Next PROVE Types'
<1>0. SourceTypes /\ DiffTypes /\ TaskTypes /\ MirrorTypes
  BY DEF Types
<1> USE <1>0 DEF source, worker, network, subscriber
<1>a. Len(history) \in Nat /\ \A i \in 1 .. Len(history) : history[i] \in Partial(Nodes, Change)
  BY ElementsTyped DEF SourceTypes
<1>1. CASE Commit
  <2>1. PICK record : Committed(record)
    BY <1>1, CommitRecord
  <2>2. Len(history) < MaxCommits /\ UNCHANGED <<leased, worker, network, subscriber>>
    BY <1>1, CommitRecord
  <2>3. \A n \in DOMAIN record :
          record[n] \in Change /\ After(n, record[n]) \in [gone : BOOLEAN, content : Content]
    BY <2>1, <2>2, ChangesTyped DEF Committed
  <2>4. record \in Partial(Nodes, Change)
    <3>1. DOMAIN record \in SUBSET Nodes /\ record \in [DOMAIN record -> Change]
      BY <2>1, <2>3 DEF Committed
    <3> QED BY <3>1, PartialIn
  <2>5. history' \in Seq(Partial(Nodes, Change)) /\ Len(history') = Len(history) + 1
    BY <2>1, <2>4, Appended DEF SourceTypes, Committed
  <2>6. ASSUME NEW n \in Nodes
        PROVE  past'[n] \in Seq([gone : BOOLEAN, content : Content])
               /\ Len(past'[n]) <= Len(past[n]) + 1
    <3>1. past[n] \in Seq([gone : BOOLEAN, content : Content]) /\ Len(past[n]) \in Nat
      BY ElementsTyped DEF SourceTypes
    <3>2. CASE n \in DOMAIN record
      BY <2>1, <2>3, <3>1, <3>2, Appended DEF Committed
    <3>3. CASE n \notin DOMAIN record
      BY <2>1, <3>1, <3>3 DEF Committed
    <3> QED BY <3>2, <3>3
  <2>7. past' \in [Nodes -> Seq([gone : BOOLEAN, content : Content])]
    BY <2>1, <2>6 DEF Committed
  <2>8. Counted'
    BY <2>2, <2>5, <2>6, SourceTyped, LinkedAssumption DEF SourceTypes, Counted, VersionOf
  <2>9. SourceTypes'
    <3>1. cursor \in 0 .. Len(history) /\ leased \subseteq Nodes
      BY DEF SourceTypes
    <3>2. cursor' \in 0 .. Len(history')
      BY <1>a, <2>2, <2>5, <3>1
    <3> QED BY <2>2, <2>5, <2>7, <2>8, <3>1, <3>2 DEF SourceTypes
  <2> QED BY <2>2, <2>9 DEF Types, DiffTypes, TaskTypes, MirrorTypes, Shaped, Receiving
<1>2. CASE WorkerReads
  <2> DEFINE record == history[cursor + 1]
             mine == leased \cap DOMAIN record
             scoped == [version |-> cursor + 1, changes |-> [n \in mine |-> record[n]]]
  <2>1. cursor + 1 \in 1 .. Len(history) /\ cursor + 1 \in Version \ {0}
    BY <1>2, LinkedAssumption DEF WorkerReads, SourceTypes, Counted, Version
  <2>2. record \in Partial(Nodes, Change)
    BY <2>1, ElementsTyped DEF SourceTypes
  <2>3. [n \in mine |-> record[n]] \in Partial(Nodes, Change)
    <3>1. DOMAIN record \in SUBSET Nodes /\ record \in [DOMAIN record -> Change]
      BY <2>2, PartialOut
    <3>2. mine \in SUBSET Nodes /\ [n \in mine |-> record[n]] \in [mine -> Change]
      BY <3>1
    <3> QED BY <3>2, PartialIn
  <2>4. scoped \in Diff
    BY <2>1, <2>3 DEF Diff
  <2>5. batch' \in Diff \cup {None}
    <3>1. /\ batch' \in {batch, scoped, Coalesce(batch, scoped)}
          /\ batch = None => batch' \in {batch, scoped}
      BY <1>2 DEF WorkerReads
    <3>2. batch # None => Coalesce(batch, scoped) \in Diff
      BY <2>4, CoalesceTyped DEF DiffTypes
    <3>3. batch \in Diff \cup {None}
      BY DEF DiffTypes
    <3> HIDE DEF scoped
    <3> QED BY <2>4, <3>1, <3>2, <3>3
  <2>6. UNCHANGED <<source, network, subscriber>> /\ cursor' = cursor + 1
    BY <1>2 DEF WorkerReads
  <2>7. SourceTypes'
    <3>1. cursor' \in 0 .. Len(history')
      BY <1>a, <2>1, <2>6
    <3> QED BY <2>6, <3>1 DEF SourceTypes, Counted, VersionOf
  <2> HIDE DEF scoped, record, mine
  <2> QED BY <2>5, <2>6, <2>7 DEF Types, DiffTypes, TaskTypes, MirrorTypes, Shaped, Receiving
<1>3. CASE Deliver
  BY <1>3 DEF Deliver, Types, SourceTypes, Counted, VersionOf, DiffTypes, TaskTypes, MirrorTypes,
      Shaped, Receiving
<1>4. ASSUME NEW diff \in delivering, FallBack(diff) PROVE Types'
  BY <1>4 DEF FallBack, Types, SourceTypes, Counted, VersionOf, DiffTypes, TaskTypes, MirrorTypes,
      Shaped, Receiving
<1>5. CASE SourceRestarts
  <2>1. UNCHANGED source /\ cursor' = Len(history)
    BY <1>5 DEF SourceRestarts
  <2>2. SourceTypes'
    <3>1. cursor' \in 0 .. Len(history')
      BY <1>a, <2>1
    <3> QED BY <2>1, <3>1 DEF SourceTypes, Counted, VersionOf
  <2> QED
    BY <1>5, <2>2 DEF SourceRestarts, Types, DiffTypes, TaskTypes, MirrorTypes, Shaped, Receiving
<1>6. CASE SubscriberRestarts
  <2>1. TaskTypes'
    BY <1>6, IdleTyped DEF SubscriberRestarts, TaskTypes, Shaped, Receiving, Idle
  <2> QED BY <1>6, <2>1
          DEF SubscriberRestarts, Types, SourceTypes, Counted, VersionOf, DiffTypes, MirrorTypes
<1>7. ASSUME NEW t \in Tasks, NEW k \in Task, Shaped(k), task' = [task EXCEPT ![t] = k],
             UNCHANGED <<past, history, cursor, batch>>, leased' \in SUBSET Nodes,
             (delivering \cup inflight \cup mailbox)'
                 \subseteq delivering \cup inflight \cup mailbox,
             MirrorTypes'
      PROVE  Types'
  <2>1. TaskTypes'
    BY <1>7, TaskTyped
  <2>2. SourceTypes'
    BY <1>7 DEF SourceTypes, Counted, VersionOf
  <2>3. DiffTypes'
    BY <1>7 DEF DiffTypes
  <2> QED BY <1>7, <2>1, <2>2, <2>3 DEF Types
<1>8. ASSUME NEW t \in Handlers, NEW diff \in inflight, Accept(t, diff) PROVE Types'
  <2> DEFINE k == [Idle EXCEPT !.goal = "push", !.at = "look", !.diff = diff]
  <2>1. k \in Task /\ Shaped(k)
    BY IdleTyped DEF Idle, Task, At, Shaped, Receiving, DiffTypes
  <2>2. t \in Tasks
    BY DEF Tasks
  <2> QED BY <1>7, <1>8, <2>1, <2>2 DEF Accept, SourceTypes, MirrorTypes
<1>9. ASSUME NEW t \in Handlers, NEW n \in Nodes, Link(t, n) PROVE Types'
  <2> DEFINE k == [Idle EXCEPT !.goal = "link", !.at = "fetch", !.need = {n}]
  <2>1. k \in Task /\ Shaped(k)
    BY IdleTyped DEF Idle, Task, At, Shaped, Receiving
  <2>2. t \in Tasks
    BY DEF Tasks
  <2> QED BY <1>7, <1>9, <2>1, <2>2 DEF Link, SourceTypes, MirrorTypes
<1>10. ASSUME NEW t \in Wakers, Wake(t) PROVE Types'
  <2> DEFINE k == [Idle EXCEPT !.goal = "drain", !.at = "renew"]
  <2>1. k \in Task /\ Shaped(k)
    BY IdleTyped DEF Idle, Task, At, Shaped, Receiving
  <2>2. t \in Tasks
    BY DEF Tasks
  <2> QED BY <1>7, <1>10, <2>1, <2>2 DEF Wake, SourceTypes, MirrorTypes
<1>11. ASSUME NEW t \in Tasks, Renew(t) PROVE Types'
  <2> DEFINE k == [task[t] EXCEPT !.at = "subscribe", !.need = Mirrored]
  <2>1. k \in Task /\ Shaped(k)
    BY DEF Task, At, Shaped, Receiving, TaskTypes, Mirrored
  <2>2. task' = [task EXCEPT ![t] = k]
    BY <1>11 DEF Renew, TaskTypes, Task
  <2> HIDE DEF k
  <2> QED BY <1>7, <1>11, <2>1, <2>2 DEF Renew, SourceTypes, MirrorTypes
<1>12. ASSUME NEW t \in Tasks, Subscribe(t) PROVE Types'
  <2> DEFINE k == IF task[t].goal = "link" THEN Idle
                  ELSE [Idle EXCEPT !.goal = "drain", !.at = "list"]
  <2>1. k \in Task /\ Shaped(k)
    BY IdleTyped DEF Idle, Task, At, Shaped, Receiving
  <2>2. token' \in BOOLEAN
    BY <1>12, Zenon DEF Subscribe
  <2>3. leased' \in SUBSET Nodes
    BY <1>12 DEF Subscribe, SourceTypes, TaskTypes, Task
  <2> HIDE DEF k
  <2> QED BY <1>7, <1>12, <2>1, <2>2, <2>3 DEF Subscribe, MirrorTypes, k
<1>13. ASSUME NEW t \in Tasks, List(t) PROVE Types'
  <2> DEFINE k == Drains(IF token THEN mailbox ELSE {})
  <2>1. k \in Task /\ Shaped(k)
    BY DrainsTyped DEF DiffTypes
  <2> QED BY <1>7, <1>13, <2>1 DEF List, SourceTypes, MirrorTypes
<1>14. ASSUME NEW t \in Tasks, Look(t) PROVE Types'
  <2> DEFINE diff == task[t].diff
             need == {n \in DOMAIN diff.changes : NeedsSnapshot(n, diff.changes[n])}
             k == Onward([task[t] EXCEPT !.need = need])
  <2>1. task[t] \in Task /\ Receiving(task[t]) /\ diff \in Diff
    BY <1>14 DEF Look, TaskTypes, Shaped
  <2>2. need \in SUBSET Nodes
    BY <2>1, PartialOut DEF Diff
  <2>3. k \in Task /\ Shaped(k)
    BY <2>1, <2>2, OnwardTyped DEF Task, Receiving
  <2> QED BY <1>7, <1>14, <2>3 DEF Look, SourceTypes, MirrorTypes
<1>15. ASSUME NEW t \in Tasks, Fetch(t) PROVE Types'
  <2>1. PICK n \in task[t].need :
       task' = [task EXCEPT ![t].at = "link",
                  ![t].snapshot = [node |-> n, version |-> VersionOf(n),
                                   gone |-> ~Live(n), content |-> ContentOf(n)]]
    BY <1>15 DEF Fetch
  <2> DEFINE s == [node |-> n, version |-> VersionOf(n), gone |-> ~Live(n),
                  content |-> ContentOf(n)]
             k == [task[t] EXCEPT !.at = "link", !.snapshot = s]
  <2>2. task[t] \in Task /\ Shaped(task[t]) /\ task[t].at = "fetch" /\ n \in Nodes
    BY <1>15, <2>1 DEF Fetch, TaskTypes, Task
  <2>3. s.gone \in BOOLEAN
    BY Zenon
  <2>4. s \in Snapshot
    <3>1. VersionOf(n) \in Version
      <4>1. VersionOf(n) \in Nat
        BY <2>2, SourceTyped
      <4>2. VersionOf(n) <= Len(history) /\ Len(history) <= MaxCommits
        BY <2>2 DEF SourceTypes, Counted
      <4> QED BY <1>a, <4>1, <4>2, LinkedAssumption DEF Version
    <3> QED BY <2>2, <2>3, <3>1, ContentTyped DEF Snapshot
  <2> HIDE DEF s
  <2>5. k \in Task /\ Shaped(k)
    BY <2>2, <2>4 DEF Task, At, Shaped, Receiving
  <2>6. task' = [task EXCEPT ![t] = k]
    BY <2>1, <2>2 DEF Task, TaskTypes, s
  <2> HIDE DEF k
  <2> QED BY <1>7, <1>15, <2>5, <2>6 DEF Fetch, SourceTypes, MirrorTypes
<1>16. ASSUME NEW t \in Tasks, Install(t) PROVE Types'
  <2> DEFINE s == task[t].snapshot
             k == Onward([task[t] EXCEPT !.need = task[t].need \ {s.node}])
  <2>1. task[t] \in Task /\ Shaped(task[t]) /\ task[t].at = "link" /\ s \in Snapshot
    BY <1>16 DEF Install, TaskTypes, Shaped
  <2>2. k \in Task /\ Shaped(k)
    BY <2>1, OnwardTyped DEF Task, Receiving, Shaped
  <2>3. s.version # 0 /\ s.node \in Nodes
    BY <1>16, <2>1, SourceTyped DEF Install, Positions, Ahead, Snapshot
  <2>4. Linked(s) \in Mirror
    BY <2>1, <2>3, LinkedTyped
  <2>5. mirror' \in [Nodes -> Mirror \cup {None}]
    BY <1>16, <2>3, <2>4 DEF Install, MirrorTypes
  <2>6. MirrorTypes'
    BY <1>16, <2>5 DEF Install, MirrorTypes
  <2>7. task' = [task EXCEPT ![t] = k]
    BY <1>16, Zenon DEF Install
  <2>8. UNCHANGED <<source, worker, network>>
    BY <1>16 DEF Install
  <2> HIDE DEF k, s
  <2> QED BY <1>7, <2>2, <2>6, <2>7, <2>8 DEF SourceTypes
<1>17. ASSUME NEW t \in Tasks, Apply(t) PROVE Types'
  <2> DEFINE diff == task[t].diff
             k == IF task[t].goal = "push" \/ Refused(diff) THEN Idle
                 ELSE [task[t] EXCEPT !.at = "delete"]
  <2>1. task[t] \in Task /\ Receiving(task[t]) /\ diff \in Diff
    BY <1>17 DEF Apply, TaskTypes, Shaped
  <2>2. k \in Task /\ Shaped(k)
    BY <2>1, IdleTyped DEF Task, At, Shaped, Receiving, Idle
  <2>3. ApplyDiff(diff) \in [Nodes -> Mirror \cup {None}]
    BY <2>1, ApplyTyped
  <2>4. task' = [task EXCEPT ![t] = k] /\ delivering' \subseteq delivering
        /\ mirror' \in {mirror, ApplyDiff(diff)}
    BY <1>17 DEF Apply
  <2> HIDE DEF k, diff
  <2>5. MirrorTypes'
    BY <1>17, <2>3, <2>4 DEF Apply, MirrorTypes
  <2> QED BY <1>7, <1>17, <2>2, <2>4, <2>5 DEF Apply, SourceTypes
<1>18. ASSUME NEW t \in Tasks, DeleteItem(t) PROVE Types'
  <2> DEFINE k == Drains(task[t].page \ {task[t].diff})
  <2>1. k \in Task /\ Shaped(k)
    BY DrainsTyped DEF TaskTypes, Task
  <2> HIDE DEF k
  <2> QED BY <1>7, <1>18, <2>1 DEF DeleteItem, SourceTypes, MirrorTypes, k
<1>19. ASSUME NEW t \in Tasks, Check(t) PROVE Types'
  <2> DEFINE k == Onward([task[t] EXCEPT !.need = Stale])
  <2>1. task[t] \in Task /\ task[t].goal = "repair"
    BY <1>19 DEF Check, TaskTypes, Shaped
  <2>2. k \in Task /\ Shaped(k)
    BY <2>1, OnwardTyped DEF Task, Receiving, Stale, Mirrored
  <2> HIDE DEF k
  <2> QED BY <1>7, <1>19, <2>2 DEF Check, SourceTypes, MirrorTypes, k
<1>20. ASSUME NEW t \in Tasks, Open(t) \/ Fail(t) PROVE Types'
  <2>1. Idle \in Task /\ Shaped(Idle)
    BY IdleTyped DEF Idle, Shaped, Receiving
  <2> QED BY <1>7, <1>20, <2>1 DEF Open, Fail, SourceTypes, MirrorTypes
<1> HIDE DEF source, worker, network, subscriber
<1> QED
  BY Zenon, <1>1, <1>2, <1>3, <1>4, <1>5, <1>6, <1>8, <1>9, <1>10, <1>11, <1>12, <1>13,
     <1>14, <1>15, <1>16, <1>17, <1>18, <1>19, <1>20
  DEF Next, Step

-----------------------------------------------------------------------------
\* What no step takes back: versions, their states, leases, and mirrors, which only move
\* forward.
Grows ==
  /\ \A n \in Nodes : VersionOf(n) <= VersionOf(n)'
  /\ \A n \in Nodes : \A v \in 1 .. VersionOf(n) : past[n][v]' = past[n][v]
  /\ leased \subseteq leased'
  /\ \A n \in Mirrored :
       /\ n \in Mirrored'
       /\ mirror'[n] = mirror[n] \/ mirror[n].version < mirror'[n].version

\* The changes of a diff.
LEMMA DiffTyped ==
  ASSUME NEW diff \in Diff, NEW n \in DOMAIN diff.changes
  PROVE  n \in Nodes /\ diff.changes[n] \in Change /\ diff.changes[n].version \in Nat
<1>1. diff.changes \in Partial(Nodes, Change)
  BY DEF Diff
<1>2. n \in Nodes /\ diff.changes[n] \in Change
  BY <1>1, PartialOut
<1>3. \A c \in Change : c.version \in Nat
  BY LinkedAssumption DEF Change, Version
<1> QED BY <1>2, <1>3

\* The version of a node is a number, before and after a step.
LEMMA VersionsTyped ==
  /\ Types => \A n \in Nodes : VersionOf(n) \in Nat
  /\ Types' => \A n \in Nodes : VersionOf(n)' \in Nat
<1>1. ASSUME Types, NEW n \in Nodes PROVE VersionOf(n) \in Nat
  BY <1>1, ElementsTyped DEF Types, SourceTypes, VersionOf
<1>2. ASSUME Types', NEW n \in Nodes PROVE VersionOf(n)' \in Nat
  BY <1>2, ElementsTyped DEF Types, SourceTypes, VersionOf
<1> QED BY <1>1, <1>2

\* A step that leaves the source and the mirrors alone takes nothing back.
LEMMA Kept == ASSUME Types, UNCHANGED <<past, leased, mirror>> PROVE Grows
<1>1. \A n \in Nodes : VersionOf(n) \in Nat
  BY SourceTyped DEF Types
<1>2. \A n \in Mirrored : mirror[n].version \in Nat
  BY LinkedAssumption DEF Types, MirrorTypes, Mirror, Mirrored, Version
<1> QED BY <1>1, <1>2 DEF Grows, VersionOf, Mirrored

\* A diff that is placed stays placed.
LEMMA PlacedGrows ==
  ASSUME Types, Types', Grows, NEW diff \in Diff, Placed(diff)
  PROVE  Placed(diff)'
<1>1. \A n \in Nodes : VersionOf(n) \in Nat /\ VersionOf(n)' \in Nat
  BY VersionsTyped
<1>2. ASSUME NEW n \in DOMAIN diff.changes
      PROVE  n \in Nodes /\ diff.changes[n].version \in Nat
  BY DiffTyped
<1> QED BY <1>1, <1>2 DEF Placed, Grows

\* No mirror comes to miss a version before a diff.
LEMMA BehindGrows ==
  ASSUME Types, Types', Positions, Grows, NEW diff \in Diff, Placed(diff)
  PROVE  Behind(diff)' \subseteq Behind(diff)
<1>2. ASSUME NEW n \in DOMAIN diff.changes
      PROVE  n \in Nodes /\ diff.changes[n].version \in Nat
  BY DiffTyped
<1>3. \A n \in Mirrored : mirror[n].version \in Nat
  BY LinkedAssumption DEF Types, MirrorTypes, Mirror, Mirrored, Version
<1>4. \A n \in Mirrored' : mirror'[n].version \in Nat
  BY LinkedAssumption DEF Types, MirrorTypes, Mirror, Mirrored, Version
<1>5. \A n \in DOMAIN diff.changes : n \in Mirrored
  BY DEF Placed, Positions, MirrorsPlaced
<1> QED BY <1>2, <1>3, <1>4, <1>5 DEF Behind, Grows, Later, Gap

\* A mirror that has passed a change has passed it for good.
LEMMA LaterGrows ==
  ASSUME Types, Types', Positions, Grows, NEW diff \in Diff, Placed(diff),
         NEW n \in DOMAIN diff.changes, ~Later(n, diff.changes[n])
  PROVE  ~Later(n, diff.changes[n])'
<1>2. n \in Nodes /\ diff.changes[n].version \in Nat
  BY DiffTyped
<1>3. n \in Mirrored
  BY DEF Placed, Positions, MirrorsPlaced
<1>4. mirror[n].version \in Nat
  BY <1>3, LinkedAssumption DEF Types, MirrorTypes, Mirror, Mirrored, Version
<1>5. n \in Mirrored' /\ mirror[n].version' \in Nat
  BY <1>3, LinkedAssumption DEF Types, MirrorTypes, Mirror, Mirrored, Version, Grows
<1> QED BY <1>2, <1>3, <1>4, <1>5 DEF Grows, Later

\* What a task has looked up stays enough, whatever other tasks do.
LEMMA AheadGrows ==
  ASSUME Types, Types', Positions, Grows, NEW k \in Task, Shaped(k), Ahead(k)
  PROVE  Ahead(k)'
<1>1. \A n \in Nodes : VersionOf(n) \in Nat /\ VersionOf(n)' \in Nat
  BY VersionsTyped
<1>2. k.need \subseteq Known'
  BY <1>1 DEF Known, Ahead, Grows
<1>3. \A diff \in k.page : Placed(diff)'
  BY PlacedGrows DEF Ahead, Task
<1>4. k.at = "subscribe" => k.need \subseteq Mirrored'
  BY DEF Ahead, Grows
<1>5. k.at = "link" => k.snapshot.version \in 1 .. VersionOf(k.snapshot.node)'
  BY <1>1 DEF Ahead, Shaped, Snapshot, Grows
<1>6. ASSUME k.at \in {"look", "fetch", "link", "apply"}, Receiving(k)
      PROVE  Placed(k.diff)' /\ Behind(k.diff)' \subseteq Behind(k.diff)
  BY <1>6, PlacedGrows, BehindGrows DEF Ahead, Shaped
<1>7. ASSUME k.at = "delete"
      PROVE  Placed(k.diff)' /\ \A n \in DOMAIN k.diff.changes : ~Later(n, k.diff.changes[n])'
  BY <1>7, PlacedGrows, LaterGrows DEF Ahead, Shaped
<1> QED BY <1>2, <1>3, <1>4, <1>5, <1>6, <1>7 DEF Ahead, Shaped, Receiving

\* A step that moves one task to where it is ahead leaves all of them ahead.
LEMMA TasksAhead ==
  ASSUME Types, Types', Positions, Grows,
         NEW t \in Tasks, NEW k, task' = [task EXCEPT ![t] = k], Ahead(k)'
  PROVE  \A q \in Tasks : Ahead(task[q])'
<1> SUFFICES ASSUME NEW q \in Tasks PROVE Ahead(task[q])'
  OBVIOUS
<1>1. CASE q = t
  <2>1. task'[q] = k
    BY <1>1 DEF Types, TaskTypes
  <2> QED BY <2>1 DEF Ahead, Placed, Behind, Later, Gap, Known, Mirrored, Receiving, VersionOf
<1>2. CASE q # t
  <2>1. task'[q] = task[q] /\ task[q] \in Task /\ Shaped(task[q]) /\ Ahead(task[q])
    BY <1>2 DEF Types, TaskTypes, Positions
  <2>2. PICK j \in Task : j = task[q]
    BY <2>1
  <2>3. Ahead(j)'
    BY <2>1, <2>2, AheadGrows
  <2> QED BY <2>1, <2>2, <2>3
          DEF Ahead, Placed, Behind, Later, Gap, Known, Mirrored, Receiving, VersionOf
<1> QED BY <1>1, <1>2

\* No step takes anything back.
LEMMA NextGrows == ASSUME Types, Types', Positions, Next PROVE Grows
<1> USE DEF source, worker, network, subscriber
<1>0. /\ Types => SourceTypes /\ DiffTypes /\ TaskTypes /\ MirrorTypes
      /\ \A n \in Mirrored : mirror[n].version \in Nat
      /\ \A n \in Nodes : n \in Mirrored' => mirror'[n].version \in Nat
  BY LinkedAssumption DEF Types, MirrorTypes, Mirror, Mirrored, Version
<1>1. CASE Commit
  <2>1. PICK record : Committed(record)
    BY <1>1, CommitRecord
  <2>2. UNCHANGED <<leased, subscriber>>
    BY <1>1, CommitRecord
  <2>3. ASSUME NEW n \in Nodes
        PROVE  /\ VersionOf(n) <= VersionOf(n)'
               /\ \A v \in 1 .. VersionOf(n) : past[n][v]' = past[n][v]
    <3>1. past[n] \in Seq([gone : BOOLEAN, content : Content]) /\ Len(past[n]) \in Nat
      BY ElementsTyped DEF Types, SourceTypes
    <3>2. CASE n \in DOMAIN record
      <4>1. past'[n] = Append(past[n], After(n, record[n]))
        BY <2>1, <3>2 DEF Committed
      <4> QED BY <3>1, <4>1 DEF VersionOf
    <3>3. CASE n \notin DOMAIN record
      BY <2>1, <3>1, <3>3 DEF Committed, VersionOf
    <3> QED BY <3>2, <3>3
  <2> QED BY <1>0, <2>2, <2>3 DEF Grows, Mirrored
<1>2. ASSUME NEW t \in Tasks, Subscribe(t) PROVE Grows
  BY <1>0, <1>2, VersionsTyped DEF Subscribe, Grows, Mirrored, VersionOf
<1>3. ASSUME NEW t \in Tasks, Install(t) PROVE Grows
  <2>1. task[t].snapshot \in Snapshot /\ task[t].snapshot.version \in Nat
    BY <1>0, <1>3, LinkedAssumption DEF Install, Types, TaskTypes, Shaped, Snapshot, Version
  <2>2. Linked(task[t].snapshot).version = task[t].snapshot.version
    BY DEF Linked
  <2>3. ASSUME NEW n \in Mirrored
        PROVE  mirror'[n] = mirror[n] \/ mirror[n].version < mirror'[n].version
    BY <1>0, <1>3, <2>1, <2>2, <2>3 DEF Install, KeepsMirror, Types, MirrorTypes, Mirrored
  <2>4. \A n \in Mirrored : n \in Mirrored'
    <3> USE DEF Types, MirrorTypes
    <3>1. ASSUME ~KeepsMirror(task[t].snapshot) PROVE mirror'[task[t].snapshot.node] # None
      <4>1. mirror'[task[t].snapshot.node] = Linked(task[t].snapshot)
        BY <1>3, <2>1, <3>1 DEF Install, Snapshot
      <4>2. Linked(task[t].snapshot) \in Mirror
        <5>1. task[t].snapshot.version # 0
          BY <1>3, <2>1, VersionsTyped DEF Install, Positions, Ahead, Snapshot
        <5> QED BY <2>1, <5>1, LinkedTyped
      <4> QED BY <4>1, <4>2, NoneAssumption
    <3> QED BY <1>3, <3>1 DEF Install, Mirrored
  <2> QED BY <1>0, <1>3, <2>3, <2>4, VersionsTyped DEF Install, Grows, Mirrored, VersionOf
<1>4. ASSUME NEW t \in Tasks, Apply(t) PROVE Grows
  <2>1. task[t].diff \in Diff
    BY <1>4 DEF Apply, Types, TaskTypes, Shaped
  <2>2. ASSUME NEW n \in Mirrored
        PROVE  n \in Mirrored' /\ (mirror'[n] = mirror[n] \/ mirror[n].version < mirror'[n].version)
    <3>1. \/ mirror'[n] = mirror[n]
          \/ /\ n \in DOMAIN task[t].diff.changes /\ Later(n, task[t].diff.changes[n])
             /\ mirror'[n] = Updated(mirror[n], task[t].diff.changes[n])
      BY <1>4 DEF Apply, ApplyDiff, Mirrored
    <3>2. CASE mirror'[n] = mirror[n]
      BY <1>0, <3>2 DEF Mirrored
    <3>3. CASE mirror'[n] = Updated(mirror[n], task[t].diff.changes[n])
               /\ n \in DOMAIN task[t].diff.changes /\ Later(n, task[t].diff.changes[n])
      <4>1. mirror'[n].version = task[t].diff.changes[n].version
        BY <1>0, <3>3 DEF Updated, Types, MirrorTypes, Mirrored, Mirror
      <4>2. mirror'[n] # None
        BY <3>3, NoneAssumption, UpdatedTyped, <2>1, DiffTyped DEF Types, MirrorTypes, Mirrored
      <4> QED BY <1>0, <2>1, <3>3, <4>1, <4>2, DiffTyped DEF Later, Mirrored
    <3> QED BY <3>1, <3>2, <3>3
  <2> QED BY <1>4, <2>2, VersionsTyped DEF Apply, Grows, VersionOf
<1>5. ASSUME ~Commit, ~\E t \in Tasks : Subscribe(t) \/ Install(t) \/ Apply(t)
      PROVE  UNCHANGED <<past, leased, mirror>>
  BY <1>5 DEF Next, Step, WorkerReads, Deliver, FallBack, SourceRestarts, SubscriberRestarts,
       Accept, Link, Wake, Renew, List, Look, Fetch, DeleteItem, Check, Open, Fail
<1> QED BY <1>1, <1>2, <1>3, <1>4, <1>5, Kept

\* A task that goes on is ahead if its fetches cover the mirrors that are behind.
LEMMA OnwardAhead ==
  /\ \A k \in Task :
       /\ k.goal # "none" /\ k.need \subseteq Known /\ \A diff \in k.page : Placed(diff)
       /\ Receiving(k) => Placed(k.diff) /\ Behind(k.diff) \subseteq k.need
       => Ahead(Onward(k))
  /\ \A k \in Task :
       /\ k.goal # "none" /\ k.need \subseteq Known' /\ \A diff \in k.page : Placed(diff)'
       /\ Receiving(k) => Placed(k.diff)' /\ Behind(k.diff)' \subseteq k.need
       => Ahead(Onward(k))'
<1>1. ASSUME NEW k \in Task, k.goal # "none"
      PROVE  /\ Onward(k).need = k.need /\ Onward(k).page = k.page /\ Onward(k).diff = k.diff
             /\ Receiving(Onward(k)) <=> Receiving(k)
             /\ k.need # {} => Onward(k).at = "fetch"
             /\ k.need = {} /\ Receiving(k) => Onward(k).at = "apply"
             /\ k.need = {} /\ ~Receiving(k) => Onward(k).at \in {"open", "renew"}
  BY <1>1 DEF Onward, Task, Receiving
<1>2. ASSUME NEW k \in Task, k.goal # "none", k.need \subseteq Known,
             \A diff \in k.page : Placed(diff),
             Receiving(k) => Placed(k.diff) /\ Behind(k.diff) \subseteq k.need
      PROVE  Ahead(Onward(k))
  BY <1>1, <1>2 DEF Ahead
<1>3. ASSUME NEW k \in Task, k.goal # "none", k.need \subseteq Known',
             \A diff \in k.page : Placed(diff)',
             Receiving(k) => Placed(k.diff)' /\ Behind(k.diff)' \subseteq k.need
      PROVE  Ahead(Onward(k))'
  BY <1>1, <1>3 DEF Ahead
<1> QED BY <1>2, <1>3

\* A wake that goes on with placed items is ahead.
LEMMA DrainsAhead ==
  ASSUME NEW page \in SUBSET Diff, \A diff \in page : Placed(diff)
  PROVE  Ahead(Drains(page))
BY OldestIn DEF Drains, Ahead, Idle, Receiving

\* A step that adds no diff leaves all of them placed.
LEMMA DiffsKept ==
  ASSUME Types, Types', Grows, DiffsPlaced, batch' \in {batch, None},
         (delivering \cup inflight \cup mailbox)' \subseteq delivering \cup inflight \cup mailbox
  PROVE  DiffsPlaced'
<1>1. \A diff \in delivering \cup inflight \cup mailbox : Placed(diff)'
  BY PlacedGrows DEF DiffsPlaced, Types, DiffTypes
<1>2. ASSUME batch # None PROVE \A diff \in {batch} : Placed(diff)'
  BY <1>2, PlacedGrows DEF DiffsPlaced, Types, DiffTypes
<1>3. ASSUME batch' # None PROVE Placed(batch)'
  <2>1. batch' = batch /\ batch # None
    BY <1>3
  <2>2. PICK diff \in {batch} : Placed(diff)'
    BY <1>2, <2>1
  <2> QED BY <2>1, <2>2 DEF Placed, VersionOf
<1> QED BY <1>1, <1>3 DEF DiffsPlaced

\* Every step keeps the positions.
LEMMA PositionsStep == ASSUME Types, Types', Positions, Next PROVE Positions'
<1> USE DEF source, worker, network, subscriber
<1>g. Grows
  BY NextGrows
<1>v. /\ \A n \in Nodes : VersionOf(n) \in Nat /\ VersionOf(n)' \in Nat
      /\ \A n \in Mirrored : mirror[n].version \in Nat \ {0}
      /\ \A n \in Nodes : n \in Mirrored' => mirror'[n].version \in Nat \ {0}
  BY VersionsTyped, LinkedAssumption DEF Types, MirrorTypes, Mirror, Mirrored, Version
<1>k. ASSUME NEW t \in Tasks PROVE task[t] \in Task /\ Shaped(task[t]) /\ Ahead(task[t])
  BY DEF Types, TaskTypes, Positions
<1>h. ASSUME UNCHANGED history PROVE HistoryPlaced'
  <2>1. ASSUME NEW i \in 1 .. Len(history), NEW n \in DOMAIN history[i]
        PROVE  history[i][n].version <= VersionOf(n)'
    <3>1. history[i] \in Partial(Nodes, Change)
      BY ElementsTyped DEF Types, SourceTypes
    <3>2. n \in Nodes /\ history[i][n] \in Change
      BY <3>1, PartialOut
    <3>3. history[i][n].version \in Nat
      BY <3>2, LinkedAssumption DEF Change, Version
    <3> QED BY <1>g, <1>v, <3>2, <3>3 DEF Positions, HistoryPlaced, Grows
  <2> QED BY <1>h, <2>1 DEF HistoryPlaced
<1>m. ASSUME UNCHANGED <<mirror, leased>> PROVE MirrorsPlaced'
  BY <1>g, <1>v, <1>m DEF Positions, MirrorsPlaced, Grows, Mirrored
<1>d. DiffsPlaced
  BY DEF Positions
<1>s. ASSUME UNCHANGED task PROVE \A t \in Tasks : Ahead(task[t])'
  <2> SUFFICES ASSUME NEW t \in Tasks PROVE Ahead(task[t])'
    OBVIOUS
  <2>1. PICK k \in Task : k = task[t] /\ Shaped(k) /\ Ahead(k)
    BY <1>k
  <2>2. Ahead(k)'
    BY <1>g, <2>1, AheadGrows
  <2> QED BY <1>s, <2>1, <2>2
          DEF Ahead, Placed, Behind, Later, Gap, Known, Mirrored, Receiving, VersionOf
<1>t. ASSUME NEW t \in Tasks, NEW k \in Task, Ahead(k), Shaped(k),
             task' = [task EXCEPT ![t] = k], UNCHANGED <<history, mirror, leased, batch>>,
             (delivering \cup inflight \cup mailbox)'
                 \subseteq delivering \cup inflight \cup mailbox
      PROVE  Positions'
  <2>1. Ahead(k)'
    BY <1>g, <1>t, AheadGrows
  <2>2. \A q \in Tasks : Ahead(task[q])'
    BY <1>g, <1>t, <2>1, TasksAhead
  <2>3. HistoryPlaced' /\ MirrorsPlaced'
    BY <1>h, <1>m, <1>t
  <2>4. DiffsPlaced'
    BY <1>g, <1>d, <1>t, DiffsKept
  <2> QED BY <2>2, <2>3, <2>4 DEF Positions
<1>i. Idle \in Task /\ Shaped(Idle) /\ Ahead(Idle)
  BY IdleTyped DEF Idle, Shaped, Ahead, Receiving
<1>1. CASE Commit
  <2>1. PICK record : Committed(record)
    BY <1>1, CommitRecord
  <2>2. UNCHANGED <<leased, worker, network, subscriber>>
    BY <1>1, CommitRecord
  <2>3. HistoryPlaced'
    <3>1. history \in Seq(Partial(Nodes, Change)) /\ Len(history) \in Nat
          /\ \A i \in 1 .. Len(history) : history[i] \in Partial(Nodes, Change)
      BY ElementsTyped DEF Types, SourceTypes
    <3>2. /\ Len(history') = Len(history) + 1 /\ history'[Len(history) + 1] = record
          /\ \A i \in 1 .. Len(history) : history'[i] = history[i]
      BY <2>1, <3>1 DEF Committed
    <3>3. ASSUME NEW i \in 1 .. Len(history), NEW n \in DOMAIN history[i]
          PROVE  history[i][n].version <= VersionOf(n)'
      <4>1. n \in Nodes /\ history[i][n] \in Change
        BY <3>1, PartialOut
      <4>2. history[i][n].version \in Nat
        BY <4>1, LinkedAssumption DEF Change, Version
      <4> QED BY <1>g, <1>v, <4>1, <4>2 DEF Positions, HistoryPlaced, Grows
    <3>4. ASSUME NEW n \in DOMAIN record
          PROVE  record[n].version <= VersionOf(n)'
      <4>1. record[n].version = VersionOf(n) + 1 /\ n \in Nodes
        BY <2>1 DEF Committed, Changes, Upserts, Delete
      <4>2. past[n] \in Seq([gone : BOOLEAN, content : Content])
        BY <4>1 DEF Types, SourceTypes
      <4>3. past'[n] = Append(past[n], After(n, record[n]))
        BY <2>1, <4>1 DEF Committed
      <4>4. Len(past'[n]) = Len(past[n]) + 1
        BY <4>2, <4>3
      <4> QED BY <4>1, <4>4, <1>v DEF VersionOf
    <3> QED BY <3>1, <3>2, <3>3, <3>4 DEF HistoryPlaced
  <2>4. MirrorsPlaced' /\ \A t \in Tasks : Ahead(task[t])'
    BY <1>m, <1>s, <2>2
  <2>5. DiffsPlaced'
    BY <1>g, <1>d, <2>2, DiffsKept
  <2> QED BY <2>3, <2>4, <2>5 DEF Positions
<1>2. CASE WorkerReads
  <2> DEFINE record == history[cursor + 1]
             mine == leased \cap DOMAIN record
             scoped == [version |-> cursor + 1, changes |-> [n \in mine |-> record[n]]]
  <2>1. UNCHANGED <<source, network, subscriber>> /\ cursor + 1 \in 1 .. Len(history)
    BY <1>2, ElementsTyped DEF WorkerReads, Types, SourceTypes
  <2>2. Placed(scoped)
    BY <2>1 DEF Placed, Positions, HistoryPlaced
  <2>3. batch # None => Placed(Coalesce(batch, scoped))
    <3> SUFFICES ASSUME batch # None, NEW n \in DOMAIN batch.changes \cup mine
                 PROVE  n \in leased /\ Coalesce(batch, scoped).changes[n].version <= VersionOf(n)
      BY DEF Placed, Coalesce
    <3>1. \A c, e \in Change : MergeChange(c, e).version = e.version
      BY DEF MergeChange, Change
    <3>2. \A m \in mine : record[m] \in Change
      BY <2>1, ElementsTyped, PartialOut DEF Types, SourceTypes
    <3>3. batch \in Diff /\ Placed(batch)
      BY <1>d DEF DiffsPlaced, Types, DiffTypes
    <3>4. /\ Coalesce(batch, scoped).changes[n].version
                \in {batch.changes[n].version, record[n].version}
          /\ n \notin mine =>
               Coalesce(batch, scoped).changes[n].version = batch.changes[n].version
          /\ (n \in mine => Coalesce(batch, scoped).changes[n].version = record[n].version)
      BY <3>1, <3>2, <3>3, DiffTyped DEF Coalesce
    <3> QED BY <2>2, <3>3, <3>4 DEF Placed
  <2>4. /\ batch' \in {batch, scoped, Coalesce(batch, scoped)}
        /\ batch = None => batch' \in {batch, scoped}
    BY <1>2 DEF WorkerReads
  <2> HIDE DEF scoped, record, mine
  <2>5. batch' # None => Placed(batch')
    BY <1>d, <2>2, <2>3, <2>4 DEF DiffsPlaced
  <2>6. DiffsPlaced'
    BY <1>d, <2>1, <2>5 DEF DiffsPlaced, Placed, VersionOf
  <2> QED BY <1>h, <1>m, <1>s, <2>1, <2>6 DEF Positions
<1>3. CASE Deliver
  <2>1. DiffsPlaced'
    BY <1>d, <1>3 DEF Deliver, DiffsPlaced, Placed, VersionOf
  <2> QED BY <1>h, <1>m, <1>s, <1>3, <2>1 DEF Deliver, Positions
<1>4. ASSUME NEW diff \in delivering, FallBack(diff) PROVE Positions'
  <2>1. DiffsPlaced'
    BY <1>g, <1>d, <1>4, DiffsKept DEF FallBack
  <2> QED BY <1>h, <1>m, <1>s, <1>4, <2>1 DEF FallBack, Positions
<1>5. CASE SourceRestarts
  <2>1. DiffsPlaced'
    BY <1>g, <1>d, <1>5, DiffsKept DEF SourceRestarts
  <2> QED BY <1>h, <1>m, <1>s, <1>5, <2>1 DEF SourceRestarts, Positions
<1>6. CASE SubscriberRestarts
  <2>1. DiffsPlaced'
    BY <1>g, <1>d, <1>6, DiffsKept DEF SubscriberRestarts
  <2>2. \A t \in Tasks : Ahead(task[t])'
    <3>1. \A t \in Tasks : task'[t] = Idle
      BY <1>6 DEF SubscriberRestarts
    <3> QED BY <3>1 DEF Ahead, Idle, Receiving
  <2> QED BY <1>h, <1>m, <1>6, <2>1, <2>2 DEF SubscriberRestarts, Positions
<1>x. ASSUME NEW t \in Tasks, UNCHANGED <<past, history, mirror, leased, batch>>,
             (delivering \cup inflight \cup mailbox)'
                 \subseteq delivering \cup inflight \cup mailbox,
             NEW k, Ahead(k), task' = [task EXCEPT ![t] = k]
      PROVE  Positions'
  <2>1. k = task'[t] /\ k \in Task /\ Shaped(k)
    BY <1>x DEF Types, TaskTypes, Shaped, Receiving
  <2> QED BY <1>t, <1>x, <2>1
<1>7. ASSUME NEW t \in Handlers, NEW diff \in inflight, Accept(t, diff) PROVE Positions'
  <2> DEFINE k == [Idle EXCEPT !.goal = "push", !.at = "look", !.diff = diff]
  <2>1. Ahead(k) /\ t \in Tasks
    BY <1>d DEF Ahead, Idle, Receiving, DiffsPlaced, Tasks
  <2> HIDE DEF k
  <2> QED BY <1>7, <1>x, <2>1 DEF Accept, k
<1>8. ASSUME NEW t \in Handlers, NEW n \in Nodes, Link(t, n) PROVE Positions'
  <2> DEFINE k == [Idle EXCEPT !.goal = "link", !.at = "fetch", !.need = {n}]
  <2>1. Ahead(k) /\ t \in Tasks
    BY <1>8 DEF Link, Ahead, Idle, Receiving, Known, Tasks
  <2> HIDE DEF k
  <2> QED BY <1>8, <1>x, <2>1 DEF Link, k
<1>9. ASSUME NEW t \in Wakers, Wake(t) PROVE Positions'
  <2> DEFINE k == [Idle EXCEPT !.goal = "drain", !.at = "renew"]
  <2>1. Ahead(k) /\ t \in Tasks
    BY DEF Ahead, Idle, Receiving, Tasks
  <2> HIDE DEF k
  <2> QED BY <1>9, <1>x, <2>1 DEF Wake, k
<1>w. Mirrored \subseteq Known
  BY <1>v DEF Positions, MirrorsPlaced, Known, Mirrored
<1>10. ASSUME NEW t \in Tasks, Renew(t) PROVE Positions'
  <2> DEFINE k == [task[t] EXCEPT !.at = "subscribe", !.need = Mirrored]
  <2>1. Ahead(k)
    BY <1>10, <1>k, <1>w DEF Ahead, Renew, Receiving, Task
  <2>2. task' = [task EXCEPT ![t] = k]
    BY <1>10 DEF Renew, Types, TaskTypes, Task
  <2> HIDE DEF k
  <2> QED BY <1>10, <1>x, <2>1, <2>2 DEF Renew
<1>11. ASSUME NEW t \in Tasks, Subscribe(t) PROVE Positions'
  <2>0. PICK k : k = IF task[t].goal = "link" THEN Idle
                     ELSE [Idle EXCEPT !.goal = "drain", !.at = "list"]
    OBVIOUS
  <2>1. Ahead(k)'
    BY <2>0 DEF Ahead, Idle, Receiving
  <2>2. MirrorsPlaced'
    BY <1>k, <1>11 DEF Subscribe, Positions, MirrorsPlaced, Mirrored, Ahead, VersionOf
  <2>3. task' = [task EXCEPT ![t] = k]
    BY <1>11, <2>0 DEF Subscribe
  <2>4. \A q \in Tasks : Ahead(task[q])'
    BY <1>g, <2>1, <2>3, TasksAhead
  <2> QED BY <1>g, <1>d, <1>h, <1>11, <2>2, <2>4, DiffsKept DEF Subscribe, Positions
<1>12. ASSUME NEW t \in Tasks, List(t) PROVE Positions'
  <2> DEFINE k == Drains(IF token THEN mailbox ELSE {})
  <2>1. Ahead(k)
    BY <1>d, DrainsAhead DEF DiffsPlaced, Types, DiffTypes
  <2> HIDE DEF k
  <2> QED BY <1>12, <1>x, <2>1 DEF List, k
<1>13. ASSUME NEW t \in Tasks, Look(t) PROVE Positions'
  <2> DEFINE diff == task[t].diff
             need == {n \in DOMAIN diff.changes : NeedsSnapshot(n, diff.changes[n])}
             j == [task[t] EXCEPT !.need = need]
             k == Onward(j)
  <2>1. Receiving(task[t]) /\ diff \in Diff /\ Placed(diff)
    BY <1>13, <1>k DEF Look, Shaped, Ahead
  <2>2. need \subseteq Known /\ Behind(diff) \subseteq need
    BY <1>w DEF NeedsSnapshot, Later, Behind
  <2>3. j \in Task
    BY <1>k, <2>2 DEF Task, Known
  <2>4. j.goal = task[t].goal /\ j.need = need /\ j.page = task[t].page /\ j.diff = diff
    BY <1>k DEF Task
  <2>5. Ahead(k)
    <3> HIDE DEF need, diff, j
    <3> QED BY <1>k, <2>1, <2>2, <2>3, <2>4, OnwardAhead DEF Ahead, Receiving
  <2> HIDE DEF k
  <2> QED BY <1>13, <1>x, <2>5 DEF Look, k
<1>14. ASSUME NEW t \in Tasks, Fetch(t) PROVE Positions'
  <2>1. PICK n \in task[t].need :
       task' = [task EXCEPT ![t].at = "link",
                  ![t].snapshot = [node |-> n, version |-> VersionOf(n),
                                   gone |-> ~Live(n), content |-> ContentOf(n)]]
    BY <1>14 DEF Fetch
  <2> DEFINE s == [node |-> n, version |-> VersionOf(n), gone |-> ~Live(n),
                  content |-> ContentOf(n)]
             k == [task[t] EXCEPT !.at = "link", !.snapshot = s]
  <2>2. task' = [task EXCEPT ![t] = k]
    BY <1>k, <2>1 DEF Task, Types, TaskTypes
  <2>3. task[t].at = "fetch" /\ n \in Known /\ s.version = VersionOf(n) /\ s.node = n
    BY <1>14, <1>k DEF Fetch, Ahead
  <2> HIDE DEF s
  <2>4. /\ k.at = "link" /\ k.snapshot = s /\ k.need = task[t].need /\ k.page = task[t].page
        /\ k.diff = task[t].diff /\ k.goal = task[t].goal
    BY <1>k DEF Task
  <2> HIDE DEF k
  <2>5. Ahead(k)
    BY <1>k, <1>v, <2>3, <2>4 DEF Ahead, Receiving, Known, Placed
  <2> QED BY <1>14, <1>x, <2>2, <2>5 DEF Fetch
<1>15. ASSUME NEW t \in Tasks, DeleteItem(t) PROVE Positions'
  <2> DEFINE k == Drains(task[t].page \ {task[t].diff})
  <2>1. Ahead(k)
    BY <1>k, DrainsAhead DEF Task, Ahead
  <2> HIDE DEF k
  <2> QED BY <1>15, <1>x, <2>1 DEF DeleteItem, k
<1>16. ASSUME NEW t \in Tasks, Check(t) PROVE Positions'
  <2> DEFINE j == [task[t] EXCEPT !.need = Stale]
             k == Onward(j)
  <2>1. Stale \subseteq Known /\ Stale \subseteq Nodes
    BY <1>w DEF Stale, Mirrored
  <2>2. j \in Task /\ j.goal = "repair" /\ j.need = Stale /\ j.page = task[t].page
    BY <1>16, <1>k, <2>1 DEF Task, Check, Shaped
  <2>3. Ahead(k)
    <3> HIDE DEF j
    <3> QED BY <1>k, <2>1, <2>2, OnwardAhead DEF Ahead, Receiving
  <2> HIDE DEF k
  <2> QED BY <1>16, <1>x, <2>3 DEF Check, k
<1>17. ASSUME NEW t \in Tasks, Open(t) \/ Fail(t) PROVE Positions'
  BY <1>17, <1>i, <1>x DEF Open, Fail
<1>18. ASSUME NEW t \in Tasks, Install(t) PROVE Positions'
  <2> DEFINE s == task[t].snapshot
  <2>1. s \in Snapshot /\ s.version \in 1 .. VersionOf(s.node) /\ task[t].at = "link"
        /\ s.node \in Nodes
    BY <1>18, <1>k DEF Install, Shaped, Ahead, Snapshot
  <2>2. Linked(s).version = s.version /\ Linked(s) # None
    BY <1>v, <2>1, LinkedTyped, NoneAssumption DEF Linked, Types
  <2>3. /\ \A n \in Nodes \ {s.node} : mirror'[n] = mirror[n]
        /\ s.node \in Mirrored'
        /\ mirror'[s.node] = mirror[s.node] \/ mirror'[s.node].version = s.version
        /\ mirror'[s.node].version >= s.version
    <3>1. mirror' = IF KeepsMirror(s) THEN mirror ELSE [mirror EXCEPT ![s.node] = Linked(s)]
      BY <1>18 DEF Install
    <3>2. CASE KeepsMirror(s)
      BY <2>1, <3>1, <3>2 DEF KeepsMirror, Mirrored
    <3>3. CASE ~KeepsMirror(s)
      <4>1. mirror'[s.node] = Linked(s)
        BY <2>1, <3>1, <3>3 DEF Types, MirrorTypes
      <4> QED BY <1>v, <2>1, <2>2, <3>1, <3>3, <4>1 DEF Mirrored
    <3> QED BY <3>2, <3>3
  <2>4. UNCHANGED <<source, worker, network>>
    BY <1>18 DEF Install
  <2>5. MirrorsPlaced'
    BY <1>v, <2>1, <2>3, <2>4 DEF Positions, MirrorsPlaced, Mirrored, VersionOf
  <2>a. PICK j : j = [task[t] EXCEPT !.need = task[t].need \ {s.node}]
    OBVIOUS
  <2>b. PICK k : k = Onward(j)
    OBVIOUS
  <2>c. task' = [task EXCEPT ![t] = k]
    BY <1>18, <2>a, <2>b DEF Install
  <2>6. /\ j \in Task /\ j.goal = task[t].goal /\ j.need = task[t].need \ {s.node}
        /\ j.page = task[t].page /\ j.diff = task[t].diff
    BY <1>k, <2>a DEF Task
  <2>7. j.goal # "none" /\ j.need \subseteq Known' /\ \A diff \in j.page : Placed(diff)'
    BY <1>g, <1>k, <2>1, <2>6, PlacedGrows, <1>v DEF Shaped, Ahead, Known, Grows, Task
  <2>8. ASSUME Receiving(j) PROVE Placed(j.diff)' /\ Behind(j.diff)' \subseteq j.need
    <3>1. /\ task[t].diff \in Diff /\ Placed(task[t].diff)
          /\ Behind(task[t].diff) \subseteq task[t].need
          /\ s.node \in DOMAIN task[t].diff.changes =>
               task[t].diff.changes[s.node].version <= s.version
      BY <1>k, <2>1, <2>6, <2>8 DEF Ahead, Shaped, Receiving
    <3>2. Placed(j.diff)' /\ Behind(j.diff)' \subseteq Behind(j.diff)
      BY <1>g, <2>6, <3>1, PlacedGrows, BehindGrows
    <3>3. s.node \notin Behind(j.diff)'
      <4>1. ASSUME s.node \in DOMAIN j.diff.changes
            PROVE  j.diff.changes[s.node].version <= mirror'[s.node].version
                   /\ j.diff.changes[s.node].version \in Nat
        <5>1. j.diff.changes[s.node].version <= s.version /\ j.diff.changes[s.node].version \in Nat
          BY <2>6, <3>1, <4>1, DiffTyped
        <5> QED BY <1>v, <2>1, <2>3, <5>1
      <4>2. mirror'[s.node].version \in Nat
        BY <1>v, <2>1, <2>3
      <4>3. PICK n : n = s.node
        OBVIOUS
      <4>4. n \notin Behind(j.diff)'
        BY <4>1, <4>2, <4>3 DEF Behind, Later
      <4> QED BY <4>3, <4>4
    <3> QED BY <2>6, <3>1, <3>2, <3>3
  <2> HIDE DEF s
  <2>9. Ahead(k)'
    BY <2>6, <2>7, <2>8, <2>b, OnwardAhead
  <2>10. \A q \in Tasks : Ahead(task[q])'
    BY <1>g, <2>9, <2>c, TasksAhead
  <2> QED BY <1>g, <1>d, <1>h, <2>4, <2>5, <2>10, DiffsKept DEF Positions
<1>19. ASSUME NEW t \in Tasks, Apply(t) PROVE Positions'
  <2>0. PICK diff \in Diff : diff = task[t].diff
    BY <1>19, <1>k DEF Apply, Shaped
  <2>1. Placed(diff) /\ task[t].at = "apply"
    BY <1>19, <1>k, <2>0 DEF Apply, Shaped, Ahead
  <2>a. PICK k : k = IF task[t].goal = "push" \/ Refused(diff) THEN Idle
                     ELSE [task[t] EXCEPT !.at = "delete"]
    OBVIOUS
  <2>2. /\ UNCHANGED <<source, worker, inflight, mailbox>> /\ task' = [task EXCEPT ![t] = k]
        /\ delivering' \subseteq delivering
        /\ mirror' = IF Refused(diff) THEN mirror ELSE ApplyDiff(diff)
    BY <1>19, <2>0, <2>a DEF Apply
  <2>3. \A n \in Nodes :
          \/ mirror'[n] = mirror[n]
          \/ /\ n \in DOMAIN diff.changes /\ Later(n, diff.changes[n])
             /\ mirror'[n] = Updated(mirror[n], diff.changes[n])
    BY <2>2 DEF ApplyDiff
  <2>4. ASSUME NEW n \in Mirrored, NEW c PROVE Updated(mirror[n], c).version = c.version
    BY DEF Updated, Types, MirrorTypes, Mirrored, Mirror
  <2>5. ASSUME NEW n \in Nodes
        PROVE  \/ mirror'[n] = mirror[n]
               \/ /\ n \in Mirrored /\ n \in DOMAIN diff.changes
                  /\ mirror'[n].version = diff.changes[n].version
    <3>1. CASE mirror'[n] # mirror[n]
      <4>1. /\ n \in Mirrored /\ n \in DOMAIN diff.changes
            /\ mirror'[n] = Updated(mirror[n], diff.changes[n])
        BY <2>3, <3>1 DEF Later
      <4> QED BY <2>4, <4>1
    <3> QED BY <3>1
  <2>6. MirrorsPlaced'
    <3>1. leased' \subseteq Mirrored'
      BY <1>g, <2>2 DEF Positions, MirrorsPlaced, Grows
    <3>2. \A n \in Mirrored' : mirror'[n].version <= VersionOf(n)
      BY <2>1, <2>5 DEF Positions, MirrorsPlaced, Mirrored, Placed
    <3> QED BY <2>2, <3>1, <3>2 DEF MirrorsPlaced, VersionOf
  <2>7. Ahead(k)'
    <3>1. CASE k = Idle
      BY <3>1 DEF Ahead, Idle, Receiving
    <3>2. CASE k # Idle
      <4>1. ~Refused(diff) /\ k = [task[t] EXCEPT !.at = "delete"]
        BY <2>a, <3>2
      <4>2. ASSUME NEW n \in DOMAIN diff.changes PROVE ~Later(n, diff.changes[n])'
        <5>0. n \in Nodes /\ diff.changes[n].version \in Nat
          BY DiffTyped
        <5>1. CASE Later(n, diff.changes[n])
          <6>1. mirror'[n] = Updated(mirror[n], diff.changes[n])
            BY <2>2, <4>1, <5>0, <5>1 DEF ApplyDiff
          <6>2. mirror'[n].version = diff.changes[n].version
            BY <2>4, <5>1, <6>1 DEF Later
          <6> QED BY <5>0, <6>2 DEF Later
        <5>2. CASE ~Later(n, diff.changes[n])
          BY <1>g, <2>1, <5>2, LaterGrows
        <5> QED BY <5>1, <5>2
      <4>3. Placed(diff)' /\ \A d \in task[t].page : Placed(d)'
        BY <1>g, <1>k, <2>1, PlacedGrows DEF Ahead, Task
      <4>4. /\ k.at = "delete" /\ k.need = task[t].need /\ k.page = task[t].page /\ k.diff = diff
            /\ task[t].need \subseteq Known'
        BY <1>g, <1>v, <1>k, <2>0, <4>1 DEF Task, Ahead, Known, Grows
      <4> QED BY <4>2, <4>3, <4>4 DEF Ahead
    <3> QED BY <3>1, <3>2
  <2>8. \A q \in Tasks : Ahead(task[q])'
    BY <1>g, <2>2, <2>7, TasksAhead
  <2> QED BY <1>g, <1>d, <1>h, <2>2, <2>6, <2>8, DiffsKept DEF Positions
<1> HIDE DEF source, worker, network, subscriber
<1> QED
  BY Zenon, <1>1, <1>2, <1>3, <1>4, <1>5, <1>6, <1>7, <1>8, <1>9, <1>10, <1>11, <1>12, <1>13,
     <1>14, <1>15, <1>16, <1>17, <1>18, <1>19
  DEF Next, Step

-----------------------------------------------------------------------------
\* The types and the positions hold at first.
LEMMA InitPlaced == Init => Types /\ Positions
<1> SUFFICES ASSUME Init PROVE Types /\ Positions
  OBVIOUS
<1>1. SourceTypes
  BY LinkedAssumption DEF Init, SourceTypes, Counted, VersionOf
<1>2. DiffTypes /\ MirrorTypes
  BY DEF Init, DiffTypes, MirrorTypes
<1>3. TaskTypes
  BY IdleTyped DEF Init, TaskTypes, Shaped, Receiving, Idle
<1>4. HistoryPlaced /\ MirrorsPlaced /\ DiffsPlaced
  BY DEF Init, HistoryPlaced, MirrorsPlaced, DiffsPlaced, Mirrored
<1>5. \A t \in Tasks : Ahead(task[t])
  BY DEF Init, Ahead, Idle, Receiving
<1> QED BY <1>1, <1>2, <1>3, <1>4, <1>5 DEF Types, Positions

\* The types and the positions hold after a step that changes nothing.
LEMMA PlacedStutters == ASSUME Types, Positions, UNCHANGED vars PROVE Types' /\ Positions'
<1> USE DEF vars, source, worker, network, subscriber
<1>1. Types'
  BY DEF Types, SourceTypes, DiffTypes, MirrorTypes, TaskTypes, Counted, VersionOf, Shaped,
      Receiving
<1>2. Positions'
  BY DEF Positions, HistoryPlaced, MirrorsPlaced, DiffsPlaced, Ahead, Placed, Behind, Later, Gap,
         Known, Mirrored, Receiving, VersionOf
<1> QED BY <1>1, <1>2

\* The types and the positions hold in every reachable state.
LEMMA PlacedInvariant == Spec => [](Types /\ Positions)
<1>1. Types /\ Positions /\ [Next]_vars => (Types /\ Positions)'
  BY TypeStep, PositionsStep, PlacedStutters
<1> QED BY InitPlaced, <1>1, PTL DEF Spec

\* Every variable has its type in every reachable state.
THEOREM TypeCorrect == Spec => []TypeOK
<1>1. Types => TypeOK
  BY DEF Types, SourceTypes, DiffTypes, TaskTypes, MirrorTypes, TypeOK
<1> QED BY PlacedInvariant, <1>1, PTL

\* What receive looked up before its fetches is still enough when apply_diff looks
\* again: no diff is refused for a gap, whatever tasks, restarts and losses came between.
THEOREM ReceiveNeverRefusesTheorem == Spec => []ReceiveNeverRefuses
<1>1. Types /\ Positions => ReceiveNeverRefuses
  <2> SUFFICES ASSUME Types, Positions, NEW t \in Tasks, task[t].at = "apply"
               PROVE  ~Refused(task[t].diff)
    BY DEF ReceiveNeverRefuses
  <2>1. Behind(task[t].diff) = {}
    BY DEF Positions, Ahead
  <2> QED BY <2>1 DEF Behind, Refused
<1> QED BY PlacedInvariant, <1>1, PTL

\* drain deletes an item only when every mirror has reached the version it carries.
THEOREM MailboxKeepsUnappliedTheorem == Spec => MailboxKeepsUnapplied
<1> DEFINE Reached(diff) ==
      \A n \in DOMAIN diff.changes : n \in Mirrored /\ mirror[n].version >= diff.changes[n].version
<1>1. ASSUME Types, Positions, [Next]_vars
      PROVE  [\A diff \in mailbox \ mailbox' : Reached(diff)]_vars
  <2> SUFFICES ASSUME Next, NEW diff \in mailbox, diff \notin mailbox' PROVE Reached(diff)
    BY <1>1
  <2>1. PICK t \in Tasks : DeleteItem(t)
    BY DEF Next, Step, Commit, WorkerReads, Deliver, FallBack, SourceRestarts, SubscriberRestarts,
       Accept, Link, Wake, Renew, Subscribe, List, Look, Fetch, Install, Apply, Check, Open, Fail,
       source, worker, network, subscriber
  <2>2. diff = task[t].diff /\ task[t].at = "delete"
    BY <2>1 DEF DeleteItem
  <2>3. diff \in Diff /\ Placed(diff) /\ \A n \in DOMAIN diff.changes : ~Later(n, diff.changes[n])
    BY <1>1, <2>2 DEF Types, TaskTypes, Shaped, Positions, Ahead
  <2>4. ASSUME NEW n \in DOMAIN diff.changes
        PROVE  n \in Mirrored /\ mirror[n].version >= diff.changes[n].version
    <3>1. n \in Mirrored
      BY <1>1, <2>3 DEF Placed, Positions, MirrorsPlaced
    <3>2. mirror[n].version \in Nat
      BY <1>1, <3>1, LinkedAssumption DEF Types, MirrorTypes, Mirrored, Mirror, Version
    <3> QED BY <2>3, <3>1, <3>2, DiffTyped DEF Later
  <2> QED BY <2>4
<1> QED BY PlacedInvariant, <1>1, PTL DEF Spec, MailboxKeepsUnapplied

-----------------------------------------------------------------------------
(* The contents, and the refinement of Replica.                            *)

\* A node that is gone has no fields.
GoneBlank ==
  \A n \in Nodes : \A v \in 1 .. VersionOf(n) : past[n][v].gone => past[n][v].content = Blank

\* The content of a node before a version of it.
Before(n, v) == IF v = 1 THEN Blank ELSE past[n][v - 1].content

\* A change says what its version of the node is, by what it was before.
Sound(n, change) ==
  /\ past[n][change.version].gone <=> change.kind = "delete"
  /\ change.kind = "upsert" =>
       /\ \A f \in Fields : past[n][change.version].content[f] =
            IF f \in DOMAIN change.fields THEN change.fields[f] ELSE Before(n, change.version)[f]
       /\ change.version > 1 => ~past[n][change.version - 1].gone

\* Every change of a diff is sound.
SoundDiff(diff) == \A n \in DOMAIN diff.changes : Sound(n, diff.changes[n])

\* A snapshot is the node at the version it was fetched at.
SoundSnapshot(s) ==
  /\ s.gone = past[s.node][s.version].gone
  /\ ~s.gone => s.content = past[s.node][s.version].content

\* Every record of the history is sound.
HistorySound ==
  \A i \in 1 .. Len(history) : \A n \in DOMAIN history[i] : Sound(n, history[i][n])

\* Record i holds the last change of n among the first m.
LastOf(n, i, m) ==
  /\ i \in 1 .. m /\ n \in DOMAIN history[i]
  /\ \A j \in i + 1 .. m : n \notin DOMAIN history[j]

\* The history has every version of a node, in their order.
Chained ==
  \A n \in Nodes :
    /\ \A m \in 1 .. Len(history) : \A i \in 1 .. m - 1 :
         LastOf(n, i, m - 1) /\ n \in DOMAIN history[m] =>
           history[m][n].version = history[i][n].version + 1
    /\ \A i \in 1 .. Len(history) :
         LastOf(n, i, Len(history)) => history[i][n].version = VersionOf(n)

\* The window the worker coalesces ends with the last changes it has read.
BatchLast ==
  batch # None =>
    \A n \in DOMAIN batch.changes : \E i \in 1 .. cursor :
      LastOf(n, i, cursor) /\ history[i][n].version = batch.changes[n].version

\* Every diff that is anywhere between the two sides is sound.
DiffsSound ==
  /\ batch # None => SoundDiff(batch)
  /\ \A diff \in delivering \cup inflight \cup mailbox : SoundDiff(diff)

\* The diffs a task still has to apply.
Carried(k) ==
  k.page \cup {diff \in {k.diff} : k.at \in {"look", "fetch", "link", "apply"} /\ Receiving(k)}

\* A task carries sound diffs and sound snapshots.
SoundTask(k) ==
  /\ \A diff \in Carried(k) : SoundDiff(diff)
  /\ \A s \in {k.snapshot} : k.at = "link" => SoundSnapshot(s)

\* What the two sides hold, and why it is right: the inductive part of MirrorIsPast.
Contents ==
  /\ GoneBlank /\ HistorySound /\ Chained /\ BatchLast /\ DiffsSound /\ MirrorIsPast
  /\ \A t \in Tasks : SoundTask(task[t])

\* Where no version is added, what is sound is what was.
LEMMA SoundSame == ASSUME UNCHANGED past, NEW n, NEW c PROVE Sound(n, c)' <=> Sound(n, c)
BY DEF Sound, Before

\* So are diffs.
LEMMA SoundDiffSame == ASSUME UNCHANGED past, NEW diff PROVE SoundDiff(diff)' <=> SoundDiff(diff)
BY SoundSame DEF SoundDiff

\* And the records of the history.
LEMMA RecordsSame ==
  ASSUME GoneBlank, HistorySound, Chained, UNCHANGED past, UNCHANGED history
  PROVE  GoneBlank' /\ HistorySound' /\ Chained'
<1>1. GoneBlank'
  BY DEF GoneBlank, VersionOf
<1>2. HistorySound'
  BY SoundSame DEF HistorySound
<1>3. Chained'
  <2>1. \A n, i, m : LastOf(n, i, m)' <=> LastOf(n, i, m)
    BY DEF LastOf
  <2>2. \A n : VersionOf(n)' = VersionOf(n)
    BY DEF VersionOf
  <2> QED BY <2>1, <2>2 DEF Chained
<1> QED BY <1>1, <1>2, <1>3

\* And tasks.
LEMMA SoundTaskSame == ASSUME UNCHANGED past, NEW k PROVE SoundTask(k)' <=> SoundTask(k)
<1>1. \A s : SoundSnapshot(s)' <=> SoundSnapshot(s)
  BY DEF SoundSnapshot
<1>2. \A diff : SoundDiff(diff)' <=> SoundDiff(diff)
  BY SoundDiffSame
<1>3. Carried(k)' = Carried(k)
  BY DEF Carried, Receiving
<1> QED BY <1>1, <1>2, <1>3 DEF SoundTask

\* A change that is sound stays sound: the past does not change.
LEMMA SoundGrows ==
  ASSUME Types, Types', Grows, NEW n \in Nodes, NEW c \in Change,
         c.version <= VersionOf(n), Sound(n, c)
  PROVE  Sound(n, c)'
<1>1. c.version \in 1 .. VersionOf(n)
  BY VersionsTyped, LinkedAssumption DEF Change, Version
<1>2. VersionOf(n) \in Nat
  BY VersionsTyped
<1>3. past'[n][c.version] = past[n][c.version]
  BY <1>1 DEF Grows
<1>4. c.version > 1 => past'[n][c.version - 1] = past[n][c.version - 1]
  BY <1>1, <1>2 DEF Grows
<1>5. Before(n, c.version)' = Before(n, c.version)
  BY <1>1, <1>2, <1>4 DEF Before, Blank
<1> QED BY <1>3, <1>4, <1>5 DEF Sound

\* A diff that is sound stays sound.
LEMMA SoundDiffGrows ==
  ASSUME Types, Types', Grows, NEW diff \in Diff, Placed(diff), SoundDiff(diff)
  PROVE  SoundDiff(diff)'
BY DiffTyped, SoundGrows DEF Placed, SoundDiff

\* What a task carries stays sound.
LEMMA SoundTaskGrows ==
  ASSUME Types, Types', Grows, NEW k \in Task, Shaped(k), Ahead(k), SoundTask(k)
  PROVE  SoundTask(k)'
<1>1. \A diff \in Carried(k) : diff \in Diff /\ Placed(diff) /\ SoundDiff(diff)
  BY DEF Task, Ahead, Shaped, SoundTask, Carried
<1>2. \A diff \in Carried(k) : SoundDiff(diff)'
  BY <1>1, SoundDiffGrows
<1>3. ASSUME k.at = "link" PROVE SoundSnapshot(k.snapshot)'
  <2>1. k.snapshot.node \in Nodes /\ k.snapshot.version \in 1 .. VersionOf(k.snapshot.node)
    BY <1>3 DEF Shaped, Ahead, Snapshot
  <2> QED BY <1>3, <2>1 DEF SoundTask, SoundSnapshot, Grows
<1> QED BY <1>2, <1>3 DEF SoundTask, Carried, Receiving

\* A step that moves one task to a sound one leaves all of them sound.
LEMMA TasksSound ==
  ASSUME Types, Types', Positions, Contents, Grows,
         NEW t \in Tasks, NEW k, task' = [task EXCEPT ![t] = k], SoundTask(k)'
  PROVE  \A q \in Tasks : SoundTask(task[q])'
<1> SUFFICES ASSUME NEW q \in Tasks PROVE SoundTask(task[q])'
  OBVIOUS
<1>1. CASE q = t
  <2>1. task'[q] = k
    BY <1>1 DEF Types, TaskTypes
  <2> QED BY <2>1 DEF SoundTask, Carried, Receiving
<1>2. CASE q # t
  <2>1. task'[q] = task[q] /\ task[q] \in Task /\ Shaped(task[q]) /\ Ahead(task[q])
        /\ SoundTask(task[q])
    BY <1>2 DEF Types, TaskTypes, Positions, Contents
  <2>2. PICK j \in Task : j = task[q]
    BY <2>1
  <2>3. SoundTask(j)'
    BY <2>1, <2>2, SoundTaskGrows
  <2> QED BY <2>1, <2>2, <2>3 DEF SoundTask, Carried, Receiving
<1> QED BY <1>1, <1>2

\* A step that adds no diff leaves all of them sound.
LEMMA SoundKept ==
  ASSUME Types, Types', Positions, Grows, DiffsSound, batch' \in {batch, None},
         (delivering \cup inflight \cup mailbox)' \subseteq delivering \cup inflight \cup mailbox
  PROVE  DiffsSound'
<1>1. \A diff \in delivering \cup inflight \cup mailbox : SoundDiff(diff)'
  BY SoundDiffGrows DEF DiffsSound, Types, DiffTypes, Positions, DiffsPlaced
<1>2. ASSUME batch' # None PROVE SoundDiff(batch)'
  <2>1. PICK diff \in Diff : diff = batch' /\ diff = batch
    BY <1>2 DEF Types, DiffTypes
  <2>2. SoundDiff(diff)'
    BY <1>2, <2>1, SoundDiffGrows DEF DiffsSound, Positions, DiffsPlaced
  <2> SUFFICES ASSUME NEW n \in DOMAIN batch'.changes PROVE Sound(n, batch.changes[n])'
    BY DEF SoundDiff
  <2>3. PICK c : c = batch'.changes[n]
    OBVIOUS
  <2>4. Sound(n, c)'
    BY <2>1, <2>2, <2>3 DEF SoundDiff
  <2> QED BY <2>3, <2>4 DEF Sound, Before
<1> QED BY <1>1, <1>2 DEF DiffsSound

\* A diff applied to a mirror one version before it makes the version it tells of.
LEMMA AppliesSound ==
  ASSUME Types, Positions, MirrorIsPast, NEW n \in Mirrored, NEW c \in Change,
         c.version <= VersionOf(n), Sound(n, c), Later(n, c), ~Gap(n, c)
  PROVE  LET m == Updated(mirror[n], c)
         IN  /\ m.version = c.version /\ m.gone = past[n][c.version].gone
             /\ ~m.gone => m.content = past[n][c.version].content
<1>1. /\ mirror[n] \in Mirror /\ mirror[n].version \in Nat \ {0} /\ n \in Nodes
      /\ mirror[n].version <= VersionOf(n) /\ VersionOf(n) \in Nat
  BY VersionsTyped, LinkedAssumption
      DEF Types, MirrorTypes, Mirrored, Mirror, Version, Positions, MirrorsPlaced
<1>2. c.version \in Nat /\ c.version = mirror[n].version + 1
  BY <1>1, LinkedAssumption DEF Later, Gap, Change, Version
<1>a. c.version \in 1 .. VersionOf(n) /\ c.version - 1 \in 1 .. VersionOf(n)
      /\ c.version - 1 = mirror[n].version
  BY <1>1, <1>2
<1>3. past[n][c.version].gone \in BOOLEAN /\ past[n][c.version].content \in Content
      /\ past[n][c.version - 1].content \in Content
  BY <1>1, <1>a, SourceTyped DEF Types
<1>4. CASE c.kind = "delete"
  BY <1>1, <1>3, <1>4 DEF Updated, Sound, Mirror
<1>5. CASE c.kind = "upsert"
  <2>1. ~past[n][c.version - 1].gone /\ c.version > 1
    BY <1>1, <1>2, <1>5 DEF Sound
  <2>2. mirror[n].content = past[n][c.version - 1].content
    BY <1>a, <2>1 DEF MirrorIsPast
  <2>3. Over(mirror[n].content, c.fields) \in Content
    BY <1>1, OverContent DEF Mirror, Change
  <2>4. ASSUME NEW f \in Fields
        PROVE  Over(mirror[n].content, c.fields)[f] = past[n][c.version].content[f]
    <3>1. Over(mirror[n].content, c.fields)[f]
          = IF f \in DOMAIN c.fields THEN c.fields[f] ELSE mirror[n].content[f]
      BY <1>1 DEF Over, Mirror, Content
    <3>2. Before(n, c.version) = mirror[n].content
      BY <2>1, <2>2 DEF Before
    <3>3. past[n][c.version].content[f]
          = IF f \in DOMAIN c.fields THEN c.fields[f] ELSE Before(n, c.version)[f]
      BY <1>5 DEF Sound
    <3> QED BY <3>1, <3>2, <3>3
  <2>5. Over(mirror[n].content, c.fields) = past[n][c.version].content
    BY <1>3, <2>3, <2>4 DEF Content
  <2>6. ~past[n][c.version].gone
    BY <1>5 DEF Sound
  <2> QED BY <1>3, <1>5, <2>5, <2>6 DEF Updated
<1> QED BY <1>4, <1>5 DEF Change

\* Two changes of a node, one after the other, are one sound change.
LEMMA MergesSound ==
  ASSUME Types, NEW n \in Nodes, NEW a \in Change, NEW b \in Change,
         Sound(n, a), Sound(n, b), b.version = a.version + 1, b.version <= VersionOf(n)
  PROVE  Sound(n, MergeChange(a, b))
<1>1. CASE ~(a.kind = "upsert" /\ b.kind = "upsert")
  BY <1>1 DEF MergeChange
<1>2. CASE a.kind = "upsert" /\ b.kind = "upsert"
  <2> DEFINE c == MergeChange(a, b)
  <2>1. c.version = b.version /\ c.kind = b.kind /\ c.fields = Over(a.fields, b.fields)
    BY <1>2 DEF MergeChange, Change
  <2>2. a.version \in Nat \ {0}
    BY LinkedAssumption DEF Change, Version
  <2>3. Before(n, b.version) = past[n][a.version].content
    BY <2>2 DEF Before
  <2>4. ASSUME NEW f \in Fields
        PROVE  past[n][c.version].content[f] =
                 IF f \in DOMAIN c.fields THEN c.fields[f] ELSE Before(n, c.version)[f]
    BY <1>2, <2>1, <2>3 DEF Sound, Over
  <2> QED BY <1>2, <2>1, <2>4 DEF Sound
<1> QED BY <1>1, <1>2

-----------------------------------------------------------------------------
\* The history only grows, and what it had stays: a record is last among the
\* first m, or is not, for good.
LEMMA LastKept ==
  ASSUME NEW n, NEW i, NEW m \in Nat, i \in Nat,
         \A j \in 1 .. m : history'[j] = history[j]
  PROVE  LastOf(n, i, m)' <=> LastOf(n, i, m)
BY DEF LastOf

\* A commit keeps the history sound and its versions in a row (reconcile, write).
LEMMA CommitSound ==
  ASSUME ~Reloads, Types, Types', Positions, Contents, Grows, NEW record, Committed(record)
  PROVE  GoneBlank' /\ HistorySound' /\ Chained'
<1>1. history \in Seq(Partial(Nodes, Change)) /\ Len(history) \in Nat
      /\ \A i \in 1 .. Len(history) : history[i] \in Partial(Nodes, Change)
  BY ElementsTyped DEF Types, SourceTypes
<1>l. PICK L \in Nat : L = Len(history)
  BY <1>1
<1>2. /\ Len(history') = L + 1 /\ history'[L + 1] = record
      /\ \A i \in 1 .. L : history'[i] = history[i]
  BY <1>1, <1>l DEF Committed
<1>3. ASSUME NEW n \in DOMAIN record
      PROVE  /\ n \in Nodes /\ record[n] \in Changes(n) /\ record[n].version = VersionOf(n) + 1
             /\ VersionOf(n)' = VersionOf(n) + 1
             /\ past'[n][VersionOf(n) + 1] = After(n, record[n])
             /\ \A v \in 1 .. VersionOf(n) : past'[n][v] = past[n][v]
  <2>1. n \in Nodes /\ record[n] \in Changes(n) /\ record[n].version = VersionOf(n) + 1
    BY DEF Committed, Changes, Upserts, Delete
  <2>2. past[n] \in Seq([gone : BOOLEAN, content : Content])
    BY <2>1 DEF Types, SourceTypes
  <2>3. past'[n] = Append(past[n], After(n, record[n]))
    BY <2>1 DEF Committed
  <2> QED BY <2>1, <2>2, <2>3 DEF VersionOf
<1>4. ASSUME NEW n \in Nodes, n \notin DOMAIN record
      PROVE  past'[n] = past[n] /\ VersionOf(n)' = VersionOf(n)
  BY <1>4 DEF Committed, VersionOf
<1>5. GoneBlank'
  <2> SUFFICES ASSUME NEW n \in Nodes, NEW v \in 1 .. VersionOf(n)', past'[n][v].gone
               PROVE  past'[n][v].content = Blank
    BY DEF GoneBlank, Blank
  <2>1. CASE n \in DOMAIN record /\ v = VersionOf(n) + 1
    <3>1. past'[n][v] = After(n, record[n])
      BY <1>3, <2>1
    <3> QED BY <3>1 DEF After
  <2>2. CASE n \in DOMAIN record /\ v # VersionOf(n) + 1
    <3>1. v \in 1 .. VersionOf(n) /\ past'[n][v] = past[n][v]
      BY <1>3, <2>2, VersionsTyped
    <3> QED BY <3>1 DEF Contents, GoneBlank
  <2>3. CASE n \notin DOMAIN record
    BY <1>4, <2>3 DEF Contents, GoneBlank
  <2> QED BY <2>1, <2>2, <2>3
<1>6. HistorySound'
  <2>1. ASSUME NEW i \in 1 .. L, NEW n \in DOMAIN history[i] PROVE Sound(n, history[i][n])'
    <3>1. PICK c \in Change : c = history[i][n] /\ n \in Nodes
      BY <1>1, <1>l, PartialOut
    <3>2. c.version <= VersionOf(n) /\ Sound(n, c)
      BY <1>l, <3>1 DEF Positions, HistoryPlaced, Contents, HistorySound
    <3>3. Sound(n, c)'
      BY <3>1, <3>2, SoundGrows
    <3>4. c = history'[i][n]
      BY <1>2, <3>1
    <3> QED BY <3>3, <3>1 , <1>2 DEF Sound, Before, Blank
  <2>2. ASSUME NEW n \in DOMAIN record, NEW c, c = record[n] PROVE Sound(n, c)'
    <3>1. c.version = VersionOf(n) + 1 /\ n \in Nodes /\ VersionOf(n) \in Nat
      BY <1>3, <2>2, VersionsTyped
    <3>2. past'[n][c.version] = After(n, c)
      BY <1>3, <2>2, <3>1
    <3>3. CASE c = Delete(n)
      BY <3>2, <3>3 DEF After, Delete, Sound
    <3>4. CASE c \in Upserts(n) /\ (Live(n) \/ VersionOf(n) = 0)
      <4>1. c.kind = "upsert" /\ ~past'[n][c.version].gone
            /\ past'[n][c.version].content = Over(ContentOf(n), c.fields)
        BY <3>2, <3>4 DEF After, Upserts
      <4>2. ContentOf(n) = Before(n, c.version)'
        <5>1. CASE VersionOf(n) = 0
          BY <3>1, <5>1 DEF Before, ContentOf, Live, Blank
        <5>2. CASE Live(n)
          BY <1>3, <2>2, <3>1, <5>2 DEF Before, ContentOf, Live, Blank
        <5> QED BY <3>4, <5>1, <5>2
      <4>3. c.version > 1 => ~past'[n][c.version - 1].gone
        BY <1>3, <2>2, <3>1, <3>4 DEF Live
      <4>4. ContentOf(n) \in Content
        BY <3>1, ContentTyped DEF Types
      <4>5. \A f \in Fields : past'[n][c.version].content[f] =
              IF f \in DOMAIN c.fields THEN c.fields[f] ELSE Before(n, c.version)'[f]
        BY <4>1, <4>2, <4>4 DEF Over, Content
      <4> QED BY <4>1, <4>3, <4>5 DEF Sound
    <3> QED BY <1>3, <2>2, <3>3, <3>4 DEF Changes
  <2>3. ASSUME NEW i \in 1 .. L + 1, NEW n \in DOMAIN history'[i] PROVE Sound(n, history[i][n])'
    <3>1. CASE i \in 1 .. L
      BY <1>2, <2>1, <3>1
    <3>2. CASE i = L + 1
      BY <1>2, <2>2, <3>2
    <3> QED BY <1>1, <3>1, <3>2
  <2> QED BY <1>2, <2>3 DEF HistorySound
<1>7. Chained'
  <2> SUFFICES ASSUME NEW n \in Nodes
               PROVE  /\ \A m \in 1 .. L + 1 : \A i \in 1 .. m - 1 :
                           LastOf(n, i, m - 1)' /\ n \in DOMAIN history'[m] =>
                             history'[m][n].version = history'[i][n].version + 1
                      /\ \A i \in 1 .. L + 1 :
                           LastOf(n, i, L + 1)' => history'[i][n].version = VersionOf(n)'
    BY <1>2 DEF Chained
  <2>1. ASSUME NEW m \in 1 .. L + 1, NEW i \in 1 .. m - 1,
               LastOf(n, i, m - 1)', n \in DOMAIN history'[m]
        PROVE  history'[m][n].version = history'[i][n].version + 1
    <3>1. LastOf(n, i, m - 1) /\ i \in 1 .. L /\ m - 1 \in 0 .. L
      BY <1>1, <1>2, <2>1, LastKept
    <3>2. CASE m \in 1 .. L
      BY <1>l, <1>2, <2>1, <3>1, <3>2 DEF Contents, Chained
    <3>3. CASE m = L + 1
      <4>1. LastOf(n, i, L)
        BY <1>1, <3>1, <3>3
      <4>2. history[i][n].version = VersionOf(n)
        BY <1>l, <3>1, <4>1 DEF Contents, Chained
      <4> QED BY <1>2, <1>3, <2>1, <3>1, <3>3, <4>2
    <3> QED BY <1>1, <3>2, <3>3
  <2>2. ASSUME NEW i \in 1 .. L + 1, LastOf(n, i, L + 1)'
        PROVE  history'[i][n].version = VersionOf(n)'
    <3>1. n \in DOMAIN history'[i] /\ \A j \in i + 1 .. L + 1 : n \notin DOMAIN history'[j]
      BY <2>2 DEF LastOf
    <3>2. CASE i = L + 1
      BY <1>2, <1>3, <3>1, <3>2
    <3>3. CASE i \in 1 .. L
      <4>1. n \notin DOMAIN record
        BY <1>1, <1>2, <3>1, <3>3
      <4>2. LastOf(n, i, L)
        BY <1>1, <1>2, <3>1, <3>3 DEF LastOf
      <4> QED BY <1>l, <1>2, <1>4, <3>3, <4>1, <4>2 DEF Contents, Chained
    <3> QED BY <1>1, <3>2, <3>3
  <2> QED BY <2>1, <2>2
<1> QED BY <1>5, <1>6, <1>7

-----------------------------------------------------------------------------
\* The worker coalesces a sound window: the records between hold every version of a
\* node it has a lease on (coalesce).
LEMMA ReadSound ==
  ASSUME Types, Types', Positions, Contents, WorkerReads
  PROVE  DiffsSound' /\ BatchLast'
<1> DEFINE record == history[cursor + 1]
           mine == leased \cap DOMAIN record
           scoped == [version |-> cursor + 1, changes |-> [n \in mine |-> record[n]]]
<1>1. /\ cursor \in Nat /\ cursor + 1 \in 1 .. Len(history) /\ cursor' = cursor + 1
      /\ UNCHANGED <<source, network>>
      /\ \A i \in 1 .. Len(history) : history[i] \in Partial(Nodes, Change)
  BY ElementsTyped DEF WorkerReads, Types, SourceTypes, network, subscriber
<1>2. \A n \in DOMAIN record :
        /\ n \in Nodes /\ record[n] \in Change
        /\ record[n].version <= VersionOf(n) /\ Sound(n, record[n])
  BY <1>1, PartialOut DEF Contents, HistorySound, Positions, HistoryPlaced
<1>3. batch # None => batch \in Diff /\ Placed(batch) /\ SoundDiff(batch)
  BY DEF Types, DiffTypes, Positions, DiffsPlaced, Contents, DiffsSound
<1>4. ASSUME NEW n \in mine, batch # None, n \in DOMAIN batch.changes
      PROVE  Sound(n, MergeChange(batch.changes[n], record[n]))
  <2>1. PICK i \in 1 .. cursor :
          LastOf(n, i, cursor) /\ history[i][n].version = batch.changes[n].version
    BY <1>4 DEF Contents, BatchLast
  <2>2. record[n].version = batch.changes[n].version + 1
    BY <1>1, <1>2, <1>4, <2>1 DEF Contents, Chained
  <2>3. batch.changes[n] \in Change /\ Sound(n, batch.changes[n])
    BY <1>3, <1>4, DiffTyped DEF SoundDiff
  <2> QED BY <1>2, <1>4, <2>2, <2>3, MergesSound
<1>5. \A c, e \in Change : MergeChange(c, e).version = e.version
  BY DEF MergeChange, Change
<1>6. ASSUME batch' # None
      PROVE  \A n \in DOMAIN batch'.changes :
               /\ Sound(n, batch'.changes[n])
               /\ \/ n \in mine /\ batch'.changes[n].version = record[n].version
                  \/ /\ batch # None /\ n \in DOMAIN batch.changes /\ n \notin DOMAIN record
                     /\ batch'.changes[n] = batch.changes[n]
  <2> SUFFICES ASSUME NEW n \in DOMAIN batch'.changes
               PROVE  /\ Sound(n, batch'.changes[n])
                      /\ \/ n \in mine /\ batch'.changes[n].version = record[n].version
                         \/ /\ batch # None /\ n \in DOMAIN batch.changes /\ n \notin DOMAIN record
                            /\ batch'.changes[n] = batch.changes[n]
    OBVIOUS
  <2>1. CASE mine = {}
    <3>1. batch' = batch
      BY <2>1 DEF WorkerReads
    <3> QED BY <1>3, <1>6, <2>1, <3>1 DEF SoundDiff, Placed
  <2>2. CASE mine # {} /\ batch = None
    <3>1. batch' = scoped
      BY <2>2 DEF WorkerReads
    <3> QED BY <1>2, <3>1
  <2>3. CASE mine # {} /\ batch # None
    <3>1. batch' = Coalesce(batch, scoped)
      BY <2>3 DEF WorkerReads
    <3>2. n \in DOMAIN batch.changes \cup mine
      BY <3>1 DEF Coalesce
    <3>3. CASE n \notin mine
      <4>1. batch'.changes[n] = batch.changes[n] /\ n \in DOMAIN batch.changes
        BY <3>1, <3>2, <3>3 DEF Coalesce
      <4> QED BY <1>3, <2>3, <3>3, <4>1 DEF SoundDiff, Placed
    <3>4. CASE n \in mine /\ n \notin DOMAIN batch.changes
      <4>1. batch'.changes[n] = record[n]
        BY <3>1, <3>2, <3>4 DEF Coalesce
      <4> QED BY <1>2, <3>4, <4>1
    <3>5. CASE n \in mine /\ n \in DOMAIN batch.changes
      <4>1. batch'.changes[n] = MergeChange(batch.changes[n], record[n])
        BY <3>1, <3>2, <3>5 DEF Coalesce
      <4>2. batch.changes[n] \in Change /\ record[n] \in Change
        BY <1>2, <1>3, <2>3, <3>5, DiffTyped
      <4> QED BY <1>4, <1>5, <2>3, <3>5, <4>1, <4>2
    <3> QED BY <3>2, <3>3, <3>4, <3>5
  <2> QED BY <2>1, <2>2, <2>3
<1> HIDE DEF record, mine, scoped
<1>7. DiffsSound'
  <2>1. ASSUME NEW diff \in delivering' \cup inflight' \cup mailbox' PROVE SoundDiff(diff)'
    <3>1. SoundDiff(diff)
      BY <1>1, <2>1 DEF Contents, DiffsSound, network
    <3>2. UNCHANGED past
      BY <1>1 DEF source
    <3> QED BY <3>1, <3>2, SoundDiffSame
  <2>2. batch' # None => \A n \in DOMAIN batch'.changes : Sound(n, batch'.changes[n])
    BY <1>6
  <2>3. (batch # None => SoundDiff(batch))'
    <3> SUFFICES ASSUME batch' # None, NEW n \in DOMAIN batch'.changes
                 PROVE  Sound(n, batch.changes[n])'
      BY DEF SoundDiff
    <3>1. UNCHANGED past
      BY <1>1 DEF source
    <3>2. PICK c : c = batch'.changes[n]
      OBVIOUS
    <3>3. Sound(n, c)'
      BY <2>2, <3>1, <3>2, SoundSame
    <3> QED BY <3>2, <3>3 DEF Sound, Before
  <2> QED BY <2>1, <2>3 DEF DiffsSound
<1>8. BatchLast'
  <2> SUFFICES ASSUME batch' # None, NEW n \in DOMAIN batch'.changes
               PROVE  \E i \in 1 .. cursor' :
                        /\ LastOf(n, i, cursor + 1)
                        /\ history[i][n].version = batch'.changes[n].version
    BY <1>1 DEF BatchLast, LastOf, source
  <2>1. CASE n \in mine /\ batch'.changes[n].version = record[n].version
    <3>1. LastOf(n, cursor + 1, cursor + 1)
      BY <1>1, <2>1 DEF LastOf, mine, record
    <3> QED BY <1>1, <2>1, <3>1 DEF record
  <2>2. CASE /\ batch # None /\ n \in DOMAIN batch.changes /\ n \notin DOMAIN record
             /\ batch'.changes[n] = batch.changes[n]
    <3>1. PICK i \in 1 .. cursor :
            LastOf(n, i, cursor) /\ history[i][n].version = batch.changes[n].version
      BY <2>2 DEF Contents, BatchLast
    <3>2. LastOf(n, i, cursor + 1)
      BY <1>1, <2>2, <3>1 DEF LastOf, record
    <3> QED BY <1>1, <2>2, <3>1, <3>2
  <2> QED BY <1>6, <2>1, <2>2
<1> QED BY <1>7, <1>8

\* The window stays what it was under a step that leaves it and the history it has read.
LEMMA BatchKept ==
  ASSUME Types, Contents, cursor' = cursor, batch' \in {batch, None},
         \A i \in 1 .. cursor : history'[i] = history[i]
  PROVE  BatchLast'
<1>1. cursor \in Nat
  BY ElementsTyped DEF Types, SourceTypes
<1> SUFFICES ASSUME batch' # None, NEW n \in DOMAIN batch.changes
             PROVE  \E i \in 1 .. cursor : LastOf(n, i, cursor)'
                    /\ history'[i][n].version = batch.changes[n].version
  BY DEF BatchLast, LastOf
<1>2. PICK i \in 1 .. cursor :
        LastOf(n, i, cursor) /\ history[i][n].version = batch.changes[n].version
  BY DEF Contents, BatchLast
<1>3. LastOf(n, i, cursor)'
  BY <1>1, <1>2 DEF LastOf
<1> QED BY <1>2, <1>3

\* Mirrors that do not move stay states of the past.
LEMMA MirrorKept ==
  ASSUME Types, Positions, MirrorIsPast, Grows, UNCHANGED mirror
  PROVE  MirrorIsPast'
<1>1. ASSUME NEW n \in Mirrored
      PROVE  past'[n][mirror[n].version] = past[n][mirror[n].version]
  <2>1. mirror[n].version \in Nat \ {0} /\ n \in Nodes /\ mirror[n].version <= VersionOf(n)
    BY LinkedAssumption DEF Types, MirrorTypes, Mirrored, Mirror, Version, Positions, MirrorsPlaced
  <2> QED BY <2>1, VersionsTyped DEF Grows
<1> QED BY <1>1 DEF MirrorIsPast, Mirrored

-----------------------------------------------------------------------------
\* Every step keeps the contents, where no reload brings an id back.
LEMMA ContentsStep ==
  ASSUME ~Reloads, Types, Types', Positions, Positions', Contents, Next
  PROVE  Contents'
<1> USE DEF source, worker, network, subscriber
<1>g. Grows
  BY NextGrows
<1>k. ASSUME NEW t \in Tasks
      PROVE  task[t] \in Task /\ Shaped(task[t]) /\ Ahead(task[t]) /\ SoundTask(task[t])
  BY DEF Types, TaskTypes, Positions, Contents
<1>d. DiffsSound /\ MirrorIsPast
  BY DEF Contents
<1>h. ASSUME UNCHANGED <<past, history>> PROVE GoneBlank' /\ HistorySound' /\ Chained'
  BY <1>h, RecordsSame DEF Contents
<1>b. ASSUME UNCHANGED <<cursor, history>>, batch' \in {batch, None} PROVE BatchLast'
  BY <1>b, BatchKept
<1>m. ASSUME UNCHANGED mirror PROVE MirrorIsPast'
  BY <1>g, <1>d, <1>m, MirrorKept
<1>s. ASSUME UNCHANGED task PROVE \A t \in Tasks : SoundTask(task[t])'
  <2> SUFFICES ASSUME NEW t \in Tasks PROVE SoundTask(task[t])'
    OBVIOUS
  <2>1. PICK k \in Task : k = task[t] /\ Shaped(k) /\ Ahead(k) /\ SoundTask(k)
    BY <1>k
  <2>2. SoundTask(k)'
    BY <1>g, <2>1, SoundTaskGrows
  <2> QED BY <1>s, <2>1, <2>2 DEF SoundTask, Carried, Receiving
<1>t. ASSUME NEW t \in Tasks, NEW k, SoundTask(k),
             task' = [task EXCEPT ![t] = k], UNCHANGED <<past, history, cursor, batch>>,
             (delivering \cup inflight \cup mailbox)'
                 \subseteq delivering \cup inflight \cup mailbox,
             MirrorIsPast'
      PROVE  Contents'
  <2>1. SoundTask(k)'
    BY <1>t, SoundTaskSame
  <2>2. \A q \in Tasks : SoundTask(task[q])'
    BY <1>g, <1>t, <2>1, TasksSound
  <2>3. DiffsSound'
    BY <1>g, <1>d, <1>t, SoundKept
  <2>4. GoneBlank' /\ HistorySound' /\ Chained'
    BY <1>h, <1>t
  <2>5. BatchLast'
    BY <1>b, <1>t
  <2> QED BY <1>t, <2>2, <2>3, <2>4, <2>5 DEF Contents
<1>i. SoundTask(Idle)
  BY DEF SoundTask, Carried, Idle, Receiving
<1>o. ASSUME NEW k \in Task, SoundTask(k), k.at \in {"link", "look", "check"}, k.goal # "none",
             k.at = "check" => k.goal = "repair", NEW need \in SUBSET Nodes
      PROVE  SoundTask(Onward([k EXCEPT !.need = need]))
  <2> DEFINE j == Onward([k EXCEPT !.need = need])
  <2>1. j.page = k.page /\ j.diff = k.diff /\ j.goal = k.goal
    BY <1>o DEF Onward, Task
  <2>2. j.at # "link"
    <3>1. k.goal \in {"push", "link", "drain", "repair"}
      BY <1>o DEF Task
    <3> QED BY <3>1 DEF Onward, Task
  <2>3. Carried(j) \subseteq Carried(k)
    BY <1>o, <2>1 DEF Carried, Receiving
  <2> HIDE DEF j
  <2>4. SoundTask(j)
    BY <1>o, <2>2, <2>3 DEF SoundTask
  <2> QED BY <2>4 DEF j
<1>a. ASSUME NEW page \in SUBSET Diff, \A diff \in page : SoundDiff(diff)
      PROVE SoundTask(Drains(page))
  BY <1>a, OldestIn DEF SoundTask, Carried, Drains, Idle, Receiving
<1>1. CASE Commit
  <2>1. PICK record : Committed(record)
    BY <1>1, CommitRecord
  <2>2. UNCHANGED <<leased, worker, network, subscriber>>
    BY <1>1, CommitRecord
  <2>3. GoneBlank' /\ HistorySound' /\ Chained'
    BY <1>g, <2>1, CommitSound
  <2>4. \A i \in 1 .. cursor : history'[i] = history[i]
    BY <2>1, ElementsTyped DEF Types, SourceTypes, Committed
  <2>5. BatchLast'
    BY <2>2, <2>4, BatchKept
  <2>6. DiffsSound'
    BY <1>g, <1>d, <2>2, SoundKept
  <2> QED BY <1>m, <1>s, <2>2, <2>3, <2>5, <2>6 DEF Contents
<1>2. CASE WorkerReads
  <2>1. DiffsSound' /\ BatchLast'
    BY <1>2, ReadSound
  <2>2. GoneBlank' /\ HistorySound' /\ Chained' /\ MirrorIsPast'
        /\ \A t \in Tasks : SoundTask(task[t])'
    BY <1>h, <1>m, <1>s, <1>2 DEF WorkerReads
  <2> QED BY <2>1, <2>2 DEF Contents
<1>3. CASE Deliver
  <2>1. DiffsSound'
    <3>1. /\ UNCHANGED past /\ batch # None /\ batch' = None
          /\ \A diff \in delivering' \cup inflight' \cup mailbox' :
               diff \in delivering \cup inflight \cup mailbox \/ diff = batch
      BY <1>3 DEF Deliver, source
    <3>2. \A diff : SoundDiff(diff)' <=> SoundDiff(diff)
      BY <3>1, SoundDiffSame
    <3>3. \A diff \in delivering' \cup inflight' \cup mailbox' : SoundDiff(diff)
      BY <3>1 DEF Contents, DiffsSound
    <3> QED BY <3>1, <3>2, <3>3 DEF DiffsSound
  <2>2. GoneBlank' /\ HistorySound' /\ Chained' /\ MirrorIsPast'
        /\ \A t \in Tasks : SoundTask(task[t])'
    BY <1>h, <1>m, <1>s, <1>3 DEF Deliver
  <2>3. BatchLast'
    BY <1>b, <1>3 DEF Deliver
  <2> QED BY <2>1, <2>2, <2>3 DEF Contents
<1>4. ASSUME NEW diff \in delivering, FallBack(diff) PROVE Contents'
  <2>1. DiffsSound'
    BY <1>g, <1>d, <1>4, SoundKept DEF FallBack
  <2>2. GoneBlank' /\ HistorySound' /\ Chained' /\ MirrorIsPast'
        /\ \A t \in Tasks : SoundTask(task[t])'
    BY <1>h, <1>m, <1>s, <1>4 DEF FallBack
  <2>3. BatchLast'
    BY <1>b, <1>4 DEF FallBack
  <2> QED BY <2>1, <2>2, <2>3 DEF Contents
<1>5. CASE SourceRestarts
  <2>1. DiffsSound'
    BY <1>g, <1>d, <1>5, SoundKept DEF SourceRestarts
  <2>2. GoneBlank' /\ HistorySound' /\ Chained' /\ MirrorIsPast'
        /\ \A t \in Tasks : SoundTask(task[t])'
    BY <1>h, <1>m, <1>s, <1>5 DEF SourceRestarts
  <2>3. BatchLast'
    BY <1>5 DEF SourceRestarts, BatchLast
  <2> QED BY <2>1, <2>2, <2>3 DEF Contents
<1>6. CASE SubscriberRestarts
  <2>1. DiffsSound'
    BY <1>g, <1>d, <1>6, SoundKept DEF SubscriberRestarts
  <2>2. \A t \in Tasks : SoundTask(task[t])'
    <3>1. \A t \in Tasks : task'[t] = Idle
      BY <1>6 DEF SubscriberRestarts
    <3> QED BY <3>1 DEF SoundTask, Carried, Idle, Receiving
  <2>3. GoneBlank' /\ HistorySound' /\ Chained' /\ MirrorIsPast' /\ BatchLast'
    BY <1>h, <1>m, <1>b, <1>6 DEF SubscriberRestarts
  <2> QED BY <2>1, <2>2, <2>3 DEF Contents
<1>7. ASSUME NEW t \in Handlers, NEW diff \in inflight, Accept(t, diff) PROVE Contents'
  <2> DEFINE k == [Idle EXCEPT !.goal = "push", !.at = "look", !.diff = diff]
  <2>1. SoundTask(k) /\ t \in Tasks
    BY <1>d DEF SoundTask, Carried, Idle, Receiving, DiffsSound, Tasks
  <2> HIDE DEF k
  <2> QED BY <1>7, <1>m, <1>t, <2>1 DEF Accept, k
<1>8. ASSUME NEW t \in Handlers, NEW n \in Nodes, Link(t, n) PROVE Contents'
  <2> DEFINE k == [Idle EXCEPT !.goal = "link", !.at = "fetch", !.need = {n}]
  <2>1. SoundTask(k) /\ t \in Tasks
    BY DEF SoundTask, Carried, Idle, Receiving, Tasks
  <2> HIDE DEF k
  <2> QED BY <1>8, <1>m, <1>t, <2>1 DEF Link, k
<1>9. ASSUME NEW t \in Wakers, Wake(t) PROVE Contents'
  <2> DEFINE k == [Idle EXCEPT !.goal = "drain", !.at = "renew"]
  <2>1. SoundTask(k) /\ t \in Tasks
    BY DEF SoundTask, Carried, Idle, Receiving, Tasks
  <2> HIDE DEF k
  <2> QED BY <1>9, <1>m, <1>t, <2>1 DEF Wake, k
<1>10. ASSUME NEW t \in Tasks, Renew(t) PROVE Contents'
  <2> DEFINE k == [task[t] EXCEPT !.at = "subscribe", !.need = Mirrored]
  <2>1. SoundTask(k)
    BY <1>10, <1>k DEF SoundTask, Carried, Renew, Receiving, Task
  <2>2. task' = [task EXCEPT ![t] = k]
    BY <1>10 DEF Renew, Types, TaskTypes, Task
  <2> HIDE DEF k
  <2> QED BY <1>10, <1>m, <1>t, <2>1, <2>2 DEF Renew
<1>11. ASSUME NEW t \in Tasks, Subscribe(t) PROVE Contents'
  <2> DEFINE k == IF task[t].goal = "link" THEN Idle
                  ELSE [Idle EXCEPT !.goal = "drain", !.at = "list"]
  <2>1. SoundTask(k)
    BY DEF SoundTask, Carried, Idle, Receiving
  <2> HIDE DEF k
  <2> QED BY <1>11, <1>m, <1>t, <2>1 DEF Subscribe, k
<1>12. ASSUME NEW t \in Tasks, List(t) PROVE Contents'
  <2> DEFINE k == Drains(IF token THEN mailbox ELSE {})
  <2>1. SoundTask(k)
    BY <1>a, <1>d DEF DiffsSound, Types, DiffTypes
  <2> HIDE DEF k
  <2> QED BY <1>12, <1>m, <1>t, <2>1 DEF List, k
<1>13. ASSUME NEW t \in Tasks, Look(t) PROVE Contents'
  <2> DEFINE diff == task[t].diff
             need == {n \in DOMAIN diff.changes : NeedsSnapshot(n, diff.changes[n])}
             k == Onward([task[t] EXCEPT !.need = need])
  <2>1. need \in SUBSET Nodes
    BY <1>13, <1>k, DiffTyped DEF Look, Shaped
  <2> HIDE DEF need
  <2>2. SoundTask(k)
    BY <1>13, <1>k, <1>o, <2>1 DEF Look, Shaped, Receiving
  <2> HIDE DEF k
  <2> QED BY <1>13, <1>m, <1>t, <2>2 DEF Look, k, need
<1>14. ASSUME NEW t \in Tasks, Fetch(t) PROVE Contents'
  <2>1. PICK n \in task[t].need :
       task' = [task EXCEPT ![t].at = "link",
                  ![t].snapshot = [node |-> n, version |-> VersionOf(n),
                                   gone |-> ~Live(n), content |-> ContentOf(n)]]
    BY <1>14 DEF Fetch
  <2> DEFINE s == [node |-> n, version |-> VersionOf(n), gone |-> ~Live(n),
                  content |-> ContentOf(n)]
             k == [task[t] EXCEPT !.at = "link", !.snapshot = s]
  <2>2. task' = [task EXCEPT ![t] = k]
    BY <1>k, <2>1 DEF Task, Types, TaskTypes
  <2>3. task[t].at = "fetch" /\ n \in Known
    BY <1>14, <1>k DEF Fetch, Ahead
  <2>4. VersionOf(n) \in 1 .. VersionOf(n) /\ n \in Nodes
    BY <2>3, SourceTyped DEF Known, Types
  <2>5. past[n][VersionOf(n)].gone \in BOOLEAN
    BY <2>4, SourceTyped DEF Types
  <2>6. SoundSnapshot(s)
    BY <2>4, <2>5 DEF SoundSnapshot, Live, ContentOf
  <2> HIDE DEF s
  <2>7. /\ k.at = "link" /\ k.snapshot = s /\ k.page = task[t].page
        /\ k.diff = task[t].diff /\ k.goal = task[t].goal
    BY <1>k DEF Task
  <2> HIDE DEF k
  <2>8. SoundTask(k)
    BY <1>k, <2>3, <2>6, <2>7 DEF SoundTask, Carried, Receiving
  <2> QED BY <1>14, <1>m, <1>t, <2>2, <2>8 DEF Fetch
<1>15. ASSUME NEW t \in Tasks, DeleteItem(t) PROVE Contents'
  <2> DEFINE k == Drains(task[t].page \ {task[t].diff})
  <2>1. SoundTask(k)
    BY <1>a, <1>k DEF Task, SoundTask, Carried
  <2> HIDE DEF k
  <2> QED BY <1>15, <1>m, <1>t, <2>1 DEF DeleteItem, k
<1>16. ASSUME NEW t \in Tasks, Check(t) PROVE Contents'
  <2> DEFINE k == Onward([task[t] EXCEPT !.need = Stale])
  <2>1. Stale \in SUBSET Nodes
    BY DEF Stale, Mirrored
  <2>2. SoundTask(k)
    BY <1>16, <1>k, <1>o, <2>1 DEF Check, Shaped
  <2> HIDE DEF k
  <2> QED BY <1>16, <1>m, <1>t, <2>2 DEF Check, k
<1>17. ASSUME NEW t \in Tasks, Open(t) \/ Fail(t) PROVE Contents'
  BY <1>17, <1>i, <1>m, <1>t DEF Open, Fail
<1>18. ASSUME NEW t \in Tasks, Install(t) PROVE Contents'
  <2> DEFINE s == task[t].snapshot
             k == Onward([task[t] EXCEPT !.need = task[t].need \ {s.node}])
  <2>1. s \in Snapshot /\ SoundSnapshot(s) /\ task[t].at = "link"
    BY <1>18, <1>k DEF Install, Shaped, SoundTask
  <2>2. task[t].need \ {s.node} \in SUBSET Nodes
    BY <1>k DEF Task
  <2>3. SoundTask(k)
    BY <1>k, <1>o, <2>1, <2>2 DEF Shaped
  <2>4. /\ task' = [task EXCEPT ![t] = k] /\ UNCHANGED <<source, worker, network>>
        /\ mirror' = IF KeepsMirror(s) THEN mirror ELSE [mirror EXCEPT ![s.node] = Linked(s)]
    BY <1>18 DEF Install
  <2>5. MirrorIsPast'
    <3>1. CASE mirror' = mirror
      BY <1>m, <3>1
    <3>2. CASE mirror' = [mirror EXCEPT ![s.node] = Linked(s)]
      <4>1. ASSUME NEW n \in Nodes, n # s.node PROVE mirror'[n] = mirror[n]
        BY <3>2, <4>1 DEF Types, MirrorTypes
      <4>2. mirror'[s.node] = Linked(s) /\ s.node \in Nodes
        BY <2>1, <3>2 DEF Types, MirrorTypes, Snapshot
      <4>3. /\ Linked(s).gone = past[s.node][Linked(s).version].gone
            /\ ~Linked(s).gone => Linked(s).content = past[s.node][Linked(s).version].content
        BY <2>1 DEF Linked, SoundSnapshot
      <4> HIDE DEF s
      <4> QED BY <1>d, <2>4, <4>1, <4>2, <4>3 DEF MirrorIsPast, Mirrored
    <3> QED BY <2>4, <3>1, <3>2
  <2> HIDE DEF k
  <2> QED BY <1>t, <2>3, <2>4, <2>5
<1>19. ASSUME NEW t \in Tasks, Apply(t) PROVE Contents'
  <2> DEFINE diff == task[t].diff
             k == IF task[t].goal = "push" \/ Refused(diff) THEN Idle
                 ELSE [task[t] EXCEPT !.at = "delete"]
  <2>1. diff \in Diff /\ Placed(diff) /\ SoundDiff(diff)
    BY <1>19, <1>k DEF Apply, Shaped, Ahead, SoundTask, Carried
  <2>2. SoundTask(k)
    BY <1>k, <1>i DEF SoundTask, Carried, Task
  <2>3. /\ UNCHANGED <<source, worker, inflight, mailbox>> /\ task' = [task EXCEPT ![t] = k]
        /\ delivering' \subseteq delivering
        /\ mirror' = IF Refused(diff) THEN mirror ELSE ApplyDiff(diff)
    BY <1>19 DEF Apply
  <2> HIDE DEF k, diff
  <2>4. ASSUME NEW n \in Nodes, mirror'[n] # mirror[n]
        PROVE  /\ mirror'[n].gone = past[n][mirror'[n].version].gone
               /\ ~mirror'[n].gone => mirror'[n].content = past[n][mirror'[n].version].content
    <3>1. /\ ~Refused(diff) /\ n \in DOMAIN diff.changes /\ Later(n, diff.changes[n])
          /\ mirror'[n] = Updated(mirror[n], diff.changes[n])
      BY <2>3, <2>4 DEF ApplyDiff
    <3>2. n \in Mirrored /\ ~Gap(n, diff.changes[n])
      BY <3>1 DEF Refused, Later
    <3>3. /\ diff.changes[n] \in Change /\ diff.changes[n].version <= VersionOf(n)
          /\ Sound(n, diff.changes[n])
      BY <2>1, <3>1, DiffTyped DEF Placed, SoundDiff
    <3> QED BY <1>d, <3>1, <3>2, <3>3, AppliesSound
  <2>5. MirrorIsPast'
    BY <1>d, <2>3, <2>4 DEF MirrorIsPast, Mirrored
  <2> QED BY <1>t, <2>2, <2>3, <2>5
<1> HIDE DEF source, worker, network, subscriber
<1> QED
  BY Zenon, <1>1, <1>2, <1>3, <1>4, <1>5, <1>6, <1>7, <1>8, <1>9, <1>10, <1>11, <1>12, <1>13,
     <1>14, <1>15, <1>16, <1>17, <1>18, <1>19
  DEF Next, Step

-----------------------------------------------------------------------------
\* The contents hold at first.
LEMMA InitContents == Init => Contents
<1> SUFFICES ASSUME Init PROVE Contents
  OBVIOUS
<1>1. GoneBlank /\ HistorySound /\ Chained
  BY DEF Init, GoneBlank, HistorySound, Chained, VersionOf, LastOf
<1>2. BatchLast /\ DiffsSound /\ MirrorIsPast
  BY DEF Init, BatchLast, DiffsSound, MirrorIsPast, Mirrored
<1>3. \A t \in Tasks : SoundTask(task[t])
  BY DEF Init, SoundTask, Carried, Idle, Receiving
<1> QED BY <1>1, <1>2, <1>3 DEF Contents

\* The contents hold after a step that changes nothing.
LEMMA ContentsStutters == ASSUME Contents, UNCHANGED vars PROVE Contents'
<1> USE DEF vars, source, worker, network, subscriber
<1>1. GoneBlank' /\ HistorySound' /\ Chained' /\ BatchLast' /\ DiffsSound' /\ MirrorIsPast'
  <2>1. GoneBlank' /\ HistorySound' /\ Chained'
    BY RecordsSame DEF Contents
  <2>2. BatchLast'
    BY DEF Contents, BatchLast, LastOf
  <2>3. DiffsSound'
    <3>1. \A diff : SoundDiff(diff)' <=> SoundDiff(diff)
      BY SoundDiffSame
    <3>2. SoundDiff(batch)' <=> SoundDiff(batch)
      BY <3>1 DEF SoundDiff
    <3> QED BY <3>1, <3>2 DEF Contents, DiffsSound
  <2>4. MirrorIsPast'
    BY DEF Contents, MirrorIsPast, Mirrored
  <2> QED BY <2>1, <2>2, <2>3, <2>4
<1>2. \A t \in Tasks : SoundTask(task[t])'
  <2>1. \A t \in Tasks : SoundTask(task[t])' <=> SoundTask(task[t])
    <3> SUFFICES ASSUME NEW t \in Tasks PROVE SoundTask(task[t])' <=> SoundTask(task[t])
      OBVIOUS
    <3>1. PICK k : k = task[t] /\ k = task'[t]
      OBVIOUS
    <3>2. SoundTask(k)' <=> SoundTask(k)
      BY SoundTaskSame
    <3> QED BY <3>1, <3>2 DEF SoundTask, Carried, Receiving
  <2> QED BY <2>1 DEF Contents
<1> QED BY <1>1, <1>2 DEF Contents

\* The contents hold in every reachable state, where no reload brings an id back.
LEMMA ContentsInvariant == ~Reloads => (Spec => [](Types /\ Positions /\ Contents))
<1> SUFFICES ASSUME ~Reloads PROVE Spec => [](Types /\ Positions /\ Contents)
  OBVIOUS
<1>1. Init => Types /\ Positions /\ Contents
  BY InitPlaced, InitContents
<1>2. Types /\ Positions /\ Contents /\ [Next]_vars => (Types /\ Positions /\ Contents)'
  BY TypeStep, PositionsStep, ContentsStep, PlacedStutters, ContentsStutters
<1> QED BY <1>1, <1>2, PTL DEF Spec

\* Where no reload brings an id back, the state a mirror holds is the state the source
\* had at the mirror's version (apply_diff, link, coalesce).
THEOREM MirrorIsPastTheorem == ~Reloads => (Spec => []MirrorIsPast)
<1>1. Types /\ Positions /\ Contents => MirrorIsPast
  BY DEF Contents
<1> QED BY ContentsInvariant, <1>1, PTL

\* The abstract copy is the state the source had at the mirror's version.
Copies ==
  /\ DOMAIN Copy = Nodes
  /\ \A n \in Nodes :
       n \notin Mirrored => Copy[n] = [version |-> 0, gone |-> TRUE, content |-> Blank]
  /\ \A n \in Mirrored :
       /\ mirror[n].version \in 1 .. VersionOf(n) /\ Copy[n].version = mirror[n].version
       /\ Copy[n] = R!Copied(mirror[n].version, past[n][mirror[n].version])

\* A mirror is a copy of the past, where the invariant holds.
LEMMA CopiesPast == Types /\ Positions /\ Contents => Copies
<1> SUFFICES ASSUME Types, Positions, Contents, NEW n \in Mirrored
             PROVE  /\ mirror[n].version \in 1 .. VersionOf(n)
                    /\ Copy[n].version = mirror[n].version
                    /\ Copy[n] = R!Copied(mirror[n].version, past[n][mirror[n].version])
  BY DEF Copies, Copy
<1>1. /\ n \in Nodes /\ mirror[n] \in Mirror /\ mirror[n].version \in Nat \ {0}
      /\ mirror[n].version <= VersionOf(n) /\ VersionOf(n) \in Nat
  BY VersionsTyped, LinkedAssumption
  DEF Types, MirrorTypes, Mirrored, Mirror, Version, Positions, MirrorsPlaced
<1>2. mirror[n].version \in 1 .. VersionOf(n)
  BY <1>1
<1>3. /\ mirror[n].gone = past[n][mirror[n].version].gone
      /\ IF mirror[n].gone THEN past[n][mirror[n].version].content = Blank
         ELSE mirror[n].content = past[n][mirror[n].version].content
  BY <1>1, <1>2 DEF Contents, MirrorIsPast, GoneBlank
<1>4. Copy[n] = IF mirror[n].gone THEN [mirror[n] EXCEPT !.content = Blank] ELSE mirror[n]
  BY <1>1 DEF Copy
<1>5. Copy[n] = [version |-> mirror[n].version, gone |-> mirror[n].gone,
                 content |-> IF mirror[n].gone THEN Blank ELSE mirror[n].content]
  BY <1>1, <1>4 DEF Mirror
<1> QED BY <1>2, <1>3, <1>5 DEF R!Copied

\* A commit of the source is one of the abstract source.
LEMMA CommitImplements ==
  ASSUME Types, Types', Commit PROVE R!Commit
<1>1. PICK record : Committed(record)
  BY CommitRecord
<1>2. Len(history) < MaxCommits /\ UNCHANGED <<leased, worker, network, subscriber>>
  BY CommitRecord
<1>3. ASSUME NEW n \in Nodes
      PROVE  \/ past'[n] = past[n]
             \/ \E s \in {past'[n][Len(past'[n])]} : s \in R!State /\ past'[n] = Append(past[n], s)
  <2>1. CASE n \notin DOMAIN record
    BY <1>1, <2>1 DEF Committed
  <2>2. CASE n \in DOMAIN record
    <3>1. past[n] \in Seq([gone : BOOLEAN, content : Content])
      BY DEF Types, SourceTypes
    <3>2. PICK s : s = After(n, record[n]) /\ s \in [gone : BOOLEAN, content : Content]
      BY <1>1, <1>2, <2>2, ChangesTyped DEF Types, Committed
    <3>3. past'[n] = Append(past[n], s)
      BY <1>1, <2>2, <3>2 DEF Committed
    <3>4. past'[n][Len(past'[n])] = s
      BY <3>1, <3>2, <3>3, Appended
    <3>5. s \in R!State
      BY <3>2, LinkedAssumption DEF R!State, Content, Version
    <3> QED BY <3>3, <3>4, <3>5
  <2> QED BY <2>1, <2>2
<1>4. Copy' = Copy
  BY <1>2 DEF Copy, Mirrored, subscriber
<1>5. DOMAIN past' = Nodes
  BY <1>1 DEF Committed
<1> QED BY <1>3, <1>4, <1>5 DEF R!Commit

\* A mirror is a copy of the past after a step, too.
LEMMA CopiesPastNext == (Types /\ Positions /\ Contents)' => Copies'
BY CopiesPast, PTL

\* A step that leaves the past alone is a catch-up of the abstract mirrors, or a stutter.
LEMMA CatchUpImplements ==
  ASSUME Types, Copies, Copies', Grows, UNCHANGED past
  PROVE  R!CatchUp
<1>1. ASSUME NEW n \in Nodes
      PROVE  \/ Copy'[n] = Copy[n]
             \/ \E v \in DOMAIN past[n] : v > Copy[n].version /\ Copy'[n] = R!Copied(v, past[n][v])
  <2>1. CASE n \notin Mirrored'
    BY <2>1 DEF Copies, Grows
  <2>2. CASE n \in Mirrored'
    <3> DEFINE v == mirror'[n].version
    <3>1. v \in 1 .. VersionOf(n) /\ Copy'[n] = R!Copied(v, past[n][v])
      BY <2>2 DEF Copies, VersionOf
    <3>2. v \in DOMAIN past[n] /\ v > 0
      BY <3>1 DEF Types, SourceTypes, VersionOf
    <3>3. CASE n \notin Mirrored
      BY <3>1, <3>2, <3>3 DEF Copies
    <3>4. CASE n \in Mirrored /\ mirror'[n] = mirror[n]
      BY <3>1, <3>4 DEF Copies
    <3>5. CASE n \in Mirrored /\ mirror[n].version < v
      BY <3>1, <3>2, <3>5 DEF Copies
    <3> QED BY <3>3, <3>4, <3>5 DEF Grows
  <2> QED BY <2>1, <2>2
<1> QED BY <1>1 DEF R!CatchUp, Copies

\* Linked graphs implement Replica, where no reload brings an id back: mirrors hold
\* whole states of their source and only move to later ones (receive, link, apply_diff).
THEOREM ImplementsReplicaTheorem == ~Reloads => (Spec => ImplementsReplica)
<1> SUFFICES ASSUME ~Reloads PROVE Spec => ImplementsReplica
  OBVIOUS
<1> DEFINE IInv == Types /\ Positions /\ Contents
<1>1. Init => R!Init
  BY DEF Init, R!Init, R!Copied, R!Nothing, R!Blank, Copy, Mirrored, Blank
<1>2. IInv /\ IInv' /\ [Next]_vars => [R!Next]_<<past, Copy>>
  <2> SUFFICES ASSUME IInv, IInv', [Next]_vars PROVE [R!Next]_<<past, Copy>>
    OBVIOUS
  <2>1. CASE UNCHANGED vars
    BY <2>1 DEF vars, source, subscriber, Copy, Mirrored
  <2>2. CASE Commit
    BY <2>2, CommitImplements DEF R!Next
  <2>3. CASE Next /\ ~Commit
    <3>1. UNCHANGED past
      BY <2>3 DEF Next, Step, WorkerReads, Deliver, FallBack, SourceRestarts, SubscriberRestarts,
         Accept, Link, Wake, Renew, Subscribe, List, Look, Fetch, Install, Apply, DeleteItem, Check,
         Open, Fail, source
    <3>2. Copies /\ Copies' /\ Grows
      BY <2>3, CopiesPast, CopiesPastNext, NextGrows
    <3> QED BY <3>1, <3>2, CatchUpImplements DEF R!Next
  <2> QED BY <2>1, <2>2, <2>3
<1> QED BY ContentsInvariant, <1>1, <1>2, PTL DEF Spec, ImplementsReplica, R!Spec
=============================================================================

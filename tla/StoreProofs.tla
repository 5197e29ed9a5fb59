---------------------------- MODULE StoreProofs -----------------------------
(***************************************************************************)
(* Proofs about Store: whatever stops the process, and at whatever step of *)
(* an import, a checkpoint, a rotation of the log or an append, the next   *)
(* open finds what was promised.  The invariant speaks of every directory  *)
(* a power cut may leave, not only of the one that is there: each opens,   *)
(* with the log that may be beside it, to the last acknowledged graph or   *)
(* to a change made to it since (Directories).  To keep that, it says what *)
(* each call under way has established (Job), that one call at a time      *)
(* changes files (Working), and that at most one append is in flight, at   *)
(* the end of the log (InFlight).  These theorems assume that what an open *)
(* reads is durable (FoundIsDurable); the run store_first_import and the   *)
(* README say what is left without it.                                     *)
(*                                                                         *)
(* The second part is about what an import or a checkpoint deletes.  Its   *)
(* invariant, Placings, says nothing of promises, and needs no assumption  *)
(* about what an open finds: a call syncs itself what it relies on.        *)
(***************************************************************************)
EXTENDS Store, WellFoundedInduction, TLAPS

-----------------------------------------------------------------------------
\* Where a call of import or checkpoint can be.
Steps ==
  {"idle", "decoded", "imported", "marked", "appending", "cleaning", "waiting",
   "captured", "saved", "durable", "rotating", "filled", "written", "swapped"}

\* The steps of a checkpoint that has a graph and has not yet replaced the log.
Captured == {"captured", "saved", "durable", "rotating", "filled", "written"}

\* The steps under the log's mutex, and those of them before the rename.
Before == {"rotating", "filled", "written"}

\* All the steps under the log's mutex.
Rotates == Before \cup {"swapped"}

\* The steps at which a job's file is durably in its place.
Placed == {"marked", "appending", "durable", "cleaning"} \cup Rotates

\* The types, in the form a step preserves.
Types ==
  /\ log \in Seq(Entries)
  /\ synced \in 0 .. Len(log)
  /\ dir \in dirs /\ dirs \subseteq Dirs /\ dir.old = None
  /\ stage \in {"down", "opening", "up"}
  /\ memory \in Content
  /\ poisoned \in BOOLEAN
  /\ import_lock \in Threads \cup {"free"}
  /\ job \in [Threads -> [at : Steps, graph : Content, from : Nat]]
  /\ writing \in SUBSET Writes
  /\ promised \in Content
  /\ tail \in Seq(Entries)

\* How many entries are acknowledged.
Acked == Len(log) - Len(tail)

\* What is in flight is the last entry, of the one append that waits for it.
InFlight ==
  /\ Len(tail) <= 1 /\ Len(tail) <= Len(log)
  /\ tail # <<>> => log[Len(log)] = tail[1]
  /\ Acked <= synced
  /\ writing # {} => \E w \in Writes : writing = {w} /\ tail = <<Write(w)>>
  /\ \A t \in Threads : job[t].at = "appending" => writing = {} /\ tail = <<Replace(job[t].graph)>>
  /\ stage = "up" /\ GraphFree /\ ~poisoned => tail = <<>>

\* Who may be doing what.
Working ==
  /\ \A t \in Threads :
       /\ job[t].at # "idle" => import_lock = t
       /\ job[t].at \in Rotates => ~poisoned
  /\ stage # "up" => writing = {} /\ ~poisoned /\ \A t \in Threads : job[t].at = "idle"
  /\ stage # "down" => memory = promised
  /\ stage = "opening" =>
       tail = <<>> /\ synced = Len(log) /\ dir.next.is = "none" /\ \A d \in dirs : d.old = None

\* The graph a replay starts from when the log names none.
Start(d) == IF d.snapshot THEN {Legacy} ELSE {}

\* The first n entries of a log.
First(s, n) == SubSeq(s, 1, n)

\* Every graph that entries name from which a replay may start has its file:
\* a replay sees at least the first n of them.
FilesKept(entries, n, graphs) ==
  \A i \in 1 .. Len(entries) :
    entries[i].kind = "graph" /\ (\A j \in i + 1 .. n : entries[j].kind # "graph")
      => entries[i].content \in graphs

\* A next log beside an empty log says what is promised.
NextPromised(d) ==
  d.next.is = "whole" /\ d.next.log = <<Replace(promised)>> /\ promised \in d.graphs

\* A directory with the log beside it opens to what is promised.
GoodNow(d) ==
  /\ ApplyAll(Start(d), First(log, Acked)) = promised
  /\ FilesKept(log, synced, d.graphs)
  /\ d.next.is = "whole" /\ synced = 0 => NextPromised(d)

\* A directory with the log a rename replaced opens to what is promised.
GoodOld(d) ==
  /\ d.old.is = "whole" /\ Len(d.old.log) <= MaxLog + 1
  /\ ApplyAll(Start(d), d.old.log) = ApplyAll(promised, tail)
  /\ FilesKept(d.old.log, Len(d.old.log), d.graphs)
  /\ d.old.log = <<>> => tail = <<>> /\ NextPromised(d)
  /\ \/ poisoned \/ stage = "down" \/ \E t \in Threads : job[t].at = "swapped"

\* Every directory a power cut may leave, and so the one that is there now.
Directories == \A d \in dirs : IF d.old = None THEN GoodNow(d) ELSE GoodOld(d)

\* The jobs.
Job(t) ==
  LET at == job[t].at
      graph == job[t].graph
      from == job[t].from
  IN
  /\ at \in {"saved", "imported"} => graph \in dir.graphs
  /\ at \in Placed => \A d \in dirs : graph \in d.graphs
  /\ at \in Captured /\ ~poisoned =>
       /\ from \in 1 .. Acked + 1
       /\ graph = ApplyAll(Start(dir), First(log, from - 1))
       /\ \A i \in from .. Len(log) : log[i].kind # "graph"
       /\ Len(log) <= MaxLog \/ Len(log) < from
  /\ at \in Before => synced = Len(log)
  /\ at \in {"filled", "written"} => dir.next = Whole(NextLog(t))
  /\ at = "written" => dirs = {dir}
  /\ at = "swapped" =>
       /\ synced = Len(log) /\ Acked >= 1 /\ log[1] = Replace(graph)
       /\ \A i \in 2 .. Len(log) : log[i].kind # "graph"
  /\ at = "cleaning" =>
       /\ \A d \in dirs : d.old = None
       /\ \E i \in 1 .. Acked : log[i].kind = "graph"
       /\ FilesKept(log, synced, {graph})
  /\ from <= MaxLog + 2

\* The log is at most one entry over its bound.
Bounded == Len(log) <= MaxLog + 1

\* The inductive invariant.
IInv == Types /\ Bounded /\ InFlight /\ Working /\ Directories /\ \A t \in Threads : Job(t)

-----------------------------------------------------------------------------
\* A set of naturals that is not empty has a least element.
LEMMA LeastNumber == ASSUME NEW S \in SUBSET Nat, S # {} PROVE \E m \in S : \A k \in S : m <= k
<1>1. \E m \in S : \A k \in S : <<k, m>> \notin OpToRel(<, Nat)
  BY NatLessThanWellFounded, WFMin, Zenon
<1>2. \E m \in S : \A k \in S : <<k, m>> \notin {p \in Nat \X Nat : p[1] < p[2]}
  BY <1>1, Zenon DEF OpToRel
<1>3. PICK m \in S : \A k \in S : <<k, m>> \notin {p \in Nat \X Nat : p[1] < p[2]}
  BY <1>2
<1>4. ASSUME NEW k \in S PROVE m <= k
  <2>1. <<k, m>> \notin {p \in Nat \X Nat : p[1] < p[2]}
    BY <1>3
  <2>2. ~(k < m)
    BY <2>1
  <2> QED BY <2>2
<1> QED BY <1>4

\* And one that is bounded has a greatest.
LEMMA GreatestNumber ==
  ASSUME NEW n \in Nat, NEW S \in SUBSET (0 .. n), S # {}
  PROVE  \E m \in S : \A k \in S : k <= m
<1> DEFINE below == {n - k : k \in S}
<1>1. below \in SUBSET Nat /\ below # {}
  <2>1. \A k \in S : n - k \in Nat
    OBVIOUS
  <2> QED BY <2>1
<1>2. PICK least \in below : \A k \in below : least <= k
  BY <1>1, LeastNumber
<1>3. PICK m \in S : least = n - m
  BY <1>2
<1>4. ASSUME NEW k \in S PROVE k <= m
  <2>1. least <= n - k
    BY <1>2
  <2> QED BY <1>3, <2>1
<1> QED BY <1>4

-----------------------------------------------------------------------------
\* LastGraph is the last position that holds a graph, or zero.
LEMMA LastGraphIs ==
  ASSUME NEW s \in Seq(Entries)
  PROVE  /\ LastGraph(s) \in 0 .. Len(s)
         /\ LastGraph(s) = 0 => \A i \in 1 .. Len(s) : s[i].kind # "graph"
         /\ LastGraph(s) # 0 => /\ LastGraph(s) \in 1 .. Len(s) /\ s[LastGraph(s)].kind = "graph"
                                /\ \A j \in LastGraph(s) + 1 .. Len(s) : s[j].kind # "graph"
<1> DEFINE named == {i \in 1 .. Len(s) : s[i].kind = "graph"}
<1>1. CASE named = {}
  BY <1>1 DEF LastGraph
<1>2. CASE named # {}
  <2>1. \E m \in named : \A k \in named : m >= k
    <3>1. named \in SUBSET (0 .. Len(s)) /\ Len(s) \in Nat
      OBVIOUS
    <3>2. PICK m \in named : \A k \in named : k <= m
      BY <1>2, <3>1, GreatestNumber
    <3>3. \A k \in named : m >= k
      BY <3>1, <3>2
    <3> QED BY <3>3
  <2>2. Max(named) \in named /\ \A k \in named : Max(named) >= k
    BY <2>1, Zenon DEF Max
  <2>3. LastGraph(s) = Max(named)
    <3>1. ~(named = {})
      BY <1>2
    <3>2. LastGraph(s) = IF named = {} THEN 0 ELSE Max(named)
      BY Zenon DEF LastGraph
    <3> QED BY <3>1, <3>2
  <2>4. PICK m \in named : m = LastGraph(s) /\ \A k \in named : m >= k
    BY <2>2, <2>3
  <2>5. m \in 1 .. Len(s) /\ s[m].kind = "graph"
    OBVIOUS
  <2>6. \A j \in m + 1 .. Len(s) : s[j].kind # "graph"
    <3> SUFFICES ASSUME NEW j \in m + 1 .. Len(s), s[j].kind = "graph" PROVE FALSE
      OBVIOUS
    <3>1. j \in named
      OBVIOUS
    <3> QED BY <2>4, <3>1
  <2> QED BY <2>4, <2>5, <2>6
<1> QED BY <1>1, <1>2

\* No entry after the i-th, up to the n-th, replaces the graph.
Unreplaced(s, i, n) == \A j \in i + 1 .. n : s[j].kind # "graph"

\* What replay makes of the first n entries: what an entry brings stays unless a
\* later one replaces the graph.
Replayed(graph, s, n) ==
  {x \in graph : Unreplaced(s, 0, n)}
  \cup UNION {s[i].content : i \in {k \in 1 .. n : Unreplaced(s, k, n)}}

\* One more entry is applied to what the entries before it made.
LEMMA ReplayedNext ==
  ASSUME NEW graph, NEW s \in Seq(Entries), NEW n \in 1 .. Len(s)
  PROVE  Replayed(graph, s, n) = Apply(Replayed(graph, s, n - 1), s[n])
<1>1. CASE s[n].kind = "graph"
  BY <1>1 DEF Replayed, Unreplaced, Apply
<1>2. CASE s[n].kind # "graph"
  <2>1. \A i \in 0 .. n - 1 : Unreplaced(s, i, n) <=> Unreplaced(s, i, n - 1)
    BY <1>2 DEF Unreplaced
  <2>2. Unreplaced(s, n, n)
    BY DEF Unreplaced
  <2>3. {k \in 1 .. n : Unreplaced(s, k, n)} = {k \in 1 .. n - 1 : Unreplaced(s, k, n - 1)} \cup {n}
    BY <2>1, <2>2
  <2>4. {x \in graph : Unreplaced(s, 0, n)} = {x \in graph : Unreplaced(s, 0, n - 1)}
    BY <2>1
  <2> HIDE DEF Unreplaced
  <2> QED BY <1>2, <2>3, <2>4 DEF Replayed, Apply
<1> QED BY <1>1, <1>2

\* Replay by one entry after another is that set: the recursion is solved.
LEMMA ApplyAllIs ==
  ASSUME NEW graph, NEW s \in Seq(Entries)
  PROVE  ApplyAll(graph, s) = Replayed(graph, s, Len(s))
<1> DEFINE Is(f) == f = [n \in 0 .. Len(s) |-> IF n = 0 THEN graph ELSE Apply(f[n - 1], s[n])]
           after == CHOOSE f : f = [n \in 0 .. Len(s) |-> IF n = 0 THEN graph
               ELSE Apply(f[n - 1], s[n])]
           h == [n \in 0 .. Len(s) |-> Replayed(graph, s, n)]
<1>0. Replayed(graph, s, 0) = graph
  BY DEF Replayed, Unreplaced
<1>1. Is(h)
  <2>1. \A n \in 0 .. Len(s) : n # 0 => n - 1 \in 0 .. Len(s) /\ h[n - 1] = Replayed(graph, s,
        n - 1)
    OBVIOUS
  <2>2. \A n \in 0 .. Len(s) : h[n] = IF n = 0 THEN graph ELSE Apply(h[n - 1], s[n])
    BY <1>0, <2>1, ReplayedNext
  <2> QED BY <2>2
<1>2. Is(after)
  BY <1>1, Zenon
<1> HIDE DEF after, h
<1>3. \A n \in 0 .. Len(s) : after[n] = IF n = 0 THEN graph ELSE Apply(after[n - 1], s[n])
  BY <1>2
<1>4. ASSUME \E n \in 0 .. Len(s) : after[n] # Replayed(graph, s, n) PROVE FALSE
  <2> DEFINE S == {n \in 0 .. Len(s) : after[n] # Replayed(graph, s, n)}
  <2>1. S \in SUBSET Nat /\ S # {}
    BY <1>4
  <2>2. PICK m \in S : \A k \in S : m <= k
    BY <2>1, LeastNumber
  <2>3. m # 0
    BY <1>0, <1>3
  <2>4. m - 1 \in 0 .. Len(s) /\ m - 1 \notin S /\ m \in 1 .. Len(s)
    BY <2>2, <2>3
  <2>5. after[m - 1] = Replayed(graph, s, m - 1)
    BY <2>4
  <2> QED BY <1>3, <2>3, <2>4, <2>5, ReplayedNext
<1>5. ApplyAll(graph, s) = after[Len(s)]
  BY Zenon DEF ApplyAll, after
<1> QED BY <1>4, <1>5

\* Replay takes the first entries, and then the others.
LEMMA ApplyAppended ==
  ASSUME NEW graph, NEW s \in Seq(Entries), NEW e \in Entries
  PROVE  ApplyAll(graph, Append(s, e)) = Apply(ApplyAll(graph, s), e)
<1> DEFINE u == Append(s, e)
<1>1. u \in Seq(Entries) /\ Len(u) = Len(s) + 1 /\ u[Len(s) + 1] = e /\ Len(s) \in Nat
      /\ \A i \in 1 .. Len(s) : u[i] = s[i]
  OBVIOUS
<1>2. Replayed(graph, u, Len(s)) = Replayed(graph, s, Len(s))
  <2>1. \A i \in 0 .. Len(s) : Unreplaced(u, i, Len(s)) <=> Unreplaced(s, i, Len(s))
    BY <1>1 DEF Unreplaced
  <2> HIDE DEF u
  <2> QED BY <1>1, <2>1 DEF Replayed
<1> HIDE DEF u
<1>3. Replayed(graph, u, Len(s) + 1) = Apply(Replayed(graph, u, Len(s)), u[Len(s) + 1])
  <2>1. Len(s) + 1 \in 1 .. Len(u) /\ (Len(s) + 1) - 1 = Len(s)
    BY <1>1
  <2> QED BY <1>1, <2>1, ReplayedNext
<1>4. ApplyAll(graph, u) = Replayed(graph, u, Len(s) + 1) /\ ApplyAll(graph, s) = Replayed(graph,
      s, Len(s))
  BY <1>1, ApplyAllIs
<1> QED BY <1>1, <1>2, <1>3, <1>4 DEF u

\* No entries change nothing.
LEMMA ApplyNone == ASSUME NEW graph PROVE ApplyAll(graph, <<>>) = graph
<1>1. <<>> \in Seq(Entries)
  OBVIOUS
<1>2. Len(<<>>) = 0
  OBVIOUS
<1>3. ASSUME NEW s PROVE Replayed(graph, s, 0) = graph
  <2>1. 1 .. 0 = {} /\ Unreplaced(s, 0, 0)
    BY DEF Unreplaced
  <2> QED BY <2>1 DEF Replayed
<1>4. ApplyAll(graph, <<>>) = Replayed(graph, <<>>, Len(<<>>))
  BY <1>1, ApplyAllIs
<1> QED BY <1>2, <1>3, <1>4

\* What comes before an entry that replaces the graph does not count.
LEMMA ApplyFrom ==
  ASSUME NEW graph, NEW other, NEW s \in Seq(Entries), NEW at \in 1 .. Len(s), s[at].kind = "graph"
  PROVE  ApplyAll(graph, s) = ApplyAll(other, SubSeq(s, at, Len(s)))
<1> DEFINE u == SubSeq(s, at, Len(s))
<1>1. /\ u \in Seq(Entries) /\ Len(u) = Len(s) - at + 1 /\ Len(s) \in Nat
      /\ \A i \in 1 .. Len(u) : u[i] = s[i + at - 1]
  OBVIOUS
<1> HIDE DEF u
<1>2. \A i \in 1 .. Len(u) : Unreplaced(u, i, Len(u)) <=> Unreplaced(s, i + at - 1, Len(s))
  <2> SUFFICES ASSUME NEW i \in 1 .. Len(u)
               PROVE  Unreplaced(u, i, Len(u)) <=> Unreplaced(s, i + at - 1, Len(s))
    OBVIOUS
  <2>1. ASSUME Unreplaced(u, i, Len(u)), NEW j \in i + at .. Len(s) PROVE s[j].kind # "graph"
    <3>1. j - at + 1 \in i + 1 .. Len(u) /\ u[j - at + 1] = s[j]
      BY <1>1
    <3> QED BY <2>1, <3>1 DEF Unreplaced
  <2>2. ASSUME Unreplaced(s, i + at - 1, Len(s)), NEW j \in i + 1 .. Len(u)
        PROVE u[j].kind # "graph"
    <3>1. j + at - 1 \in i + at - 1 + 1 .. Len(s) /\ u[j] = s[j + at - 1]
      BY <1>1
    <3> QED BY <2>2, <3>1 DEF Unreplaced
  <2> QED BY <2>1, <2>2 DEF Unreplaced
<1>3. ~Unreplaced(u, 0, Len(u)) /\ ~Unreplaced(s, 0, Len(s))
  BY <1>1 DEF Unreplaced
<1>4. \A k \in 1 .. Len(s) : k < at => ~Unreplaced(s, k, Len(s))
  BY <1>1 DEF Unreplaced
<1>5. UNION {s[i].content : i \in {k \in 1 .. Len(s) : Unreplaced(s, k, Len(s))}}
        = UNION {u[i].content : i \in {k \in 1 .. Len(u) : Unreplaced(u, k, Len(u))}}
  <2>1. ASSUME NEW i \in 1 .. Len(s), Unreplaced(s, i, Len(s))
        PROVE  \E k \in 1 .. Len(u) : Unreplaced(u, k, Len(u)) /\ u[k].content = s[i].content
    <3>1. i - at + 1 \in 1 .. Len(u) /\ i - at + 1 + at - 1 = i
      BY <1>1, <1>4, <2>1
    <3> QED BY <1>1, <1>2, <2>1, <3>1
  <2>2. ASSUME NEW i \in 1 .. Len(u), Unreplaced(u, i, Len(u))
        PROVE  \E k \in 1 .. Len(s) : Unreplaced(s, k, Len(s)) /\ s[k].content = u[i].content
    <3>1. i + at - 1 \in 1 .. Len(s)
      BY <1>1
    <3> QED BY <1>1, <1>2, <2>2, <3>1
  <2>3. ASSUME NEW x, NEW i \in 1 .. Len(s), Unreplaced(s, i, Len(s)), x \in s[i].content
        PROVE  \E k \in 1 .. Len(u) : Unreplaced(u, k, Len(u)) /\ x \in u[k].content
    BY <2>1, <2>3
  <2>4. ASSUME NEW x, NEW i \in 1 .. Len(u), Unreplaced(u, i, Len(u)), x \in u[i].content
        PROVE  \E k \in 1 .. Len(s) : Unreplaced(s, k, Len(s)) /\ x \in s[k].content
    BY <2>2, <2>4
  <2> QED BY <2>3, <2>4, Zenon
<1>6. ApplyAll(graph, s) = Replayed(graph, s, Len(s)) /\ ApplyAll(other, u) = Replayed(other, u,
      Len(u))
  BY <1>1, ApplyAllIs
<1> QED BY <1>3, <1>5, <1>6 DEF Replayed, u

\* An entry that replaces the graph with what the first n entries made of it
\* stands for those entries.
LEMMA ApplyRotated ==
  ASSUME NEW graph, NEW other, NEW s \in Seq(Entries), NEW m \in 0 .. Len(s), NEW n \in m .. Len(s),
         NEW u \in Seq(Entries), Len(u) = n - m + 1, u[1].kind = "graph",
         u[1].content = ApplyAll(graph, SubSeq(s, 1, m)),
         \A i \in 2 .. Len(u) : u[i] = s[m + i - 1]
  PROVE  ApplyAll(other, u) = ApplyAll(graph, SubSeq(s, 1, n))
<1> DEFINE P(k) == ApplyAll(other, SubSeq(u, 1, k - m + 1)) = ApplyAll(graph, SubSeq(s, 1, k))
<1>0. Len(s) \in Nat /\ Len(u) \in Nat
  OBVIOUS
<1>1. P(m)
  <2>1. m - m + 1 = 1
    OBVIOUS
  <2>2. PICK v \in Seq(Entries) : v = SubSeq(u, 1, 1) /\ Len(v) = 1 /\ v[1] = u[1]
    <3>1. 1 <= Len(u)
      BY <1>0
    <3>2. SubSeq(u, 1, 1) \in Seq(Entries) /\ Len(SubSeq(u, 1, 1)) = 1 /\ SubSeq(u, 1, 1)[1] = u[1]
      BY <1>0, <3>1
    <3> QED BY <3>2
  <2>3. ApplyAll(other, v) = Replayed(other, v, 1)
    BY <2>2, ApplyAllIs
  <2>4. ~Unreplaced(v, 0, 1) /\ Unreplaced(v, 1, 1)
    BY <2>2 DEF Unreplaced
  <2>5. Replayed(other, v, 1) = v[1].content
    BY <2>4 DEF Replayed
  <2> QED BY <2>1, <2>2, <2>3, <2>5
<1>2. ASSUME NEW k \in m .. n - 1, P(k) PROVE P(k + 1)
  <2> DEFINE v == SubSeq(u, 1, k - m + 1)
             w == SubSeq(s, 1, k)
  <2>1. v \in Seq(Entries) /\ w \in Seq(Entries)
    BY <1>0
  <2>2. PICK e \in Entries : e = s[k + 1]
    BY <1>0
  <2>3. SubSeq(s, 1, k + 1) = Append(w, e)
    BY <1>0, <2>2
  <2>4. SubSeq(u, 1, k + 1 - m + 1) = Append(v, e)
    <3>1. k + 1 - m + 1 \in 2 .. Len(u) /\ u[k + 1 - m + 1] = e
      BY <1>0, <2>2
    <3>2. k - m + 1 \in 1 .. Len(u) /\ k + 1 - m + 1 = k - m + 1 + 1
      BY <1>0
    <3>3. PICK l \in Nat : l = k - m + 1 /\ l + 1 = k + 1 - m + 1 /\ l + 1 \in 1 .. Len(u)
          /\ u[l + 1] = e
      BY <1>0, <3>1, <3>2
    <3>4. SubSeq(u, 1, l + 1) = Append(SubSeq(u, 1, l), e)
      BY <1>0, <3>3
    <3> QED BY <3>3, <3>4
  <2> HIDE DEF v, w
  <2>5. ApplyAll(other, v) = ApplyAll(graph, w)
    BY <1>2 DEF P, v, w
  <2>6. /\ ApplyAll(other, Append(v, e)) = Apply(ApplyAll(other, v), e)
        /\ ApplyAll(graph, Append(w, e)) = Apply(ApplyAll(graph, w), e)
    BY <2>1, <2>2, ApplyAppended
  <2>7. ApplyAll(other, SubSeq(u, 1, k + 1 - m + 1)) = ApplyAll(graph, SubSeq(s, 1, k + 1))
    BY <2>3, <2>4, <2>5, <2>6
  <2> QED BY <2>7
<1> HIDE DEF P
<1>3. ASSUME \E k \in m .. n : ~P(k) PROVE FALSE
  <2> DEFINE S == {k \in m .. n : ~P(k)}
  <2>1. S \in SUBSET Nat /\ S # {}
    <3>1. m .. n \in SUBSET Nat
      BY <1>0
    <3> QED BY <1>3, <3>1
  <2>2. PICK k \in S : \A l \in S : k <= l
    BY <2>1, LeastNumber
  <2>3. k # m /\ k - 1 \in m .. n - 1 /\ k - 1 \notin S
    BY <1>0, <1>1, <2>2
  <2>4. P(k - 1) /\ k - 1 + 1 = k
    BY <1>0, <2>3
  <2> QED BY <1>2, <2>3, <2>4
<1>4. P(n)
  BY <1>0, <1>3
<1>5. SubSeq(u, 1, n - m + 1) = u
  <2>1. SubSeq(u, 1, Len(u)) = u
    OBVIOUS
  <2> QED BY <2>1
<1> QED BY <1>4, <1>5 DEF P

-----------------------------------------------------------------------------
\* The entries of a log are entries.
LEMMA Typed ==
  ASSUME NEW s \in Seq(Entries)
  PROVE  Len(s) \in Nat /\ \A i \in 1 .. Len(s) : s[i] \in Entries
OBVIOUS

\* Two logs with the same entries are the same.
LEMMA Same ==
  ASSUME NEW s \in Seq(Entries), NEW t \in Seq(Entries), Len(s) = Len(t),
         \A i \in 1 .. Len(s) : s[i] = t[i]
  PROVE  s = t
OBVIOUS

\* The first entries of a log are a log.
LEMMA Part1 ==
  ASSUME NEW s \in Seq(Entries), NEW m \in 0 .. Len(s)
  PROVE  /\ SubSeq(s, 1, m) \in Seq(Entries) /\ Len(SubSeq(s, 1, m)) = m
         /\ \A i \in 1 .. m : SubSeq(s, 1, m)[i] = s[i]
OBVIOUS

\* A log is its first entries, when they are all of them.
LEMMA AllOf == ASSUME NEW s \in Seq(Entries) PROVE SubSeq(s, 1, Len(s)) = s
OBVIOUS

\* A log without its entries is empty.
LEMMA NoneOf == ASSUME NEW s \in Seq(Entries) PROVE SubSeq(s, 1, 0) = <<>>
OBVIOUS

\* The empty log is a log.
LEMMA EmptyTyped == <<>> \in Seq(Entries)
OBVIOUS

\* The empty log has no entry.
LEMMA EmptyLength == Len(<<>>) = 0
OBVIOUS

\* A log is empty when its length is zero.
LEMMA IsEmpty == ASSUME NEW s \in Seq(Entries) PROVE s = <<>> <=> Len(s) = 0
OBVIOUS

\* A log of one entry is that entry.
LEMMA IsOne ==
  ASSUME NEW s \in Seq(Entries), Len(s) = 1
  PROVE  s = <<s[1]>> /\ s = Append(<<>>, s[1])
<1>1. s = <<s[1]>>
  OBVIOUS
<1>2. s = Append(<<>>, s[1])
  OBVIOUS
<1> QED BY <1>1, <1>2

\* One entry is a log.
LEMMA OneTyped ==
  ASSUME NEW e \in Entries
  PROVE  <<e>> \in Seq(Entries) /\ Len(<<e>>) = 1 /\ <<e>>[1] = e
<1>1. <<e>> \in Seq(Entries)
  OBVIOUS
<1>2. Len(<<e>>) = 1
  OBVIOUS
<1>3. <<e>>[1] = e
  OBVIOUS
<1> QED BY <1>1, <1>2, <1>3

\* Replay of one entry applies it.
LEMMA ApplyOne ==
  ASSUME NEW graph, NEW s \in Seq(Entries), Len(s) = 1
  PROVE  ApplyAll(graph, s) = Apply(graph, s[1])
<1>1. s[1] \in Entries /\ s = Append(<<>>, s[1])
  BY IsOne, Typed
<1>2. ApplyAll(graph, Append(<<>>, s[1])) = Apply(ApplyAll(graph, <<>>), s[1])
  BY <1>1, EmptyTyped, ApplyAppended, Zenon
<1> QED BY <1>1, <1>2, ApplyNone, Zenon

\* An open of a log with entries, whose files are there, replays all of them: it
\* may start from the last graph.
LEMMA RecoverEntries ==
  ASSUME NEW found, NEW s \in Seq(Entries), found.log = s, s # <<>>,
         FilesKept(s, Len(s), found.dir.graphs)
  PROVE  Recover(found) = ApplyAll(Start(found.dir), s)
<1>1. SettledLog(found) = s
  BY DEF SettledLog
<1>2. CASE LastGraph(s) = 0
  BY <1>1, <1>2 DEF Recover, Start
<1>3. CASE LastGraph(s) # 0
  <2>1. LastGraph(s) \in 1 .. Len(s) /\ s[LastGraph(s)].content \in found.dir.graphs
        /\ s[LastGraph(s)].kind = "graph"
    BY <1>3, LastGraphIs DEF FilesKept
  <2>2. Recover(found) = ApplyAll({}, SubSeq(s, LastGraph(s), Len(s)))
    BY <1>1, <1>3, <2>1 DEF Recover
  <2> QED BY <2>1, <2>2, ApplyFrom
<1> QED BY <1>2, <1>3

\* An open of an empty log with a whole next log beside it takes that one.
LEMMA RecoverNext ==
  ASSUME NEW found, NEW graph \in Content, found.log = <<>>, found.dir.next.is = "whole",
         found.dir.next.log = <<Replace(graph)>>, graph \in found.dir.graphs
  PROVE  Recover(found) = graph
<1>1. PICK s \in Seq(Entries) : s = <<Replace(graph)>> /\ Len(s) = 1 /\ s[1] = Replace(graph)
  <2>1. Replace(graph) \in Entries
    BY DEF Entries, Replace
  <2> QED BY <2>1, OneTyped
<1>2. SettledLog(found) = s
  BY <1>1 DEF SettledLog
<1>3. s # <<>> /\ LastGraph(s) = 1
  <2>1. s[1].kind = "graph" /\ Len(s) # 0 /\ 1 \in 1 .. Len(s)
    BY <1>1 DEF Replace
  <2>2. LastGraph(s) \in 0 .. Len(s) /\ (LastGraph(s) = 0
        => \A i \in 1 .. Len(s) : s[i].kind # "graph")
    BY LastGraphIs
  <2>3. LastGraph(s) = 1
    BY <1>1, <2>1, <2>2
  <2> QED BY <2>1, <2>3, IsEmpty
<1>4. s[1].content = graph
  BY <1>1 DEF Replace
<1>5. Recover(found) = ApplyAll({}, SubSeq(s, 1, Len(s)))
  BY <1>2, <1>3, <1>4 DEF Recover
<1>6. ApplyAll({}, s) = graph
  BY <1>1, ApplyOne DEF Apply, Replace
<1> QED BY <1>5, <1>6, AllOf

\* An open of an empty log without a next log is refused or finds the start.
LEMMA RecoverEmpty ==
  ASSUME NEW found, found.log = <<>>, found.dir.next.is # "whole"
  PROVE  Recover(found) \in {Refused, Start(found.dir)}
<1>1. SettledLog(found) = <<>>
  BY DEF SettledLog
<1>2. LastGraph(<<>>) = 0
  <2>1. LastGraph(<<>>) \in 0 .. Len(<<>>)
    BY EmptyTyped, LastGraphIs
  <2> QED BY <2>1, EmptyLength
<1> QED BY <1>1, <1>2, ApplyNone DEF Recover, Start

\* A graph is not a refusal.
LEMMA ContentIsNotRefused == \A c \in Content : c # Refused
BY NamesAssumption DEF Content, Refused

\* What a replay starts from is a graph.
LEMMA StartTyped == \A d \in Dirs : Start(d) \in Content
BY DEF Start, Content

\* The lengths that matter.
LEMMA Lengths ==
  ASSUME Types, InFlight
  PROVE  /\ log \in Seq(Entries) /\ tail \in Seq(Entries) /\ Len(log) \in Nat
         /\ Len(tail) \in 0 .. 1
         /\ Len(tail) <= Len(log) /\ synced \in 0 .. Len(log) /\ Acked \in 0 .. synced
         /\ Acked = Len(log) - Len(tail)
<1>1. log \in Seq(Entries) /\ tail \in Seq(Entries)
  BY DEF Types
<1>2. Len(log) \in Nat /\ Len(tail) \in Nat
  BY <1>1, Typed
<1>3. Len(tail) <= 1 /\ Len(tail) <= Len(log) /\ synced \in 0 .. Len(log) /\ Acked <= synced
  BY DEF Types, InFlight
<1>4. PICK l \in Nat, k \in Nat, a \in Int : l = Len(log) /\ k = Len(tail) /\ a = l - k
  BY <1>2
<1>5. k <= 1 /\ k <= l /\ synced \in 0 .. l /\ Acked = a /\ a <= synced
  BY <1>3, <1>4 DEF Acked
<1>6. k \in 0 .. 1 /\ a \in 0 .. synced
  BY <1>4, <1>5
<1> QED BY <1>1, <1>2, <1>3, <1>4, <1>5, <1>6

\* The acknowledged entries make what is promised, and so the others make what
\* may be found.
LEMMA ReplaysTail ==
  ASSUME Types, InFlight, NEW graph, ApplyAll(graph, First(log, Acked)) = promised,
         NEW n \in Acked .. Len(log)
  PROVE  ApplyAll(graph, First(log, n)) = ApplyAll(promised, SubSeq(tail, 1, n - Acked))
<1>1. /\ log \in Seq(Entries) /\ tail \in Seq(Entries) /\ Len(log) \in Nat /\ Len(tail) \in 0 .. 1
      /\ Len(tail) <= Len(log) /\ Acked = Len(log) - Len(tail)
  BY Lengths
<1>2. CASE n = Acked
  <2>1. SubSeq(tail, 1, n - Acked) = <<>>
    BY <1>1, <1>2 DEF Acked
  <2> QED BY <1>2, <2>1, ApplyNone
<1>3. CASE n # Acked
  <2>1. Len(tail) = 1 /\ n = Len(log) /\ n - Acked = 1 /\ n >= 1 /\ Acked = n - 1
    <3>1. PICK l \in Nat, k \in Nat, a \in Int : l = Len(log) /\ k = Len(tail) /\ a = l - k
          /\ a = Acked
      BY <1>1
    <3>2. n \in a .. l /\ n # a /\ k \in 0 .. 1 /\ k <= l
      BY <1>1, <1>3, <3>1
    <3>3. k = 1
      BY <3>1, <3>2
    <3>4. n = l /\ n - a = 1 /\ n >= 1 /\ a = n - 1
      BY <3>1, <3>2, <3>3
    <3> QED BY <3>1, <3>3, <3>4
  <2>2. PICK e \in Entries : e = tail[1] /\ e = log[n]
    <3>1. tail # <<>>
      BY <1>1, <2>1, IsEmpty
    <3>2. 1 \in 1 .. Len(tail)
      BY <2>1
    <3>3. tail[1] \in Entries
      BY <1>1, <3>2, Typed
    <3> QED BY <2>1, <3>1, <3>3 DEF InFlight
  <2>3. First(log, n) = Append(First(log, n - 1), e)
    BY <1>1, <2>1, <2>2 DEF First
  <2>4. SubSeq(tail, 1, 1) = tail
    BY <1>1, <2>1, AllOf
  <2>5. First(log, n - 1) \in Seq(Entries)
    BY <1>1, <2>1 DEF First
  <2>6. ApplyAll(graph, First(log, n)) = Apply(promised, e)
    BY <2>1, <2>2, <2>3, <2>5, ApplyAppended
  <2>7. ApplyAll(promised, SubSeq(tail, 1, 1)) = Apply(promised, e)
    BY <1>1, <2>1, <2>2, <2>4, ApplyOne
  <2> QED BY <2>1, <2>6, <2>7
<1> QED BY <1>2, <1>3

\* What an open may find, and what it then makes of it.
Opens(found) ==
  \/ Recover(found) \in Allowed /\ Recover(found) = ApplyAll(Start(found.dir), found.log)
  \/ Recover(found) = Refused /\ found.log = <<>> /\ promised = Start(found.dir)

\* A good directory, with the log beside it, opens to what is allowed.
LEMMA OpensNow ==
  ASSUME Types, InFlight, NEW d \in dirs, GoodNow(d), NEW n \in synced .. Len(log)
  PROVE  Opens([log |-> SubSeq(log, 1, n), dir |-> d])
<1> DEFINE found == [log |-> SubSeq(log, 1, n), dir |-> d]
<1>1. /\ log \in Seq(Entries) /\ tail \in Seq(Entries) /\ Len(log) \in Nat /\ Len(tail) \in 0 .. 1
      /\ Len(tail) <= Len(log) /\ synced \in Nat /\ Acked <= synced /\ Acked \in Nat
  BY Lengths
<1>2. n \in Acked .. Len(log) /\ n - Acked \in 0 .. Len(tail)
  BY <1>1 DEF Acked
<1>3. PICK s \in Seq(Entries) : s = SubSeq(log, 1, n) /\ Len(s) = n
      /\ \A i \in 1 .. n : s[i] = log[i]
  <2>1. n \in 0 .. Len(log)
    BY <1>1
  <2> QED BY <1>1, <2>1, Part1
<1>4. ApplyAll(Start(d), s) = ApplyAll(promised, SubSeq(tail, 1, n - Acked))
  BY <1>2, <1>3, ReplaysTail DEF GoodNow, First
<1>5. ApplyAll(Start(d), s) \in Allowed
  BY <1>2, <1>4 DEF Allowed
<1>6. CASE s # <<>>
  <2>1. FilesKept(s, Len(s), found.dir.graphs)
    BY <1>1, <1>3 DEF GoodNow, FilesKept
  <2>2. Recover(found) = ApplyAll(Start(found.dir), s)
    BY <1>3, <1>6, <2>1, RecoverEntries
  <2> QED BY <1>3, <1>5, <2>2 DEF Opens
<1>7. CASE s = <<>>
  <2>1. n = 0 /\ synced = 0 /\ Acked = 0
    BY <1>1, <1>2, <1>3, <1>7
  <2>2. promised = Start(d) /\ promised \in Content
    <3>1. First(log, 0) = <<>>
      BY <1>1 DEF First
    <3> QED BY <2>1, <3>1, ApplyNone DEF GoodNow, Types
  <2>3. ApplyAll(Start(found.dir), found.log) = promised
    BY <1>3, <1>7, <2>2, ApplyNone
  <2>4. CASE d.next.is = "whole"
    <3>1. Recover(found) = promised
      BY <1>3, <1>7, <2>1, <2>2, <2>4, RecoverNext DEF GoodNow, NextPromised
    <3> QED BY <1>3, <1>5, <2>3, <3>1 DEF Opens
  <2>5. CASE d.next.is # "whole"
    <3>1. Recover(found) \in {Refused, promised}
      BY <1>3, <1>7, <2>2, <2>5, RecoverEmpty
    <3> QED BY <1>3, <1>5, <1>7, <2>2, <2>3, <3>1 DEF Opens
  <2> QED BY <2>4, <2>5
<1> QED BY <1>6, <1>7

\* So does one with the log that a rename replaced.
LEMMA OpensOld ==
  ASSUME Types, InFlight, NEW d \in dirs, d.old # None, GoodOld(d)
  PROVE  Opens([log |-> d.old.log, dir |-> [d EXCEPT !.old = None]])
<1> DEFINE found == [log |-> d.old.log, dir |-> [d EXCEPT !.old = None]]
<1>1. d \in Dirs /\ d.old.log \in Seq(Entries) /\ Len(tail) \in Nat /\ promised \in Content
      /\ tail \in Seq(Entries)
  BY DEF Types, Dirs, LogFiles
<1>2. /\ found.log = d.old.log /\ found.dir.graphs = d.graphs /\ found.dir.next = d.next
      /\ found.dir.snapshot = d.snapshot /\ Start(found.dir) = Start(d)
  BY <1>1 DEF Dirs, Start
<1> HIDE DEF found
<1>3. ApplyAll(Start(d), d.old.log) \in Allowed
  <2>1. SubSeq(tail, 1, Len(tail)) = tail /\ Len(tail) \in 0 .. Len(tail)
    BY <1>1, AllOf
  <2>2. ApplyAll(promised, SubSeq(tail, 1, Len(tail))) \in Allowed
    BY <2>1 DEF Allowed
  <2> QED BY <2>1, <2>2 DEF GoodOld
<1>4. CASE d.old.log # <<>>
  <2>1. Recover(found) = ApplyAll(Start(d), d.old.log)
    BY <1>1, <1>2, <1>4, RecoverEntries DEF GoodOld
  <2> QED BY <1>2, <1>3, <2>1 DEF Opens, found
<1>5. CASE d.old.log = <<>>
  <2>1. tail = <<>> /\ NextPromised(d)
    BY <1>5 DEF GoodOld
  <2>2. Recover(found) = promised
    BY <1>1, <1>2, <1>5, <2>1, RecoverNext DEF NextPromised
  <2>3. ApplyAll(Start(d), d.old.log) = promised
    BY <2>1, ApplyNone DEF GoodOld
  <2> QED BY <1>2, <1>3, <2>2, <2>3 DEF Opens, found
<1> QED BY <1>4, <1>5

\* So does whatever a crash or a power cut may leave.
LEMMA OpensAll ==
  ASSUME Types, InFlight, Directories
  PROVE  \A found \in AfterPowerCut \cup {Seen} : Opens(found)
<1>1. ASSUME NEW d \in dirs, d.old = None, NEW n \in synced .. Len(log)
      PROVE  Opens([log |-> SubSeq(log, 1, n), dir |-> d])
  BY <1>1, OpensNow DEF Directories
<1>2. ASSUME NEW d \in dirs, d.old # None
      PROVE  Opens([log |-> d.old.log, dir |-> [d EXCEPT !.old = None]])
  BY <1>2, OpensOld DEF Directories
<1>3. \A found \in AfterPowerCut : Opens(found)
  <2> SUFFICES ASSUME NEW found \in AfterPowerCut PROVE Opens(found)
    OBVIOUS
  <2>1. CASE \E d \in {e \in dirs : e.old = None}, n \in synced .. Len(log) :
               found = [log |-> SubSeq(log, 1, n), dir |-> d]
    BY <1>1, <2>1
  <2>2. CASE \E d \in {e \in dirs : e.old # None} :
               found = [log |-> d.old.log, dir |-> [d EXCEPT !.old = None]]
    BY <1>2, <2>2
  <2> QED BY <2>1, <2>2 DEF AfterPowerCut
<1>4. Opens(Seen)
  <2>1. dir \in dirs /\ dir.old = None /\ Len(log) \in synced .. Len(log) /\ SubSeq(log, 1,
        Len(log)) = log
    BY DEF Types
  <2>2. Opens([log |-> SubSeq(log, 1, Len(log)), dir |-> dir])
    BY <1>1, <2>1
  <2> QED BY <2>1, <2>2 DEF Seen
<1> QED BY <1>3, <1>4

\* The invariant says that nothing is lost.
LEMMA LosesNothingIs ==
  Types /\ InFlight /\ Directories => LosesNothing
<1> SUFFICES ASSUME Types, InFlight, Directories, NEW found \in Images PROVE 
    \/ Recover(found) \in Allowed
    \/ Recover(found) = Refused /\ found.log = <<>> /\ promised \subseteq {Legacy}
  BY DEF LosesNothing
<1>1. found \in AfterPowerCut \cup {Seen}
  BY DEF Images
<1>2. Start(found.dir) \subseteq {Legacy}
  BY DEF Start
<1> QED BY <1>1, <1>2, OpensAll DEF Opens

\* The invariant says that the open graph is the one the files hold.
LEMMA MemoryIsFilesIs ==
  Types /\ InFlight /\ Working /\ Directories => MemoryIsFiles
<1> SUFFICES ASSUME Types, InFlight, Working, Directories, stage = "up", GraphFree, ~poisoned
             PROVE  Recover(Seen) \in {memory, Refused}
  BY DEF MemoryIsFiles, Up
<1>1. tail = <<>> /\ memory = promised
  BY DEF InFlight, Working
<1>2. Allowed = {promised}
  <2>1. \A n \in 0 .. Len(tail) : ApplyAll(promised, SubSeq(tail, 1, n)) = promised
    <3>1. SubSeq(tail, 1, 0) = <<>>
      BY <1>1, EmptyTyped, NoneOf
    <3>2. \A n \in 0 .. Len(tail) : n = 0
      BY <1>1, EmptyLength
    <3> QED BY <3>1, <3>2, ApplyNone
  <2>2. 0 \in 0 .. Len(tail)
    BY <1>1, EmptyLength
  <2> QED BY <2>1, <2>2 DEF Allowed
<1> QED BY <1>1, <1>2, OpensAll DEF Opens

-----------------------------------------------------------------------------
\* One call at a time changes files.
LEMMA OthersIdle ==
  ASSUME Working, NEW t \in Threads, job[t].at # "idle"
  PROVE  stage = "up" /\ import_lock = t /\ \A u \in Threads \ {t} : job[u].at = "idle"
BY DEF Working

\* With no rename to settle, every directory is good beside the log.
LEMMA NoneOld ==
  ASSUME Directories, stage = "up", ~poisoned, \A t \in Threads : job[t].at # "swapped"
  PROVE  \A d \in dirs : d.old = None /\ GoodNow(d)
BY DEF Directories, GoodOld

\* The directory that is there now is good.
LEMMA GoodHere == ASSUME Types, Directories PROVE GoodNow(dir)
BY DEF Types, Directories

\* More entries seen, or more files there, keep what was kept.
LEMMA KeptMore ==
  ASSUME NEW s \in Seq(Entries), NEW m \in Nat, NEW n \in Nat, m <= n, NEW graphs, NEW more, graphs
      \subseteq more,
         FilesKept(s, m, graphs)
  PROVE  FilesKept(s, n, more)
<1> SUFFICES ASSUME NEW i \in 1 .. Len(s), s[i].kind = "graph",
    \A j \in i + 1 .. n : s[j].kind # "graph"
             PROVE  s[i].content \in more
  BY DEF FilesKept
<1>1. \A j \in i + 1 .. m : s[j].kind # "graph"
  OBVIOUS
<1> QED BY <1>1 DEF FilesKept

\* An entry appended needs its own file, and no other.
LEMMA KeptAppended ==
  ASSUME NEW s \in Seq(Entries), NEW n \in 0 .. Len(s), NEW e \in Entries, NEW graphs,
         e.kind = "graph" => e.content \in graphs, FilesKept(s, n, graphs)
  PROVE  FilesKept(Append(s, e), n, graphs)
<1> DEFINE u == Append(s, e)
<1>1. Len(u) = Len(s) + 1 /\ Len(s) \in Nat /\ \A i \in 1 .. Len(s) : u[i] = s[i]
  OBVIOUS
<1>2. u[Len(s) + 1] = e
  OBVIOUS
<1> HIDE DEF u
<1> SUFFICES ASSUME NEW i \in 1 .. Len(u), u[i].kind = "graph",
    \A j \in i + 1 .. n : u[j].kind # "graph"
             PROVE  u[i].content \in graphs
  BY DEF FilesKept, u
<1>3. CASE i = Len(s) + 1
  BY <1>2, <1>3
<1>4. CASE i # Len(s) + 1
  <2>1. i \in 1 .. Len(s) /\ \A j \in i + 1 .. n : s[j].kind # "graph"
    BY <1>1, <1>4
  <2> QED BY <1>1, <2>1 DEF FilesKept
<1> QED BY <1>3, <1>4

\* What is cut off the log after what was synced needs no file.
LEMMA KeptFirst ==
  ASSUME NEW s \in Seq(Entries), NEW m \in 0 .. Len(s), NEW n \in m .. Len(s), NEW graphs,
         FilesKept(s, m, graphs)
  PROVE  FilesKept(SubSeq(s, 1, n), m, graphs)
<1>1. PICK u \in Seq(Entries) : u = SubSeq(s, 1, n) /\ Len(u) = n /\ \A i \in 1 .. n : u[i] = s[i]
  <2>1. n \in 0 .. Len(s)
    OBVIOUS
  <2> QED BY <2>1, Part1
<1>2. Len(s) \in Nat
  OBVIOUS
<1>3. FilesKept(u, m, graphs)
  <2> SUFFICES ASSUME NEW i \in 1 .. Len(u), u[i].kind = "graph",
      \A j \in i + 1 .. m : u[j].kind # "graph"
               PROVE  u[i].content \in graphs
    BY DEF FilesKept
  <2>1. i \in 1 .. Len(s) /\ s[i] = u[i] /\ \A j \in i + 1 .. m : s[j] = u[j]
    BY <1>1, <1>2
  <2> QED BY <2>1 DEF FilesKept
<1> QED BY <1>1, <1>3

\* The first entries stay the first when one is appended.
LEMMA FirstAppended ==
  ASSUME NEW s \in Seq(Entries), NEW e \in Entries, NEW n \in 0 .. Len(s)
  PROVE  First(Append(s, e), n) = First(s, n)
<1>1. Append(s, e) \in Seq(Entries) /\ Len(Append(s, e)) = Len(s) + 1 /\ Len(s) \in Nat
      /\ \A i \in 1 .. Len(s) : Append(s, e)[i] = s[i]
  OBVIOUS
<1>2. PICK u \in Seq(Entries) : u = Append(s, e) /\ Len(u) = Len(s) + 1
      /\ \A i \in 1 .. Len(s) : u[i] = s[i]
  BY <1>1
<1>3. n \in 0 .. Len(u)
  BY <1>1, <1>2
<1>4. SubSeq(u, 1, n) = SubSeq(s, 1, n)
  BY <1>1, <1>2, <1>3, Part1, Same
<1> QED BY <1>2, <1>4 DEF First

\* The first entries of the first entries are the first entries.
LEMMA FirstOfFirst ==
  ASSUME NEW s \in Seq(Entries), NEW m \in 0 .. Len(s), NEW n \in 0 .. m
  PROVE  First(SubSeq(s, 1, m), n) = First(s, n)
<1>1. PICK u \in Seq(Entries) : u = SubSeq(s, 1, m) /\ Len(u) = m /\ \A i \in 1 .. m : u[i] = s[i]
  BY Part1
<1>2. n \in 0 .. Len(u) /\ n \in 0 .. Len(s) /\ Len(s) \in Nat
  BY <1>1
<1>3. SubSeq(u, 1, n) = SubSeq(s, 1, n)
  BY <1>1, <1>2, Part1, Same
<1> QED BY <1>1, <1>3 DEF First

\* Once an entry replaced the graph it does not matter what it started from.
LEMMA ApplyReplaced ==
  ASSUME NEW graph, NEW other, NEW s \in Seq(Entries), NEW n \in 0 .. Len(s), NEW i \in 1 .. n,
      s[i].kind = "graph"
  PROVE  ApplyAll(graph, First(s, n)) = ApplyAll(other, First(s, n))
<1>1. PICK u \in Seq(Entries) : u = First(s, n) /\ Len(u) = n /\ u[i] = s[i]
  BY Part1 DEF First
<1>2. i \in 1 .. Len(u) /\ u[i].kind = "graph"
  BY <1>1
<1>3. ApplyAll(graph, u) = ApplyAll({}, SubSeq(u, i, Len(u))) /\ ApplyAll(other, u) = ApplyAll({},
      SubSeq(u, i, Len(u)))
  BY <1>1, <1>2, ApplyFrom
<1> QED BY <1>1, <1>3

\* Replay makes graphs.
LEMMA ApplyTyped ==
  ASSUME NEW graph \in Content, NEW s \in Seq(Entries)
  PROVE  ApplyAll(graph, s) \in Content
<1>1. \A i \in 1 .. Len(s) : s[i].content \in Content
  BY Typed DEF Entries
<1>2. Replayed(graph, s, Len(s)) \in Content
  <2> SUFFICES ASSUME NEW x \in Replayed(graph, s, Len(s))
      PROVE x \in Writes \cup Graphs \cup {Legacy}
    BY DEF Content
  <2>1. CASE x \in graph
    BY <2>1 DEF Content
  <2>2. CASE x \notin graph
    <3>1. PICK i \in 1 .. Len(s) : x \in s[i].content
      BY <2>2 DEF Replayed
    <3> QED BY <1>1, <3>1 DEF Content
  <2> QED BY <2>1, <2>2
<1> QED BY <1>2, ApplyAllIs

\* While the log is as it was, a directory is as good as it was, and what has
\* to be seen to is the directory that is new.
LEMMA DirectoriesStep ==
  ASSUME Types, InFlight, Directories, UNCHANGED <<log, promised, tail>>,
         synced' \in {synced, Len(log)},
         \A d \in dirs' : d \in dirs \/ (d.old = None /\ GoodNow(d)),
         \/ \A d \in dirs' : d.old = None
         \/ poisoned' \/ stage' = "down" \/ \E t \in Threads : job'[t].at = "swapped"
  PROVE  Directories'
<1>1. log \in Seq(Entries) /\ synced \in Nat /\ Len(log) \in Nat /\ synced <= Len(log)
      /\ Acked' = Acked
  BY Lengths DEF Acked
<1>2. ASSUME NEW d, GoodNow(d) PROVE GoodNow(d)'
  <2>1. FilesKept(log, synced', d.graphs)
    BY <1>1, <1>2, KeptMore DEF GoodNow
  <2>2. synced' = 0 => synced = 0
    BY <1>1
  <2> QED BY <1>1, <1>2, <2>1, <2>2 DEF GoodNow, NextPromised
<1>3. ASSUME NEW d \in dirs', d.old # None, GoodOld(d) PROVE GoodOld(d)'
  BY <1>3 DEF GoodOld, NextPromised
<1> QED BY <1>2, <1>3 DEF Directories

\* Of an idle call there is nothing to say.
LEMMA IdleJob ==
  ASSUME NEW t \in Threads, job'[t].at = "idle", job'[t].from <= MaxLog + 2
  PROVE  Job(t)'
BY DEF Job, Placed, Captured, Before, Rotates

-----------------------------------------------------------------------------
\* A rename that is not settled: a rotation is under way, or the log is poisoned.
LEMMA OldWhen ==
  ASSUME Directories, stage = "up"
  PROVE  (\A d \in dirs : d.old = None) \/ poisoned \/ \E t \in Threads : job[t].at = "swapped"
BY DEF Directories, GoodOld

\* A call that goes on keeps what it has.
LEMMA GoesIs ==
  ASSUME Types, NEW t \in Threads, NEW at, Goes(t, at)
  PROVE  job' = [job EXCEPT ![t] = [at |-> at, graph |-> job[t].graph, from |-> job[t].from]]
<1>1. PICK k \in [at : Steps, graph : Content, from : Nat] : k = job[t]
  BY DEF Types
<1>2. [k EXCEPT !.at = at] = [at |-> at, graph |-> k.graph, from |-> k.from]
  OBVIOUS
<1>3. job' = [job EXCEPT ![t] = [job[t] EXCEPT !.at = at]]
  BY DEF Goes
<1> QED BY <1>1, <1>2, <1>3

\* The job of one thread is k now, the others' are what they were.
Turns(t, k) == job' = [job EXCEPT ![t] = k]

\* What a call may be.
Jobs == [at : Steps, graph : Content, from : Nat]

\* Of a step that changes one thread's job: what the others do, and the types.
LEMMA TurnsIs ==
  ASSUME Types, NEW t \in Threads, NEW k \in Jobs, Turns(t, k)
  PROVE  job' \in [Threads -> Jobs] /\ job'[t] = k /\ \A u \in Threads \ {t} : job'[u] = job[u]
BY DEF Types, Turns, Jobs

\* A step of one call leaves the others as they were, for they are idle.
LEMMA OtherJobs ==
  ASSUME Working, \A u \in Threads : Job(u),
         NEW t \in Threads, NEW k, Turns(t, k), Types, k \in Jobs,
         job[t].at # "idle" \/ import_lock \in {"free", t}, Job(t)'
  PROVE  \A u \in Threads : Job(u)'
<1> SUFFICES ASSUME NEW u \in Threads, u # t PROVE Job(u)'
  OBVIOUS
<1>1. job[u].at = "idle"
  BY NamesAssumption DEF Working
<1>2. job[u].from <= MaxLog + 2
  BY DEF Job
<1> QED BY <1>1, <1>2, IdleJob, TurnsIs

\* What an idle call becomes when it starts.
LEMMA StartsStep ==
  ASSUME IInv, NEW t \in Threads, CheckpointStarts(t) \/ \E g \in Graphs : ImportStarts(t, {g})
  PROVE  IInv'
<1> USE DEF IInv
<1>1. /\ UNCHANGED <<files, engine, writing, client>> /\ Up /\ job[t] = Idle /\ TakesImportLock(t)
      /\ \E k \in [at : {"waiting", "decoded"}, graph : Content, from : {0}] : Turns(t, k)
  <2>1. CASE CheckpointStarts(t)
    <3>1. Turns(t, [at |-> "waiting", graph |-> {}, from |-> 0])
      BY <2>1, GoesIs DEF CheckpointStarts, Idle, Turns
    <3> QED BY <2>1, <3>1 DEF CheckpointStarts, Content
  <2>2. CASE \E g \in Graphs : ImportStarts(t, {g})
    BY <2>2 DEF ImportStarts, Content, Turns
  <2> QED BY <2>1, <2>2
<1>2. PICK k \in [at : {"waiting", "decoded"}, graph : Content, from : {0}] : Turns(t, k)
  BY <1>1
<1>3. k \in Jobs /\ k.at \in {"waiting", "decoded"} /\ k.from = 0
  BY DEF Jobs, Steps
<1>4. job' \in [Threads -> Jobs] /\ job'[t] = k /\ \A u \in Threads \ {t} : job'[u] = job[u]
  BY <1>2, <1>3, TurnsIs
<1>5. \A u \in Threads : job[u].at = "idle"
  BY <1>1, NamesAssumption DEF Working, TakesImportLock
<1>6. Types' /\ Bounded'
  BY <1>1, <1>4 DEF Types, Bounded, Jobs, files, engine, client, TakesImportLock
<1>7. InFlight' /\ Working'
  <2>1. GraphFree' <=> GraphFree
    BY <1>1, <1>3, <1>4, <1>5 DEF GraphFree
  <2> QED BY <1>1, <1>3, <1>4, <1>5, <2>1
       DEF InFlight, Working, Rotates, Before, files, engine, client, TakesImportLock, Acked, Up
<1>8. Directories'
  <2>1. \A d \in dirs : d.old = None \/ poisoned
    BY <1>1, <1>5, OldWhen DEF Up
  <2> QED BY <1>1, <2>1, DirectoriesStep DEF files, engine, client
<1>9. Job(t)'
  BY <1>3, <1>4, BoundsAssumption DEF Job, Placed, Captured, Before, Rotates
<1>10. \A u \in Threads : Job(u)'
  BY <1>1, <1>2, <1>3, <1>9, OtherJobs DEF TakesImportLock
<1> QED BY <1>6, <1>7, <1>8, <1>10

\* What the directory may become, with the log as it is.
Kept ==
  /\ UNCHANGED <<log, promised, tail, stage, memory, writing>>
  /\ synced' \in {synced, Len(log)}
  /\ dir' \in dirs' /\ dirs' \subseteq Dirs /\ dir'.old = None
  /\ \A d \in dirs' : d \in dirs \/ (d.old = None /\ GoodNow(d))
  /\ \/ \A d \in dirs' : d.old = None
     \/ poisoned' \/ \E u \in Threads : job'[u].at = "swapped"

\* What is in flight stays so.
LEMMA SameFlight ==
  ASSUME Types, InFlight, Kept, poisoned => poisoned',
         \A u \in Threads : job'[u].at # "appending",
         (\A u \in Threads : job[u].at # "appending") \/ poisoned'
  PROVE  InFlight'
<1>1. Acked' = Acked /\ synced \in 0 .. Len(log) /\ Len(log) \in Nat /\ Acked \in 0 .. synced
  BY Lengths DEF Kept, Acked
<1>2. Acked' <= synced'
  BY <1>1 DEF Kept
<1>3. GraphFree' /\ ~poisoned' => GraphFree
  BY DEF GraphFree, Kept
<1> QED BY <1>2, <1>3 DEF InFlight, Kept

\* A call under way takes a step that leaves the log as it is.
LEMMA JobStep ==
  ASSUME IInv, NEW t \in Threads, NEW k \in Jobs, Turns(t, k), Kept,
         job[t].at \notin {"idle", "appending"}, k.at \notin {"idle", "appending"},
         UNCHANGED <<poisoned, import_lock>>, k.at \in Rotates => ~poisoned, Job(t)'
  PROVE  IInv'
<1> USE DEF IInv
<1>1. job' \in [Threads -> Jobs] /\ job'[t] = k /\ \A u \in Threads \ {t} : job'[u] = job[u]
  BY TurnsIs
<1>2. stage = "up" /\ import_lock = t /\ \A u \in Threads \ {t} : job[u].at = "idle"
  BY OthersIdle
<1>3. Types' /\ Bounded'
  <2>1. synced' \in 0 .. Len(log')
    BY Lengths DEF Kept
  <2> QED BY <1>1, <2>1 DEF Types, Bounded, Jobs, Kept
<1>4. InFlight'
  BY <1>1, <1>2, SameFlight
<1>5. Working'
  BY <1>1, <1>2 DEF Working, Kept, Rotates, Before
<1>6. Directories'
  BY DirectoriesStep DEF Kept
<1>7. \A u \in Threads : Job(u)'
  BY OtherJobs
<1> QED BY <1>3, <1>4, <1>5, <1>6, <1>7

\* With the one call under way at its end, all are idle.
LEMMA EndsIs ==
  ASSUME IInv, NEW t \in Threads, job[t].at # "idle", Ends(t)
  PROVE  /\ job' \in [Threads -> Jobs] /\ stage = "up" /\ import_lock' = "free"
         /\ \A u \in Threads : job'[u].at = "idle" /\ Job(u)'
<1> USE DEF IInv
<1>1. stage = "up" /\ import_lock = t /\ \A u \in Threads \ {t} : job[u].at = "idle"
  BY OthersIdle
<1>2. Idle \in Jobs /\ Idle.at = "idle" /\ Idle.from = 0 /\ Turns(t, Idle)
  BY DEF Idle, Jobs, Steps, Content, Ends, Turns
<1>3. job' \in [Threads -> Jobs] /\ job'[t] = Idle /\ \A u \in Threads \ {t} : job'[u] = job[u]
  BY <1>2, TurnsIs
<1>4. Job(t)'
  BY <1>2, <1>3, BoundsAssumption, IdleJob
<1>5. \A u \in Threads : Job(u)'
  BY <1>2, <1>4, OtherJobs
<1> QED BY <1>1, <1>2, <1>3, <1>5 DEF Ends

\* A call ends.
LEMMA EndStep ==
  ASSUME IInv, NEW t \in Threads, job[t].at # "idle", Ends(t), Kept,
         poisoned' \in BOOLEAN, poisoned => poisoned', job[t].at = "appending" => poisoned'
  PROVE  IInv'
<1> USE DEF IInv
<1>1. /\ job' \in [Threads -> Jobs] /\ stage = "up" /\ import_lock' = "free"
      /\ \A u \in Threads : job'[u].at = "idle" /\ Job(u)'
  BY EndsIs
<1>2. \A u \in Threads \ {t} : job[u].at = "idle"
  BY OthersIdle
<1>3. Types' /\ Bounded'
  <2>1. synced' \in 0 .. Len(log')
    BY Lengths DEF Kept
  <2> QED BY <1>1, <2>1 DEF Types, Bounded, Jobs, Kept
<1>4. InFlight'
  BY <1>1, <1>2, SameFlight
<1>5. Working'
  BY <1>1, <1>2 DEF Working, Kept, Rotates, Before
<1>6. Directories'
  BY DirectoriesStep DEF Kept
<1> QED BY <1>1, <1>3, <1>4, <1>5, <1>6

-----------------------------------------------------------------------------
\* A state change that leaves the directory as it is.
LEMMA KeptSame ==
  ASSUME IInv, UNCHANGED <<log, synced, dir, dirs, promised, tail, stage, memory, writing>>,
         \/ \A d \in dirs : d.old = None
         \/ poisoned' \/ \E u \in Threads : job'[u].at = "swapped"
  PROVE  Kept
BY DEF Kept, IInv, Types

\* A call has its type, and what it has established.
LEMMA JobOf == ASSUME IInv, NEW t \in Threads PROVE job[t] \in Jobs /\ Job(t)
BY DEF IInv, Types, Jobs

\* A checkpoint captures the graph and the log's length under the graph lock: the
\* graph is what the entries before that position make.
LEMMA CapturesStep == ASSUME IInv, NEW t \in Threads, Captures(t) PROVE IInv'
<1> DEFINE k == [at |-> "captured", graph |-> memory, from |-> Len(log) + 1]
<1>1. /\ job[t].at = "waiting" /\ GraphFree /\ ~poisoned /\ Turns(t, k)
      /\ UNCHANGED <<files, engine, import_lock, writing, client>>
  BY DEF Captures, CaptureFrom, Turns
<1>2. Len(log) \in Nat /\ Len(log) <= MaxLog + 1 /\ log \in Seq(Entries)
  BY Typed DEF IInv, Types, Bounded
<1>3. k \in Jobs
  BY <1>2 DEF IInv, Types, Jobs, Steps
<1>4. stage = "up" /\ \A u \in Threads \ {t} : job[u].at = "idle"
  BY <1>1, OthersIdle DEF IInv
<1>5. tail = <<>> /\ Acked = Len(log) /\ memory = promised
  <2>1. tail = <<>> /\ memory = promised
    BY <1>1, <1>4 DEF IInv, InFlight, Working
  <2> QED BY <1>2, <2>1, EmptyLength DEF Acked
<1>6. Kept
  <2>1. \A d \in dirs : d.old = None
    BY <1>1, <1>4, NoneOld DEF IInv
  <2> QED BY <1>1, <2>1, KeptSame DEF files, engine, client
<1>7. job'[t] = k
  BY <1>1, <1>3, TurnsIs DEF IInv
<1> HIDE DEF k
<1>8. k.at = "captured" /\ k.graph = promised /\ k.from = Len(log) + 1
  BY <1>5 DEF k
<1>9. Job(t)'
  <2>1. ApplyAll(Start(dir), First(log, Len(log))) = promised
    BY <1>5, GoodHere DEF IInv, GoodNow
  <2>2. /\ Acked' = Len(log) /\ log' = log /\ dir' = dir /\ Len(log) + 1 \in 1 .. Len(log) + 1
        /\ Len(log) + 1 - 1 = Len(log) /\ Len(log) + 1 .. Len(log) = {} /\ Len(log) < Len(log) + 1
        /\ Len(log) + 1 <= MaxLog + 2
    BY <1>1, <1>2, <1>5, BoundsAssumption DEF Acked, files, client
  <2> QED BY <1>7, <1>8, <2>1, <2>2 DEF Job, Placed, Captured, Before, Rotates
<1> QED BY <1>1, <1>3, <1>6, <1>8, <1>9, JobStep DEF engine, Rotates, Before

\* A checkpoint that fails leaves the log alone.
LEMMA CheckpointFailsStep == ASSUME IInv, NEW t \in Threads, CheckpointFails(t) PROVE IInv'
<1>1. /\ job[t].at \in {"waiting", "captured", "saved", "durable"} /\ Ends(t)
      /\ UNCHANGED <<files, engine, writing, client>>
  BY DEF CheckpointFails
<1>2. stage = "up" /\ \A u \in Threads \ {t} : job[u].at = "idle"
  BY <1>1, OthersIdle DEF IInv
<1>3. Kept
  <2>1. (\A d \in dirs : d.old = None) \/ poisoned'
    BY <1>1, <1>2, OldWhen DEF IInv, engine
  <2> QED BY <1>1, <2>1, KeptSame DEF files, engine, client
<1>4. poisoned' = poisoned /\ poisoned' \in BOOLEAN
  BY <1>1 DEF engine, IInv, Types
<1> QED BY <1>1, <1>3, <1>4, EndStep

\* A .graph file more.
LEMMA GoodMore ==
  ASSUME Types, NEW d \in Dirs, NEW graph \in Content, GoodNow(d)
  PROVE  LET e == [d EXCEPT !.graphs = @ \cup {graph}]
         IN  /\ GoodNow(e) /\ e \in Dirs /\ e.old = d.old /\ Start(e) = Start(d)
             /\ e.graphs = d.graphs \cup {graph} /\ e.next = d.next
<1> DEFINE e == [d EXCEPT !.graphs = @ \cup {graph}]
<1>1. /\ e \in Dirs /\ e.old = d.old /\ e.snapshot = d.snapshot /\ e.graphs = d.graphs \cup {graph}
      /\ e.next = d.next
  BY DEF Dirs
<1> HIDE DEF e
<1>2. Start(e) = Start(d)
  BY <1>1 DEF Start
<1>3. log \in Seq(Entries) /\ synced \in Nat
  BY DEF Types
<1>4. FilesKept(log, synced, e.graphs)
  BY <1>1, <1>3, KeptMore DEF GoodNow
<1>5. GoodNow(e)
  BY <1>1, <1>2, <1>4 DEF GoodNow, NextPromised
<1> QED BY <1>1, <1>2, <1>5 DEF e

\* A .graph file comes to its place.
LEMMA RenamesStep ==
  ASSUME IInv, NEW t \in Threads, NEW at \in {"imported", "saved"},
         \/ job[t].at = "decoded" /\ at = "imported"
         \/ job[t].at = "captured" /\ at = "saved",
         RenamesGraph(job[t].graph), Goes(t, at),
         UNCHANGED <<log, synced, engine, import_lock, writing, client>>
  PROVE  IInv'
<1>1. PICK graph \in Content, from \in Nat : graph = job[t].graph /\ from = job[t].from
  BY DEF IInv, Types
<1> DEFINE k == [at |-> at, graph |-> graph, from |-> from]
<1>2. k \in Jobs /\ k.at = at /\ k.graph = graph /\ k.from = from
  BY <1>1 DEF Jobs, Steps
<1>3. Turns(t, k)
  BY <1>1, GoesIs DEF IInv, Turns
<1> HIDE DEF k
<1>4. job'[t] = k
  BY <1>2, <1>3, TurnsIs DEF IInv
<1>5. PICK e : e = [dir EXCEPT !.graphs = @ \cup {graph}]
  OBVIOUS
<1>6. dir' = e /\ dirs' = {dir, e}
  BY <1>1, <1>5 DEF RenamesGraph
<1>7. dir \in Dirs /\ dir.old = None /\ GoodNow(dir) /\ dir \in dirs
  BY GoodHere DEF IInv, Types
<1>8. GoodNow(e) /\ e \in Dirs /\ e.old = None /\ Start(e) = Start(dir) /\ graph \in e.graphs
  BY <1>5, <1>7, GoodMore DEF IInv
<1>9. Kept
  BY <1>6, <1>7, <1>8 DEF Kept, engine, client
<1>10. Job(t)'
  BY <1>1, <1>2, <1>4, <1>6, <1>8
      DEF IInv, Job, Placed, Captured, Before, Rotates, Acked, engine, client
<1> QED BY <1>2, <1>3, <1>9, <1>10, JobStep DEF engine, Rotates, Before

\* A thread's job with another `at`.
LEMMA GoesTo ==
  ASSUME IInv, NEW t \in Threads, NEW at \in Steps, Goes(t, at)
  PROVE  \E k \in Jobs : /\ Turns(t, k) /\ k.at = at /\ k.graph = job[t].graph
                         /\ k.from = job[t].from /\ job'[t] = k
<1>1. PICK graph \in Content, from \in Nat : graph = job[t].graph /\ from = job[t].from
  BY DEF IInv, Types
<1> DEFINE k == [at |-> at, graph |-> graph, from |-> from]
<1>2. k \in Jobs /\ k.at = at /\ k.graph = graph /\ k.from = from
  BY <1>1 DEF Jobs
<1>3. Turns(t, k)
  BY <1>1, GoesIs DEF IInv, Turns
<1> HIDE DEF k
<1>4. job'[t] = k
  BY <1>2, <1>3, TurnsIs DEF IInv
<1> QED BY <1>1, <1>2, <1>3, <1>4

\* The directory is synced.
LEMMA KeptSynced ==
  ASSUME IInv, UNCHANGED <<log, dir, promised, tail, stage, memory, writing>>,
         synced' \in {synced, Len(log)}, dirs' = {dir}
  PROVE  Kept
BY DEF Kept, IInv, Types

\* An import records its file in a durable directory.
LEMMA ImportMarksStep == ASSUME IInv, NEW t \in Threads, ImportMarks(t) PROVE IInv'
<1>1. /\ job[t].at = "imported" /\ Goes(t, "marked") /\ synced' = Len(log) /\ dirs' = {dir}
      /\ UNCHANGED <<log, dir, engine, import_lock, writing, client>>
  BY DEF ImportMarks, SyncsLog
<1>2. PICK k \in Jobs : /\ Turns(t, k) /\ k.at = "marked" /\ k.graph = job[t].graph
                        /\ k.from = job[t].from /\ job'[t] = k
  BY <1>1, GoesTo DEF Steps
<1>3. Kept
  BY <1>1, KeptSynced DEF engine, client
<1>4. Job(t)'
  BY <1>1, <1>2 DEF IInv, Job, Placed, Captured, Before, Rotates
<1> QED BY <1>1, <1>2, <1>3, <1>4, JobStep DEF engine, Rotates, Before

\* A checkpoint makes its file durable.
LEMMA CheckpointSyncsStep == ASSUME IInv, NEW t \in Threads, CheckpointSyncs(t) PROVE IInv'
<1>1. /\ job[t].at = "saved" /\ Goes(t, "durable") /\ dirs' = {dir}
      /\ UNCHANGED <<log, synced, dir, engine, import_lock, writing, client>>
  BY DEF CheckpointSyncs
<1>2. PICK k \in Jobs : /\ Turns(t, k) /\ k.at = "durable" /\ k.graph = job[t].graph
                        /\ k.from = job[t].from /\ job'[t] = k
  BY <1>1, GoesTo DEF Steps
<1>3. Kept
  BY <1>1, KeptSynced DEF engine, client
<1>4. Job(t)'
  BY <1>1, <1>2 DEF IInv, Job, Placed, Captured, Before, Rotates, engine, client, Acked
<1> QED BY <1>1, <1>2, <1>3, <1>4, JobStep DEF engine, Rotates, Before

\* A rotation syncs the log before it writes the next one.
LEMMA RotateSyncsStep == ASSUME IInv, NEW t \in Threads, RotateSyncs(t) PROVE IInv'
<1>1. /\ job[t].at = "filled" /\ Goes(t, "written") /\ dirs' = {dir}
      /\ UNCHANGED <<log, synced, dir, engine, import_lock, writing, client>>
  BY DEF RotateSyncs
<1>2. PICK k \in Jobs : /\ Turns(t, k) /\ k.at = "written" /\ k.graph = job[t].graph
                        /\ k.from = job[t].from /\ job'[t] = k
  BY <1>1, GoesTo DEF Steps
<1>3. Kept
  BY <1>1, KeptSynced DEF engine, client
<1>4. Job(t)'
  BY <1>1, <1>2 DEF IInv, Types, Job, Placed, Captured, Before, Rotates, engine, client, Acked,
      NextLog
<1>5. ~poisoned
  BY <1>1 DEF IInv, Working, Rotates, Before
<1> QED BY <1>1, <1>2, <1>3, <1>4, <1>5, JobStep DEF engine

\* A rotation removes what an earlier one left.
LEMMA RotateSettlesStep == ASSUME IInv, NEW t \in Threads, RotateSettles(t) PROVE IInv'
<1>1. /\ job[t].at = "swapped" /\ Goes(t, "cleaning") /\ dirs' = {dir}
      /\ UNCHANGED <<log, synced, dir, engine, import_lock, writing, client>>
  BY DEF RotateSettles
<1>2. PICK k \in Jobs : /\ Turns(t, k) /\ k.at = "cleaning" /\ k.graph = job[t].graph
                        /\ k.from = job[t].from /\ job'[t] = k
  BY <1>1, GoesTo DEF Steps
<1>3. Kept
  BY <1>1, KeptSynced DEF engine, client
<1>4. /\ synced = Len(log) /\ Acked >= 1 /\ log[1] = Replace(job[t].graph)
      /\ \A i \in 2 .. Len(log) : log[i].kind # "graph"
      /\ \A d \in dirs : job[t].graph \in d.graphs
      /\ job[t].from <= MaxLog + 2
  BY <1>1 DEF IInv, Job, Placed, Rotates
<1>5. Acked \in Nat /\ Acked <= Len(log) /\ Len(log) \in Nat /\ Acked' = Acked
  BY <1>1, Lengths DEF IInv, Acked, client
<1>6. FilesKept(log, synced, {job[t].graph})
  BY <1>4, <1>5 DEF FilesKept, Replace
<1>7. \E i \in 1 .. Acked : log[i].kind = "graph"
  BY <1>4, <1>5 DEF Replace
<1>8. dir \in dirs /\ dir.old = None
  BY DEF IInv, Types
<1>9. Job(t)'
  BY <1>1, <1>2, <1>4, <1>5, <1>6, <1>7, <1>8 DEF Job, Placed, Captured, Before, Rotates
<1> QED BY <1>1, <1>2, <1>3, <1>9, JobStep DEF engine, Rotates, Before

\* A directory with another next log.
LEMMA GoodNext ==
  ASSUME NEW d \in Dirs, NEW next \in LogFiles, GoodNow(d),
         next.is = "whole" /\ synced = 0 => next.log = <<Replace(promised)>>
             /\ promised \in d.graphs
  PROVE  LET e == [d EXCEPT !.next = next]
         IN  /\ GoodNow(e) /\ e \in Dirs /\ e.old = d.old /\ Start(e) = Start(d)
             /\ e.graphs = d.graphs /\ e.next = next
<1> DEFINE e == [d EXCEPT !.next = next]
<1>1. /\ e \in Dirs /\ e.old = d.old /\ e.snapshot = d.snapshot /\ e.graphs = d.graphs
         /\ e.next = next
  BY DEF Dirs
<1> HIDE DEF e
<1>2. Start(e) = Start(d)
  BY <1>1 DEF Start
<1>3. GoodNow(e)
  BY <1>1, <1>2 DEF GoodNow, NextPromised
<1> QED BY <1>1, <1>2, <1>3 DEF e

\* While a rotation has the mutex, before its rename.
LEMMA RotatesAlone ==
  ASSUME IInv, NEW t \in Threads, job[t].at # "idle", job[t].at # "swapped", ~poisoned
  PROVE  /\ \A d \in dirs : d \in Dirs /\ d.old = None /\ GoodNow(d)
         /\ stage = "up" /\ dir \in dirs /\ GoodNow(dir) /\ dir.old = None /\ dir \in Dirs
<1>1. stage = "up" /\ \A u \in Threads \ {t} : job[u].at = "idle"
  BY OthersIdle DEF IInv
<1>2. \A d \in dirs : d.old = None /\ GoodNow(d)
  BY <1>1, NoneOld DEF IInv
<1> QED BY <1>1, <1>2 DEF IInv, Types

\* A rotation starts its next log.
LEMMA RotateStartsStep == ASSUME IInv, NEW t \in Threads, RotateStarts(t) PROVE IInv'
<1>1. /\ job[t].at = "durable" /\ Goes(t, "rotating") /\ ~poisoned /\ synced' = Len(log)
      /\ dir' = [dir EXCEPT !.next = Part] /\ dirs' \subseteq dirs \cup {dir'} /\ dir' \in dirs'
      /\ UNCHANGED <<log, engine, import_lock, writing, client>>
  BY DEF RotateStarts, IInv, Types
<1>2. PICK k \in Jobs : /\ Turns(t, k) /\ k.at = "rotating" /\ k.graph = job[t].graph
                        /\ k.from = job[t].from /\ job'[t] = k
  BY <1>1, GoesTo DEF Steps
<1>3. /\ \A d \in dirs : d \in Dirs /\ d.old = None /\ GoodNow(d)
      /\ stage = "up" /\ dir \in dirs /\ GoodNow(dir) /\ dir.old = None /\ dir \in Dirs
  BY <1>1, RotatesAlone
<1>4. PICK e : e = [dir EXCEPT !.next = Part]
  OBVIOUS
<1>5. Part \in LogFiles /\ Part.is = "part"
  BY EmptyTyped DEF Part, LogFiles
<1>6. /\ GoodNow(e) /\ e \in Dirs /\ e.old = None /\ Start(e) = Start(dir) /\ e.graphs = dir.graphs
  BY <1>3, <1>4, <1>5, GoodNext
<1>7. dir' = e
  BY <1>1, <1>4
<1>8. Kept
  BY <1>1, <1>3, <1>6, <1>7 DEF Kept, engine, client
<1>9. Job(t)'
  <2>1. /\ \A d \in dirs : job[t].graph \in d.graphs
        /\ job[t].from \in 1 .. Acked + 1 /\ job[t].from <= MaxLog + 2
        /\ job[t].graph = ApplyAll(Start(dir), First(log, job[t].from - 1))
        /\ \A i \in job[t].from .. Len(log) : log[i].kind # "graph"
        /\ Len(log) <= MaxLog \/ Len(log) < job[t].from
    BY <1>1 DEF IInv, Job, Placed, Captured, Before, Rotates
  <2>2. \A d \in dirs' : job[t].graph \in d.graphs
    BY <1>1, <1>3, <1>6, <1>7, <2>1
  <2>3. Start(dir') = Start(dir) /\ log' = log /\ Acked' = Acked
    BY <1>1, <1>6, <1>7 DEF client, Acked
  <2>4. /\ job'[t].at = "rotating" /\ job'[t].graph = job[t].graph /\ job'[t].from = job[t].from
        /\ synced' = Len(log)
    BY <1>1, <1>2
  <2> QED BY <2>1, <2>2, <2>3, <2>4 DEF Job
<1> QED BY <1>1, <1>2, <1>3, <1>8, <1>9, JobStep DEF engine, Rotates, Before

\* The rest of a sequence from a position.
LEMMA Rest ==
  ASSUME NEW s \in Seq(Entries), NEW m \in Nat, m >= 1, m <= Len(s) + 1
  PROVE  /\ SubSeq(s, m, Len(s)) \in Seq(Entries) /\ Len(SubSeq(s, m, Len(s))) = Len(s) + 1 - m
         /\ \A i \in 1 .. Len(s) + 1 - m : SubSeq(s, m, Len(s))[i] = s[m + i - 1]
<1>1. Len(s) \in Nat
  OBVIOUS
<1>2. SubSeq(s, m, Len(s)) \in Seq(Entries)
  BY <1>1
<1>3. Len(SubSeq(s, m, Len(s))) = Len(s) + 1 - m
  BY <1>1
<1>4. \A i \in 1 .. Len(s) + 1 - m : SubSeq(s, m, Len(s))[i] = s[m + i - 1]
  BY <1>1
<1> QED BY <1>2, <1>3, <1>4

\* The next log of a rotation.
LEMMA NextLogIs ==
  ASSUME IInv, NEW t \in Threads, job[t].at \in Before
  PROVE  LET from == job[t].from IN
         /\ ~poisoned /\ from \in 1 .. Acked + 1 /\ Acked \in 0 .. Len(log) /\ Len(log) \in Nat
         /\ NextLog(t) \in Seq(Entries) /\ Len(NextLog(t)) = Len(log) + 2 - from
         /\ NextLog(t)[1] = Replace(job[t].graph)
         /\ \A i \in 2 .. Len(NextLog(t)) : NextLog(t)[i] = log[from + i - 2]
<1>1. ~poisoned
  BY DEF IInv, Working, Rotates
<1>2. job[t].from \in 1 .. Acked + 1
  BY <1>1 DEF IInv, Job, Captured, Before
<1>3. Acked \in Nat /\ Acked <= Len(log) /\ Len(log) \in Nat /\ log \in Seq(Entries)
  BY Lengths DEF IInv
<1>4. PICK from \in Nat : from = job[t].from /\ from >= 1 /\ from <= Len(log) + 1
  BY <1>2, <1>3
<1>5. PICK u \in Seq(Entries) : /\ u = SubSeq(log, from, Len(log)) /\ Len(u) = Len(log) + 1 - from
                                /\ \A i \in 1 .. Len(u) : u[i] = log[from + i - 1]
  <2>1. /\ SubSeq(log, from, Len(log)) \in Seq(Entries)
        /\ Len(SubSeq(log, from, Len(log))) = Len(log) + 1 - from
        /\ \A i \in 1 .. Len(log) + 1 - from : SubSeq(log, from, Len(log))[i] = log[from + i - 1]
    BY <1>3, <1>4, Rest
  <2> QED BY <2>1
<1>6. PICK v \in Seq(Entries) : v = <<Replace(job[t].graph)>> /\ Len(v) = 1
      /\ v[1] = Replace(job[t].graph)
  <2>1. Replace(job[t].graph) \in Entries
    BY DEF IInv, Types, Entries, Replace
  <2> QED BY <2>1, OneTyped
<1>7. NextLog(t) = v \o u
  BY <1>4, <1>5, <1>6 DEF NextLog
<1>8. /\ v \o u \in Seq(Entries) /\ Len(v \o u) = 1 + Len(u) /\ (v \o u)[1] = v[1]
      /\ \A i \in 2 .. 1 + Len(u) : (v \o u)[i] = u[i - 1]
  BY <1>6
<1>9. \A i \in 2 .. 1 + Len(u) : u[i - 1] = log[from + i - 2]
  <2> SUFFICES ASSUME NEW i \in 2 .. 1 + Len(u) PROVE u[i - 1] = log[from + i - 2]
    OBVIOUS
  <2>1. Len(u) \in Nat
    BY <1>5, Typed
  <2>2. i - 1 \in 1 .. Len(u) /\ from + (i - 1) - 1 = from + i - 2
    BY <1>4, <2>1
  <2>3. u[i - 1] = log[from + (i - 1) - 1]
    BY <1>5, <2>2
  <2> QED BY <2>2, <2>3
<1>11. 1 + Len(u) = Len(log) + 2 - from /\ Acked \in 0 .. Len(log)
  BY <1>3, <1>4, <1>5
<1>12. \A i \in 2 .. Len(NextLog(t)) : NextLog(t)[i] = log[from + i - 2]
  BY <1>7, <1>8, <1>9
<1>13. Len(NextLog(t)) = Len(log) + 2 - from
  BY <1>7, <1>8, <1>11
<1> QED BY <1>1, <1>2, <1>3, <1>4, <1>6, <1>7, <1>8, <1>11, <1>12, <1>13

-----------------------------------------------------------------------------
\* A rotation fills its next log with the graph and the entries after it.
LEMMA RotateFillsStep == ASSUME IInv, NEW t \in Threads, RotateFills(t) PROVE IInv'
<1>1. /\ job[t].at = "rotating" /\ Goes(t, "filled")
      /\ dir' = [dir EXCEPT !.next = Whole(NextLog(t))] /\ dirs' = dirs \cup {dir'}
      /\ UNCHANGED <<log, synced, engine, import_lock, writing, client>>
  BY DEF RotateFills, Changes
<1>2. PICK k \in Jobs : /\ Turns(t, k) /\ k.at = "filled" /\ k.graph = job[t].graph
                        /\ k.from = job[t].from /\ job'[t] = k
  BY <1>1, GoesTo DEF Steps
<1>3. ~poisoned /\ NextLog(t) \in Seq(Entries)
  BY <1>1, NextLogIs DEF Before
<1>4. /\ \A d \in dirs : d \in Dirs /\ d.old = None /\ GoodNow(d)
      /\ stage = "up" /\ dir \in dirs /\ GoodNow(dir) /\ dir.old = None /\ dir \in Dirs
  BY <1>1, <1>3, RotatesAlone
<1>5. PICK e : e = [dir EXCEPT !.next = Whole(NextLog(t))]
  OBVIOUS
<1>6. Whole(NextLog(t)) \in LogFiles /\ Whole(NextLog(t)).log = NextLog(t)
  BY <1>3 DEF Whole, LogFiles
<1>7. ASSUME synced = 0 PROVE NextLog(t) = <<Replace(promised)>> /\ promised \in dir.graphs
  <2>1. /\ synced = Len(log) /\ job[t].graph \in dir.graphs
        /\ job[t].graph = ApplyAll(Start(dir), First(log, job[t].from - 1))
    BY <1>1, <1>3, <1>4 DEF IInv, Job, Placed, Captured, Before, Rotates
  <2>2. /\ job[t].from \in 1 .. Acked + 1 /\ Acked \in 0 .. Len(log)
        /\ Len(NextLog(t)) = Len(log) + 2 - job[t].from /\ NextLog(t)[1] = Replace(job[t].graph)
    BY <1>1, NextLogIs DEF Before
  <2>3. Acked = 0 /\ job[t].from = 1 /\ Len(NextLog(t)) = 1 /\ job[t].from - 1 = 0
    BY <1>7, <2>1, <2>2
  <2>4. job[t].graph = promised
    BY <1>4, <2>1, <2>3 DEF GoodNow
  <2>5. NextLog(t) = <<NextLog(t)[1]>>
    BY <1>3, <2>3, IsOne
  <2> QED BY <2>1, <2>2, <2>4, <2>5
<1>8. /\ GoodNow(e) /\ e \in Dirs /\ e.old = None /\ Start(e) = Start(dir) /\ e.graphs = dir.graphs
      /\ e.next = Whole(NextLog(t))
  BY <1>4, <1>5, <1>6, <1>7, GoodNext
<1>9. dir' = e /\ dirs' = dirs \cup {e}
  BY <1>1, <1>5
<1>10. Kept
  BY <1>1, <1>4, <1>8, <1>9 DEF Kept, engine, client
<1>11. NextLog(t)' = NextLog(t)
  BY <1>1, <1>2 DEF NextLog
<1>12. Job(t)'
  <2>1. job[t].graph \in e.graphs /\ \A d \in dirs' : job[t].graph \in d.graphs
    BY <1>1, <1>4, <1>8, <1>9 DEF IInv, Job, Placed, Captured, Before, Rotates
  <2>2. /\ job[t].from \in 1 .. Acked + 1 /\ job[t].graph = ApplyAll(Start(dir), First(log,
           job[t].from - 1))
        /\ \A i \in job[t].from .. Len(log) : log[i].kind # "graph"
        /\ Len(log) <= MaxLog \/ Len(log) < job[t].from
        /\ synced = Len(log) /\ job[t].from <= MaxLog + 2
    BY <1>1, <1>3 DEF IInv, Job, Placed, Captured, Before, Rotates
  <2>3. Acked' = Acked /\ Start(dir)' = Start(dir) /\ dir'.next = Whole(NextLog(t)')
    BY <1>1, <1>8, <1>9, <1>11 DEF client, Acked, Start
  <2> QED BY <1>1, <1>2, <1>9, <2>1, <2>2, <2>3
          DEF Job, Placed, Captured, Before, Rotates, engine, client
<1> QED BY <1>1, <1>2, <1>3, <1>10, <1>12, JobStep DEF engine

\* A rotation that fails leaves the log, or poisons it.
LEMMA RotateFailsStep == ASSUME IInv, NEW t \in Threads, RotateFails(t) PROVE IInv'
<1>1. Ends(t) /\ UNCHANGED <<log, synced, stage, memory, writing, client>>
  BY DEF RotateFails
<1>2. CASE job[t].at \in Before /\ (Changes(dir) \/ Changes([dir EXCEPT !.next = None]))
           /\ poisoned' \in {poisoned, TRUE}
  <2>1. ~poisoned
    BY <1>2, NextLogIs
  <2>2. /\ \A d \in dirs : d \in Dirs /\ d.old = None /\ GoodNow(d)
        /\ stage = "up" /\ dir \in dirs /\ GoodNow(dir) /\ dir.old = None /\ dir \in Dirs
    BY <1>2, <2>1, RotatesAlone DEF Before
  <2>3. PICK e : e = [dir EXCEPT !.next = None]
    OBVIOUS
  <2>4. None \in LogFiles /\ None.is = "none"
    BY EmptyTyped DEF None, LogFiles
  <2>5. GoodNow(e) /\ e \in Dirs /\ e.old = None
    BY <2>2, <2>3, <2>4, GoodNext
  <2>6. dir' \in {dir, e} /\ dirs' = dirs \cup {dir'}
    BY <1>2, <2>3 DEF Changes
  <2>7. Kept
    BY <1>1, <2>2, <2>5, <2>6 DEF Kept, client
  <2>8. job[t].at # "idle" /\ job[t].at # "appending"
    BY <1>2 DEF Before
  <2>9. poisoned' \in BOOLEAN
    BY <1>2 DEF IInv, Types
  <2> QED BY <1>1, <2>1, <2>7, <2>8, <2>9, EndStep
<1>3. CASE job[t].at = "swapped" /\ UNCHANGED <<dir, dirs>> /\ poisoned' = TRUE
  <2>1. Kept
    BY <1>1, <1>3, KeptSame DEF client
  <2> QED BY <1>1, <1>3, <2>1, EndStep
<1> QED BY <1>2, <1>3 DEF RotateFails, Before

\* The last graph of the log, once acknowledged.
LEMMA CleaningIs ==
  ASSUME IInv, NEW t \in Threads, job[t].at = "cleaning"
  PROVE  /\ stage = "up" /\ synced \in Nat /\ synced # 0
         /\ log \in Seq(Entries) /\ Acked \in 0 .. Len(log) /\ Len(log) \in Nat
         /\ FilesKept(log, synced, {job[t].graph})
         /\ \E i \in 1 .. Acked : log[i].kind = "graph"
         /\ \A d \in dirs : d \in Dirs /\ d.old = None /\ GoodNow(d) /\ job[t].graph \in d.graphs
         /\ dir \in dirs
<1>1. /\ \A d \in dirs : d.old = None
      /\ \E i \in 1 .. Acked : log[i].kind = "graph"
      /\ FilesKept(log, synced, {job[t].graph})
      /\ \A d \in dirs : job[t].graph \in d.graphs
  BY DEF IInv, Job, Placed
<1>2. /\ log \in Seq(Entries) /\ Len(log) \in Nat /\ synced \in 0 .. Len(log)
         /\ Acked \in 0 .. synced
  BY Lengths DEF IInv
<1>3. synced \in Nat /\ synced # 0 /\ Acked \in 0 .. Len(log)
  BY <1>1, <1>2
<1>4. stage = "up" /\ dir \in dirs /\ \A d \in dirs : d \in Dirs
  BY OthersIdle DEF IInv, Types
<1> QED BY <1>1, <1>2, <1>3, <1>4 DEF IInv, Directories

\* A directory without one of its files, and that a replay finds a file with this one.
Less(d, graph) == [d EXCEPT !.graphs = @ \ {graph}]
Enough(graph)  == FilesKept(log, synced, {graph})

\* A directory without a file that the log does not start from.
LEMMA GoodWithout ==
  ASSUME NEW d \in Dirs, NEW keep \in d.graphs, NEW graph, graph # keep, GoodNow(d), synced # 0,
         Enough(keep), NEW e, e = Less(d, graph)
  PROVE  /\ GoodNow(e) /\ e \in Dirs /\ e.old = d.old /\ Start(e) = Start(d)
         /\ e.graphs = d.graphs \ {graph} /\ e.next = d.next
<1>1. /\ e \in Dirs /\ e.old = d.old /\ e.snapshot = d.snapshot /\ e.graphs = d.graphs \ {graph}
      /\ e.next = d.next
  BY DEF Dirs, Less
<1>2. Start(e) = Start(d)
  BY <1>1 DEF Start
<1>3. FilesKept(log, synced, e.graphs)
  BY <1>1 DEF FilesKept, Enough
<1>4. GoodNow(e)
  BY <1>1, <1>2, <1>3 DEF GoodNow
<1> QED BY <1>1, <1>2, <1>4

\* A directory without the snapshot, when the log replaces it.
LEMMA GoodUnsnapped ==
  ASSUME NEW d \in Dirs, GoodNow(d), log \in Seq(Entries), Acked \in 0 .. Len(log),
         NEW i \in 1 .. Acked, log[i].kind = "graph"
  PROVE  LET e == [d EXCEPT !.snapshot = FALSE]
         IN  /\ GoodNow(e) /\ e \in Dirs /\ e.old = d.old /\ e.graphs = d.graphs /\ e.next = d.next
<1> DEFINE e == [d EXCEPT !.snapshot = FALSE]
<1>1. e \in Dirs /\ e.old = d.old /\ e.graphs = d.graphs /\ e.next = d.next
  BY DEF Dirs
<1> HIDE DEF e
<1>2. ApplyAll(Start(e), First(log, Acked)) = ApplyAll(Start(d), First(log, Acked))
  BY ApplyReplaced
<1>3. GoodNow(e)
  BY <1>1, <1>2 DEF GoodNow, NextPromised
<1> QED BY <1>1, <1>3 DEF e

\* A file that the log no longer starts from is removed.
LEMMA RemovesGraphStep == ASSUME IInv, NEW t \in Threads, RemovesGraph(t) PROVE IInv'
<1>1. /\ job[t].at = "cleaning" /\ UNCHANGED <<log, synced, engine, threads, client>>
      /\ \E graph \in dir.graphs \ {job[t].graph} : Changes([dir EXCEPT !.graphs = @ \ {graph}])
  BY DEF RemovesGraph, Removes
<1>2. PICK graph \in dir.graphs \ {job[t].graph} : Changes([dir EXCEPT !.graphs = @ \ {graph}])
  BY <1>1
<1>3. /\ stage = "up" /\ synced \in Nat /\ synced # 0
      /\ FilesKept(log, synced, {job[t].graph})
      /\ \E i \in 1 .. Acked : log[i].kind = "graph"
      /\ \A d \in dirs : d \in Dirs /\ d.old = None /\ GoodNow(d) /\ job[t].graph \in d.graphs
      /\ dir \in dirs
  BY <1>1, CleaningIs
<1>4. PICK e : e = [dir EXCEPT !.graphs = @ \ {graph}]
  OBVIOUS
<1>5. /\ GoodNow(e) /\ e \in Dirs /\ e.old = None /\ e.graphs = dir.graphs \ {graph}
  <2>1. PICK keep \in dir.graphs : keep = job[t].graph /\ keep # graph
    BY <1>2, <1>3
  <2>2. dir \in Dirs /\ dir.old = None /\ GoodNow(dir) /\ FilesKept(log, synced, {keep})
    BY <1>3, <2>1
  <2>3. synced # 0 /\ graph # keep /\ keep \in dir.graphs
    BY <1>3, <2>1
  <2>4. /\ GoodNow(e) /\ e \in Dirs /\ e.old = dir.old /\ e.graphs = dir.graphs \ {graph}
    <3>1. e = Less(dir, graph) /\ Enough(keep)
      BY <1>4, <2>2 DEF Less, Enough
    <3> QED BY <2>2, <2>3, <3>1, GoodWithout
  <2> QED BY <2>2, <2>4
<1>6. dir' = e /\ dirs' = dirs \cup {e}
  BY <1>2, <1>4 DEF Changes
<1>7. Kept
  BY <1>1, <1>3, <1>5, <1>6 DEF Kept, engine, client, threads
<1>8. PICK k \in Jobs : k = job[t]
  BY JobOf
<1>9. Turns(t, k) /\ job'[t] = k
  BY <1>1, <1>8 DEF threads, Turns, IInv, Types
<1>10. Job(t)'
  BY <1>1, <1>2, <1>3, <1>5, <1>6, <1>8, <1>9
      DEF IInv, Job, Placed, Captured, Before, Rotates, client, Acked
<1> QED BY <1>1, <1>7, <1>8, <1>9, <1>10, JobStep DEF engine, threads, Rotates, Before

\* A call returns.
LEMMA ReturnsStep == ASSUME IInv, NEW t \in Threads, Returns(t) PROVE IInv'
<1>1. /\ job[t].at = "cleaning" /\ Ends(t) /\ UNCHANGED <<log, synced, engine, writing, client>>
      /\ \/ UNCHANGED <<dir, dirs>>
         \/ Changes([dir EXCEPT !.snapshot = FALSE])
  BY DEF Returns
<1>2. /\ stage = "up" /\ log \in Seq(Entries) /\ Acked \in 0 .. Len(log)
      /\ \E i \in 1 .. Acked : log[i].kind = "graph"
      /\ \A d \in dirs : d \in Dirs /\ d.old = None /\ GoodNow(d)
      /\ dir \in dirs
  BY <1>1, CleaningIs
<1>3. PICK e : e = [dir EXCEPT !.snapshot = FALSE]
  OBVIOUS
<1>4. GoodNow(e) /\ e \in Dirs /\ e.old = None
  BY <1>2, <1>3, GoodUnsnapped
<1>5. Kept
  BY <1>1, <1>2, <1>3, <1>4 DEF Kept, engine, client, Changes
<1>6. poisoned' = poisoned /\ poisoned \in BOOLEAN
  BY <1>1 DEF engine, IInv, Types
<1> QED BY <1>1, <1>5, <1>6, EndStep

-----------------------------------------------------------------------------
\* Nobody has the log's mutex, so nobody is in a rotation.
LEMMA FreeIs == ASSUME LogFree PROVE \A t \in Threads : job[t].at \notin Rotates
BY DEF LogFree, Rotates, Before

\* An append leaves a longer log.
LEMMA AppendsIs ==
  ASSUME IInv, NEW e \in Entries, Appends(e), stage = "up", GraphFree,
         e.kind = "graph" => \A d \in dirs : e.content \in d.graphs
  PROVE  /\ log' \in Seq(Entries) /\ log' = Append(log, e) /\ Len(log') = Len(log) + 1
         /\ Len(log) \in Nat
         /\ Len(log') <= MaxLog /\ tail' = <<e>> /\ tail' \in Seq(Entries) /\ Len(tail') = 1
             /\ tail'[1] = e
         /\ log'[Len(log')] = e /\ (\A i \in 1 .. Len(log) : log'[i] = log[i])
         /\ Acked' = Len(log) /\ Acked = Len(log) /\ synced = Len(log) /\ ~poisoned
             /\ log \in Seq(Entries)
         /\ UNCHANGED <<synced, dir, dirs, engine, promised>> /\ Directories'
<1>1. /\ ~poisoned /\ LogFree /\ Len(log) < MaxLog /\ log' = Append(log, e)
         /\ tail' = Append(tail, e)
      /\ UNCHANGED <<synced, dir, dirs, engine, promised>>
  BY DEF Appends
<1>2. tail = <<>>
  BY <1>1 DEF IInv, InFlight
<1>3. /\ log \in Seq(Entries) /\ Len(log) \in Nat /\ synced \in 0 .. Len(log)
         /\ Acked \in 0 .. synced
      /\ Acked = Len(log) - Len(tail)
  BY Lengths DEF IInv
<1>4. Acked = Len(log) /\ synced = Len(log)
  BY <1>2, <1>3, EmptyLength
<1>5. tail' = <<e>> /\ tail' \in Seq(Entries) /\ Len(tail') = 1 /\ tail'[1] = e
  <2>1. tail' = <<e>>
    BY <1>1, <1>2
  <2> QED BY <2>1, OneTyped
<1>6. /\ log' \in Seq(Entries) /\ Len(log') = Len(log) + 1 /\ log'[Len(log) + 1] = e
      /\ \A i \in 1 .. Len(log) : log'[i] = log[i]
  BY <1>1, <1>3
<1>7. Acked' = Len(log)
  BY <1>3, <1>5, <1>6 DEF Acked
<1>8. Len(log') <= MaxLog
  BY <1>1, <1>3, <1>6, BoundsAssumption
<1>9. Directories'
  <2>1. \A d \in dirs : d.old = None /\ GoodNow(d)
    BY <1>1, FreeIs, NoneOld DEF IInv, Rotates
  <2> SUFFICES ASSUME NEW d \in dirs PROVE GoodNow(d)'
    BY <1>1, <2>1 DEF Directories
  <2>2. GoodNow(d)
    BY <2>1
  <2>3. First(log', Len(log)) = First(log, Len(log))
    BY <1>1, <1>3, FirstAppended
  <2>4. FilesKept(log', synced, d.graphs)
    BY <1>1, <1>3, <2>2, KeptAppended DEF GoodNow
  <2> QED BY <1>1, <1>4, <1>7, <2>2, <2>3, <2>4 DEF GoodNow, NextPromised
<1> QED BY <1>1, <1>3, <1>4, <1>5, <1>6, <1>7, <1>8, <1>9

\* A statement is in the log, not yet acknowledged.
LEMMA StatementAppendsStep == ASSUME IInv, NEW w \in Writes, StatementAppends(w) PROVE IInv'
<1> DEFINE e == Write(w)
<1>1. e \in Entries /\ e.kind = "write"
  BY DEF Entries, Write, Content
<1>2. /\ stage = "up" /\ GraphFree /\ Appends(e) /\ writing' = {w} /\ UNCHANGED <<import_lock, job>>
  BY DEF StatementAppends, Up
<1>3. /\ log' \in Seq(Entries) /\ log' = Append(log, e) /\ Len(log') = Len(log) + 1
         /\ Len(log) \in Nat
      /\ Len(log') <= MaxLog /\ tail' = <<e>> /\ tail' \in Seq(Entries) /\ Len(tail') = 1
          /\ tail'[1] = e
      /\ log'[Len(log')] = e /\ (\A i \in 1 .. Len(log) : log'[i] = log[i])
      /\ Acked' = Len(log) /\ Acked = Len(log) /\ synced = Len(log) /\ ~poisoned
          /\ log \in Seq(Entries)
      /\ UNCHANGED <<synced, dir, dirs, engine, promised>> /\ Directories'
  BY <1>1, <1>2, AppendsIs
<1> HIDE DEF e
<1>4. LogFree
  BY <1>2 DEF Appends
<1>5. Types' /\ Bounded'
  BY <1>2, <1>3, BoundsAssumption DEF IInv, Types, Bounded, engine
<1>6. InFlight'
  <2>1. ~GraphFree' /\ \A t \in Threads : job[t].at # "appending"
    BY <1>2 DEF GraphFree
  <2> QED BY <1>2, <1>3, <2>1 DEF InFlight, e
<1>7. Working'
  BY <1>2, <1>3 DEF IInv, Working, engine
<1>8. ASSUME NEW t \in Threads PROVE Job(t)'
  <2>1. Job(t) /\ job[t].at \notin Rotates /\ job[t] \in Jobs
    BY <1>4, FreeIs, JobOf
  <2>2. ASSUME job[t].at \in Captured
        PROVE  /\ job[t].from \in 1 .. Acked' + 1
               /\ job[t].graph = ApplyAll(Start(dir), First(log', job[t].from - 1))
               /\ \A i \in job[t].from .. Len(log') : log'[i].kind # "graph"
    <3>1. /\ job[t].from \in 1 .. Acked + 1
          /\ job[t].graph = ApplyAll(Start(dir), First(log, job[t].from - 1))
          /\ \A i \in job[t].from .. Len(log) : log[i].kind # "graph"
      BY <1>3, <2>1, <2>2 DEF Job
    <3>2. PICK from \in Nat : from = job[t].from /\ from >= 1 /\ from <= Len(log) + 1
      BY <1>3, <3>1
    <3>3. First(log', from - 1) = First(log, from - 1)
      BY <1>1, <1>3, <3>2, FirstAppended
    <3>4. \A i \in from .. Len(log') : log'[i].kind # "graph"
      BY <1>1, <1>3, <3>1, <3>2
    <3> QED BY <1>3, <3>1, <3>2, <3>3, <3>4
  <2>3. ASSUME job[t].at = "cleaning"
        PROVE  FilesKept(log', synced, {job[t].graph})
               /\ \E i \in 1 .. Acked' : log'[i].kind = "graph"
    <3>1. FilesKept(log, synced, {job[t].graph}) /\ \E i \in 1 .. Acked : log[i].kind = "graph"
      BY <2>1, <2>3 DEF Job
    <3>2. FilesKept(log', synced, {job[t].graph})
      BY <1>1, <1>3, <3>1, KeptAppended
    <3> QED BY <1>3, <3>1, <3>2
  <2> QED BY <1>2, <1>3, <2>1, <2>2, <2>3, BoundsAssumption DEF Job, Placed, Rotates, Before
<1> QED BY <1>3, <1>5, <1>6, <1>7, <1>8 DEF IInv

\* An import is in the log, not yet acknowledged.
LEMMA ImportAppendsStep == ASSUME IInv, NEW t \in Threads, ImportAppends(t) PROVE IInv'
<1> DEFINE e == Replace(job[t].graph)
<1>1. e \in Entries /\ e.content = job[t].graph
  BY DEF IInv, Types, Entries, Replace
<1>2. /\ job[t].at = "marked" /\ GraphFree /\ Appends(e) /\ Goes(t, "appending")
         /\ UNCHANGED <<import_lock, writing>>
  BY DEF ImportAppends
<1>3. stage = "up" /\ import_lock = t /\ \A u \in Threads \ {t} : job[u].at = "idle"
  BY <1>2, OthersIdle DEF IInv
<1>4. \A d \in dirs : job[t].graph \in d.graphs
  BY <1>2 DEF IInv, Job, Placed
<1>5. /\ log' \in Seq(Entries) /\ log' = Append(log, e) /\ Len(log') = Len(log) + 1
         /\ Len(log) \in Nat
      /\ Len(log') <= MaxLog /\ tail' = <<e>> /\ tail' \in Seq(Entries) /\ Len(tail') = 1
          /\ tail'[1] = e
      /\ log'[Len(log')] = e /\ (\A i \in 1 .. Len(log) : log'[i] = log[i])
      /\ Acked' = Len(log) /\ Acked = Len(log) /\ synced = Len(log) /\ ~poisoned
          /\ log \in Seq(Entries)
      /\ UNCHANGED <<synced, dir, dirs, engine, promised>> /\ Directories'
  BY <1>1, <1>2, <1>3, <1>4, AppendsIs
<1>6. PICK k \in Jobs : /\ Turns(t, k) /\ k.at = "appending" /\ k.graph = job[t].graph
                        /\ k.from = job[t].from /\ job'[t] = k
  BY <1>2, GoesTo DEF Steps
<1>7. job' \in [Threads -> Jobs] /\ \A u \in Threads \ {t} : job'[u] = job[u]
  BY <1>6, TurnsIs DEF IInv
<1>8. Types' /\ Bounded'
  BY <1>2, <1>5, <1>7, BoundsAssumption DEF IInv, Types, Bounded, engine, Jobs
<1>9. InFlight'
  <2>1. ~GraphFree' /\ writing' = {}
    BY <1>2, <1>6 DEF GraphFree
  <2>2. tail' = <<Replace(job'[t].graph)>>
    BY <1>5, <1>6
  <2>3. \A u \in Threads : job'[u].at = "appending" => u = t
    BY <1>3, <1>7
  <2> HIDE DEF e
  <2> QED BY <1>5, <2>1, <2>2, <2>3 DEF InFlight
<1>10. Working'
  BY <1>2, <1>3, <1>5, <1>6, <1>7 DEF IInv, Working, engine, Rotates, Before
<1>11. Job(t)'
  BY <1>2, <1>4, <1>5, <1>6 DEF IInv, Job, Placed, Captured, Before, Rotates
<1>12. \A u \in Threads : Job(u)'
  BY <1>2, <1>6, <1>11, OtherJobs DEF IInv
<1> QED BY <1>5, <1>8, <1>9, <1>10, <1>12 DEF IInv

\* An append becomes durable, and what it waited for is promised.
LEMMA AppendOkIs ==
  ASSUME IInv, NEW graph, AppendOk(graph), stage = "up", tail # <<>>, graph = Apply(promised,
      tail[1])
  PROVE  /\ log \in Seq(Entries) /\ Len(log) \in Nat /\ Len(log) # 0 /\ synced' = Len(log)
         /\ synced \in 0 .. Len(log)
         /\ dirs' = {dir} /\ memory' = graph /\ promised' = graph /\ tail' = <<>> /\ Len(tail') = 0
         /\ tail' \in Seq(Entries) /\ graph \in Content /\ Acked \in 0 .. Len(log)
             /\ Acked' = Len(log)
         /\ ~poisoned /\ UNCHANGED <<log, dir, stage, poisoned>> /\ Directories'
             /\ tail[1] = log[Len(log)]
<1>1. /\ ~poisoned /\ LogFree /\ synced' = Len(log) /\ dirs' = {dir} /\ memory' = graph
      /\ promised' = graph /\ tail' = <<>> /\ UNCHANGED <<log, dir, stage, poisoned>>
  BY DEF AppendOk, SyncsLog
<1>2. /\ log \in Seq(Entries) /\ Len(log) \in Nat /\ synced \in 0 .. Len(log)
         /\ Acked \in 0 .. synced
      /\ Acked = Len(log) - Len(tail) /\ Len(tail) \in 0 .. 1 /\ Len(tail) <= Len(log)
          /\ tail \in Seq(Entries)
  BY Lengths DEF IInv
<1>3. Len(tail) = 1 /\ Len(log) # 0 /\ Acked \in 0 .. Len(log)
  BY <1>2, IsEmpty
<1>4. Len(tail') = 0 /\ tail' \in Seq(Entries) /\ Acked' = Len(log)
  BY <1>1, <1>2, EmptyTyped, EmptyLength DEF Acked
<1>5. dir \in dirs /\ dir.old = None /\ dir \in Dirs /\ GoodNow(dir)
  BY GoodHere DEF IInv, Types
<1>6. graph = ApplyAll(Start(dir), First(log, Len(log)))
  <2>1. Len(log) \in Acked .. Len(log) /\ Len(log) - Acked = 1
    BY <1>2, <1>3
  <2>2. ApplyAll(Start(dir), First(log, Len(log))) = ApplyAll(promised, SubSeq(tail, 1, 1))
    BY <1>5, <2>1, ReplaysTail DEF IInv, GoodNow
  <2>3. SubSeq(tail, 1, 1) = tail
    BY <1>2, <1>3, AllOf
  <2> QED BY <1>2, <1>3, <2>2, <2>3, ApplyOne
<1>7. graph \in Content
  <2>1. Start(dir) \in Content /\ First(log, Len(log)) = log
    BY <1>2, <1>5, StartTyped, AllOf DEF First
  <2> QED BY <1>2, <1>6, <2>1, ApplyTyped
<1>8. Directories'
  <2>1. FilesKept(log, Len(log), dir.graphs)
    BY <1>2, <1>5, KeptMore DEF GoodNow
  <2>2. GoodNow(dir)'
    BY <1>1, <1>3, <1>4, <1>6, <2>1 DEF GoodNow
  <2>3. ASSUME NEW d \in dirs' PROVE d.old = None /\ GoodNow(d)'
    BY <1>1, <1>5, <2>2
  <2> QED BY <2>3 DEF Directories
<1> QED BY <1>1, <1>2, <1>3, <1>4, <1>7, <1>8 DEF IInv, InFlight

\* A statement is acknowledged.
LEMMA StatementReturnsStep == ASSUME IInv, StatementReturns PROVE IInv'
<1>1. /\ stage = "up" /\ writing # {} /\ AppendOk(memory \cup writing) /\ writing' = {}
      /\ UNCHANGED <<import_lock, job>>
  BY DEF StatementReturns, Up
<1>2. PICK w \in Writes : writing = {w} /\ tail = <<Write(w)>>
  BY <1>1 DEF IInv, InFlight
<1>3. tail # <<>> /\ memory \cup writing = Apply(promised, tail[1])
  <2>1. memory = promised
    BY <1>1 DEF IInv, Working
  <2>2. tail[1] = Write(w) /\ tail # <<>>
    BY <1>2
  <2> QED BY <1>2, <2>1, <2>2 DEF Apply, Write
<1>4. PICK graph : graph = memory \cup writing
  OBVIOUS
<1>5. /\ log \in Seq(Entries) /\ Len(log) \in Nat /\ Len(log) # 0 /\ synced' = Len(log)
         /\ synced \in 0 .. Len(log)
      /\ dirs' = {dir} /\ memory' = graph /\ promised' = graph /\ tail' = <<>> /\ Len(tail') = 0
      /\ tail' \in Seq(Entries) /\ graph \in Content /\ Acked \in 0 .. Len(log) /\ Acked' = Len(log)
      /\ ~poisoned /\ UNCHANGED <<log, dir, stage, poisoned>> /\ Directories'
          /\ tail[1] = log[Len(log)]
  BY <1>1, <1>3, <1>4, AppendOkIs
<1>6. \A t \in Threads : job[t].at # "appending"
  BY <1>1 DEF IInv, InFlight
<1>7. Types' /\ Bounded'
  BY <1>1, <1>5 DEF IInv, Types, Bounded
<1>8. InFlight'
  BY <1>1, <1>5, <1>6 DEF InFlight
<1>9. Working'
  BY <1>1, <1>5 DEF IInv, Working
<1>10. ASSUME NEW t \in Threads PROVE Job(t)'
  <2>1. Job(t) /\ job[t].at \notin Rotates /\ job[t] \in Jobs
    BY <1>1, FreeIs, JobOf DEF AppendOk
  <2>2. ASSUME job[t].at = "cleaning"
        PROVE  FilesKept(log, Len(log), {job[t].graph})
               /\ \E i \in 1 .. Len(log) : log[i].kind = "graph"
    <3>1. FilesKept(log, synced, {job[t].graph}) /\ \E i \in 1 .. Acked : log[i].kind = "graph"
      BY <2>1, <2>2 DEF Job
    <3>2. FilesKept(log, Len(log), {job[t].graph})
      <4>1. log \in Seq(Entries) /\ Len(log) \in Nat /\ synced \in Nat /\ synced <= Len(log)
        BY Lengths DEF IInv
      <4> QED BY <3>1, <4>1, KeptMore
    <3> QED BY <1>5, <3>1, <3>2
  <2>3. dir \in dirs
    BY DEF IInv, Types
  <2>4. ASSUME job[t].at \in Captured PROVE job[t].from \in 1 .. Len(log) + 1
    BY <1>5, <2>1, <2>4 DEF Job
  <2> QED BY <1>1, <1>5, <2>1, <2>2, <2>3, <2>4 DEF Job, Placed, Rotates, Before
<1> QED BY <1>5, <1>7, <1>8, <1>9, <1>10 DEF IInv

\* An import is acknowledged.
LEMMA ImportCommitsStep == ASSUME IInv, NEW t \in Threads, ImportCommits(t) PROVE IInv'
<1>1. /\ job[t].at = "appending" /\ AppendOk(job[t].graph) /\ Goes(t, "cleaning")
      /\ UNCHANGED <<import_lock, writing>>
  BY DEF ImportCommits
<1>2. stage = "up" /\ import_lock = t /\ \A u \in Threads \ {t} : job[u].at = "idle"
  BY <1>1, OthersIdle DEF IInv
<1>3. writing = {} /\ tail = <<Replace(job[t].graph)>>
  BY <1>1 DEF IInv, InFlight
<1>4. PICK graph : graph = job[t].graph
  OBVIOUS
<1>5. tail # <<>> /\ graph = Apply(promised, tail[1]) /\ tail[1] = Replace(graph)
  <2>1. tail[1] = Replace(graph) /\ tail # <<>>
    BY <1>3, <1>4
  <2> QED BY <2>1 DEF Apply, Replace
<1>6. /\ log \in Seq(Entries) /\ Len(log) \in Nat /\ Len(log) # 0 /\ synced' = Len(log)
         /\ synced \in 0 .. Len(log)
      /\ dirs' = {dir} /\ memory' = graph /\ promised' = graph /\ tail' = <<>> /\ Len(tail') = 0
      /\ tail' \in Seq(Entries) /\ graph \in Content /\ Acked \in 0 .. Len(log) /\ Acked' = Len(log)
      /\ ~poisoned /\ UNCHANGED <<log, dir, stage, poisoned>> /\ Directories'
          /\ tail[1] = log[Len(log)]
  BY <1>1, <1>2, <1>4, <1>5, AppendOkIs
<1>7. PICK k \in Jobs : /\ Turns(t, k) /\ k.at = "cleaning" /\ k.graph = graph
                        /\ k.from = job[t].from /\ job'[t] = k
  BY <1>1, <1>4, GoesTo DEF Steps
<1>8. job' \in [Threads -> Jobs] /\ \A u \in Threads \ {t} : job'[u] = job[u]
  BY <1>7, TurnsIs DEF IInv
<1>9. Types' /\ Bounded'
  BY <1>1, <1>6, <1>8 DEF IInv, Types, Bounded, Jobs
<1>10. InFlight'
  <2>1. \A u \in Threads : job'[u].at # "appending"
    BY <1>2, <1>7, <1>8
  <2> QED BY <1>1, <1>3, <1>6, <2>1 DEF InFlight
<1>11. Working'
  BY <1>1, <1>2, <1>6, <1>7, <1>8 DEF IInv, Working, Rotates, Before
<1>12. Job(t)'
  <2>1. log[Len(log)].kind = "graph" /\ log[Len(log)].content = graph
    <3>1. log[Len(log)] = Replace(graph)
      BY <1>5, <1>6
    <3> QED BY <3>1 DEF Replace
  <2>2. Len(log) \in 1 .. Len(log)
    BY <1>6
  <2>3. FilesKept(log, Len(log), {graph})
    <3> SUFFICES ASSUME NEW i \in 1 .. Len(log), \A j \in i + 1 .. Len(log) : log[j].kind # "graph"
                 PROVE  log[i].content \in {graph}
      BY DEF FilesKept
    <3>1. i = Len(log)
      BY <1>6, <2>1
    <3> QED BY <2>1, <3>1
  <2>4. dir \in dirs /\ dir.old = None /\ graph \in dir.graphs
    BY <1>1, <1>4 DEF IInv, Types, Job, Placed
  <2>5. k.from <= MaxLog + 2
    BY <1>7 DEF IInv, Job
  <2> QED BY <1>6, <1>7, <2>1, <2>2, <2>3, <2>4, <2>5 DEF Job, Placed, Captured, Before, Rotates
<1>13. \A u \in Threads : Job(u)'
  BY <1>1, <1>7, <1>12, OtherJobs DEF IInv
<1> QED BY <1>6, <1>9, <1>10, <1>11, <1>13 DEF IInv

\* A failed append leaves a first part of the log, with all that was synced.
LEMMA AppendErrIs ==
  ASSUME IInv, AppendErr, stage = "up"
  PROVE  /\ log' \in Seq(Entries) /\ Len(log') \in synced .. Len(log) /\ Len(log) \in Nat
         /\ log \in Seq(Entries) /\ Acked \in 0 .. synced /\ synced \in 0 .. Len(log)
         /\ log' = SubSeq(log, 1, Len(log')) /\ \A i \in 1 .. Len(log') : log'[i] = log[i]
         /\ synced' = synced /\ Acked' = Acked /\ dirs' \subseteq dirs /\ dir \in dirs'
         /\ tail' \in {tail, <<>>} /\ (tail' = tail => log' = log) /\ tail' \in Seq(Entries)
         /\ Len(tail') <= 1 /\ Len(tail') <= Len(log')
         /\ poisoned' = TRUE /\ UNCHANGED <<dir, stage, memory, promised>> /\ Directories'
<1>1. LogFree /\ poisoned' = TRUE /\ UNCHANGED <<dir, stage, memory, promised>>
  BY DEF AppendErr
<1>2. /\ log \in Seq(Entries) /\ Len(log) \in Nat /\ synced \in 0 .. Len(log)
         /\ Acked \in 0 .. synced
      /\ Acked = Len(log) - Len(tail) /\ Len(tail) \in 0 .. 1 /\ Len(tail) <= Len(log)
          /\ tail \in Seq(Entries)
      /\ dir \in dirs
  BY Lengths DEF IInv, Types
<1>3. CASE UNCHANGED <<log, synced, dirs, tail>>
  <2>1. Acked' = Acked /\ SubSeq(log, 1, Len(log)) = log /\ Len(log) \in synced .. Len(log)
    BY <1>2, <1>3, AllOf DEF Acked
  <2>2. Directories'
    BY <1>1, <1>2, <1>3, DirectoriesStep DEF IInv
  <2>3. /\ log' = SubSeq(log, 1, Len(log')) /\ \A i \in 1 .. Len(log') : log'[i] = log[i]
        /\ Len(log') \in synced .. Len(log)
    BY <1>3, <2>1
  <2>4. tail' \in {tail, <<>>} /\ Len(tail') <= 1 /\ Len(tail') <= Len(log')
        /\ tail' \in Seq(Entries)
    <3>1. tail' = tail /\ log' = log
      BY <1>3
    <3>2. Len(tail) <= 1
      BY DEF IInv, InFlight
    <3> QED BY <1>2, <3>1, <3>2
  <2> QED BY <1>1, <1>2, <1>3, <2>1, <2>2, <2>3, <2>4
<1>4. CASE /\ ~poisoned /\ Len(log) > synced /\ log' = Front(log) /\ tail' = Front(tail)
           /\ synced' = Len(log') /\ dirs' = {dir}
  <2>1. Len(tail) = 1 /\ Acked = Len(log) - 1 /\ synced = Len(log) - 1
        /\ Len(log) - 1 \in 0 .. Len(log)
    <3>1. Len(tail) = 0 \/ Len(tail) = 1
      BY <1>2
    <3>2. Len(tail) = 1
      BY <1>2, <1>4, <3>1
    <3> QED BY <1>2, <1>4, <3>2
  <2>2. /\ log' \in Seq(Entries) /\ Len(log') = Len(log) - 1 /\ log' = SubSeq(log, 1, Len(log) - 1)
        /\ \A i \in 1 .. Len(log) - 1 : log'[i] = log[i]
    BY <1>2, <1>4, <2>1, Part1 DEF Front
  <2>3. tail' = <<>>
    <3>1. tail' = SubSeq(tail, 1, 0)
      BY <1>4, <2>1 DEF Front
    <3> QED BY <1>2, <3>1, NoneOf
  <2>4. tail' \in Seq(Entries) /\ Len(tail') = 0
    BY <2>3, EmptyTyped, EmptyLength
  <2>5. synced' = synced /\ Acked' = Acked
    BY <1>2, <1>4, <2>1, <2>2, <2>4 DEF Acked
  <2>6. dir.old = None /\ GoodNow(dir)
    BY GoodHere DEF IInv, Types
  <2>7. GoodNow(dir)'
    <3>1. PICK n \in 0 .. Len(log) : n = synced /\ n = Acked /\ n = Len(log) - 1
      BY <1>2, <2>1
    <3>2. First(log', n) = First(log, n)
      <4>1. n \in 0 .. n
        BY <3>1
      <4> QED BY <1>2, <2>2, <3>1, <4>1, FirstOfFirst
    <3>3. FilesKept(log', synced, dir.graphs)
      <4>1. n \in n .. Len(log) /\ FilesKept(log, n, dir.graphs)
        BY <1>2, <2>6, <3>1 DEF GoodNow
      <4> QED BY <1>2, <2>2, <3>1, <4>1, KeptFirst
    <3> QED BY <1>1, <2>5, <2>6, <3>1, <3>2, <3>3 DEF GoodNow, NextPromised
  <2>8. Directories'
    <3>1. ASSUME NEW d \in dirs' PROVE d.old = None /\ GoodNow(d)'
      BY <1>1, <1>4, <2>6, <2>7
    <3> QED BY <3>1 DEF Directories
  <2>9. Len(log') \in synced .. Len(log) /\ log' = SubSeq(log, 1, Len(log'))
        /\ \A i \in 1 .. Len(log') : log'[i] = log[i]
    BY <1>2, <2>1, <2>2
  <2>10. tail' # tail
    BY <2>1, <2>4
  <2>11. Len(tail') <= 1 /\ Len(tail') <= Len(log')
    BY <1>2, <2>2, <2>4, <2>1
  <2> QED BY <1>1, <1>2, <1>4, <2>2, <2>3, <2>4, <2>5, <2>8, <2>9, <2>10, <2>11
<1> QED BY <1>3, <1>4 DEF AppendErr, SyncsLog

\* A statement fails: it is undone, in the log too, or the log is poisoned.
LEMMA StatementFailsStep == ASSUME IInv, StatementFails PROVE IInv'
<1>1. stage = "up" /\ writing # {} /\ AppendErr /\ writing' = {} /\ UNCHANGED <<import_lock, job>>
  BY DEF StatementFails, Up
<1>2. /\ log' \in Seq(Entries) /\ Len(log') \in synced .. Len(log) /\ Len(log) \in Nat
      /\ log \in Seq(Entries) /\ Acked \in 0 .. synced /\ synced \in 0 .. Len(log)
      /\ log' = SubSeq(log, 1, Len(log')) /\ \A i \in 1 .. Len(log') : log'[i] = log[i]
      /\ synced' = synced /\ Acked' = Acked /\ dirs' \subseteq dirs /\ dir \in dirs'
      /\ tail' \in {tail, <<>>} /\ (tail' = tail => log' = log) /\ tail' \in Seq(Entries)
      /\ Len(tail') <= 1 /\ Len(tail') <= Len(log')
      /\ poisoned' = TRUE /\ UNCHANGED <<dir, stage, memory, promised>> /\ Directories'
  BY <1>1, AppendErrIs
<1>3. \A t \in Threads : job[t].at # "appending"
  BY <1>1 DEF IInv, InFlight
<1>4. \A t \in Threads : job[t].at \notin Rotates
  BY <1>1, FreeIs DEF AppendErr
<1>5. Types' /\ Bounded'
  BY <1>1, <1>2, BoundsAssumption DEF IInv, Types, Bounded
<1>6. InFlight'
  BY <1>1, <1>2, <1>3 DEF IInv, InFlight
<1>7. Working'
  BY <1>1, <1>2, <1>4 DEF IInv, Working
<1>8. ASSUME NEW t \in Threads PROVE Job(t)'
  <2>1. ASSUME job[t].at = "cleaning"
        PROVE  FilesKept(log', synced, {job[t].graph})
               /\ \E i \in 1 .. Acked : log'[i].kind = "graph"
    <3>1. FilesKept(log, synced, {job[t].graph}) /\ \E i \in 1 .. Acked : log[i].kind = "graph"
      BY <2>1 DEF IInv, Job
    <3>2. FilesKept(SubSeq(log, 1, Len(log')), synced, {job[t].graph})
      BY <1>2, <3>1, KeptFirst
    <3>3. Acked \in Nat /\ synced \in Nat /\ Len(log') \in Nat /\ Acked <= synced
          /\ synced <= Len(log')
      BY <1>2
    <3>4. \A i \in 1 .. Acked : i \in 1 .. Len(log')
      BY <3>3
    <3> QED BY <1>2, <3>1, <3>2, <3>4
  <2> QED BY <1>1, <1>2, <1>4, <2>1 DEF IInv, Job, Placed, Rotates, Before
<1> QED BY <1>2, <1>5, <1>6, <1>7, <1>8 DEF IInv

\* An import fails: it is undone, in the log too, or the log is poisoned.
LEMMA ImportFailsStep == ASSUME IInv, NEW t \in Threads, ImportFails(t) PROVE IInv'
<1>1. Ends(t) /\ UNCHANGED writing
  BY DEF ImportFails
<1>2. CASE job[t].at \in {"decoded", "imported", "marked"} /\ UNCHANGED <<files, engine, client>>
  <2>1. stage = "up" /\ \A u \in Threads \ {t} : job[u].at = "idle"
    BY <1>2, OthersIdle DEF IInv
  <2>2. Kept
    <3>1. (\A d \in dirs : d.old = None) \/ poisoned'
      BY <1>2, <2>1, OldWhen DEF IInv, engine
    <3> QED BY <1>1, <1>2, <3>1, KeptSame DEF files, engine, client
  <2>3. poisoned' = poisoned /\ poisoned' \in BOOLEAN
    BY <1>2 DEF engine, IInv, Types
  <2> QED BY <1>1, <1>2, <2>2, <2>3, EndStep
<1>3. CASE job[t].at = "appending" /\ AppendErr
  <2>1. /\ job' \in [Threads -> Jobs] /\ stage = "up" /\ import_lock' = "free"
        /\ \A u \in Threads : job'[u].at = "idle" /\ Job(u)'
    BY <1>1, <1>3, EndsIs
  <2>2. /\ log' \in Seq(Entries) /\ Len(log') \in synced .. Len(log) /\ Len(log) \in Nat
        /\ log \in Seq(Entries) /\ Acked \in 0 .. synced /\ synced \in 0 .. Len(log)
        /\ log' = SubSeq(log, 1, Len(log')) /\ \A i \in 1 .. Len(log') : log'[i] = log[i]
        /\ synced' = synced /\ Acked' = Acked /\ dirs' \subseteq dirs /\ dir \in dirs'
        /\ tail' \in {tail, <<>>} /\ (tail' = tail => log' = log) /\ tail' \in Seq(Entries)
        /\ Len(tail') <= 1 /\ Len(tail') <= Len(log')
        /\ poisoned' = TRUE /\ UNCHANGED <<dir, stage, memory, promised>> /\ Directories'
    BY <1>3, <2>1, AppendErrIs
  <2>3. writing = {}
    BY <1>3 DEF IInv, InFlight
  <2>4. Types' /\ Bounded'
    BY <1>1, <2>1, <2>2, BoundsAssumption DEF IInv, Types, Bounded, Jobs
  <2>5. InFlight'
    BY <1>1, <2>1, <2>2, <2>3 DEF IInv, InFlight
  <2>6. Working'
    BY <1>1, <2>1, <2>2 DEF IInv, Working, Rotates, Before
  <2> QED BY <2>1, <2>2, <2>4, <2>5, <2>6 DEF IInv
<1> QED BY <1>2, <1>3 DEF ImportFails

-----------------------------------------------------------------------------
\* The rename of a rotation: until the directory is synced, a power cut may leave
\* the log it replaced or the new one, and both say what is promised.
LEMMA RotateRenamesStep == ASSUME IInv, NEW t \in Threads, RotateRenames(t) PROVE IInv'
<1> DEFINE graph == job[t].graph
           from == job[t].from
           older == [dir EXCEPT !.old = Whole(log)]
<1>1. /\ job[t].at = "written" /\ Goes(t, "swapped") /\ log' = dir.next.log /\ synced' = Len(log')
      /\ dir' = [dir EXCEPT !.next = None] /\ dirs' = {older, dir'}
      /\ UNCHANGED <<engine, import_lock, writing, client>>
  BY DEF RotateRenames
<1>2. /\ ~poisoned /\ from \in 1 .. Acked + 1 /\ Acked \in 0 .. Len(log) /\ Len(log) \in Nat
      /\ NextLog(t) \in Seq(Entries) /\ Len(NextLog(t)) = Len(log) + 2 - from
      /\ NextLog(t)[1] = Replace(graph)
      /\ \A i \in 2 .. Len(NextLog(t)) : NextLog(t)[i] = log[from + i - 2]
  BY <1>1, NextLogIs DEF Before
<1>3. /\ synced = Len(log) /\ dir.next = Whole(NextLog(t)) /\ dirs = {dir} /\ graph \in dir.graphs
      /\ graph = ApplyAll(Start(dir), First(log, from - 1))
      /\ \A i \in from .. Len(log) : log[i].kind # "graph"
      /\ Len(log) <= MaxLog \/ Len(log) < from
      /\ from <= MaxLog + 2
  BY <1>1, <1>2 DEF IInv, Job, Placed, Captured, Before, Rotates
<1>4. /\ log \in Seq(Entries) /\ tail \in Seq(Entries) /\ Acked = Len(log) - Len(tail)
      /\ (Len(tail) = 0 \/ Len(tail) = 1) /\ Len(tail) <= Len(log)
  BY Lengths DEF IInv
<1>5. dir \in Dirs /\ dir.old = None /\ GoodNow(dir)
  BY GoodHere DEF IInv, Types
<1>6. stage = "up" /\ import_lock = t /\ \A u \in Threads \ {t} : job[u].at = "idle"
  BY <1>1, OthersIdle DEF IInv
<1>7. PICK k \in Jobs : /\ Turns(t, k) /\ k.at = "swapped" /\ k.graph = graph /\ k.from = from
      /\ job'[t] = k
  BY <1>1, GoesTo DEF Steps
<1>8. job' \in [Threads -> Jobs] /\ \A u \in Threads \ {t} : job'[u] = job[u]
  BY <1>7, TurnsIs DEF IInv
<1>9. log' = NextLog(t)
  BY <1>1, <1>3 DEF Whole
<1>10. /\ log' \in Seq(Entries) /\ Len(log') = Len(log) + 2 - from /\ log'[1] = Replace(graph)
       /\ \A i \in 2 .. Len(log') : log'[i] = log[from + i - 2]
  BY <1>2, <1>9
<1>11. PICK l \in Nat, a \in Nat, f \in Nat, n \in Nat, z \in Nat :
         /\ a = Acked /\ l = Len(log) /\ f = from /\ n = Len(log') /\ z = Len(tail)
         /\ z <= 1 /\ a <= l /\ f >= 1 /\ f <= a + 1 /\ n = l + 2 - f /\ a = l - z
  <2>1. PICK l \in Nat : l = Len(log)
    BY <1>2
  <2>2. PICK a \in Nat : a = Acked /\ a <= l
    BY <1>2, <2>1
  <2>3. PICK f \in Nat : f = from /\ f >= 1 /\ f <= a + 1
    BY <1>2, <2>2
  <2>4. PICK z \in Nat : z = Len(tail) /\ z <= 1
    <3>1. PICK z \in {0, 1} : z = Len(tail)
      BY <1>4
    <3>2. z \in Nat /\ z <= 1
      OBVIOUS
    <3> QED BY <3>1, <3>2
  <2>5. l + 2 - f \in Nat
    BY <2>1, <2>2, <2>3
  <2>6. Len(log') = l + 2 - f
    BY <1>10, <2>1, <2>3
  <2>7. a = l - z
    BY <1>4, <2>1, <2>2, <2>4
  <2> QED BY <2>1, <2>2, <2>3, <2>4, <2>5, <2>6, <2>7
<1>30. /\ n >= 1 /\ n - z = a + 2 - f /\ a + 2 - f >= 1 /\ a + 2 - f <= n /\ a + 2 - f \in 0 .. n
       /\ \A i \in 2 .. n : f + i - 2 \in f .. l
       /\ (z = 1 => n \in 2 .. n /\ f + n - 2 = l)
       /\ f - 1 \in 0 .. l /\ a \in f - 1 .. l /\ a + 2 - f = a - (f - 1) + 1
       /\ \A i \in 2 .. a + 2 - f : i \in 1 .. a + 2 - f /\ i \in 2 .. n
           /\ f + i - 2 = (f - 1) + i - 1
  <2>1. z <= 1 /\ a <= l /\ f >= 1 /\ f <= a + 1 /\ n = l + 2 - f /\ a = l - z
    BY <1>11
  <2> QED BY <2>1
<1>12. Len(log') \in Nat /\ Len(log') >= 1 /\ Acked' = a + 2 - f /\ a + 2 - f >= 1
       /\ a + 2 - f <= Len(log')
  <2>1. tail' = tail
    BY <1>1 DEF client
  <2> QED BY <1>11, <1>30, <2>1 DEF Acked
<1>13. \A i \in 2 .. Len(log') : log'[i].kind # "graph"
  <2> SUFFICES ASSUME NEW i \in 2 .. Len(log') PROVE log'[i].kind # "graph"
    OBVIOUS
  <2>1. i \in 2 .. n /\ f + i - 2 \in f .. l
    BY <1>11, <1>30
  <2>2. \A j \in f .. l : log[j].kind # "graph"
    BY <1>3, <1>11
  <2> QED BY <1>10, <1>11, <2>1, <2>2
<1>14. PICK e : e = [dir EXCEPT !.next = None]
  OBVIOUS
<1>15. None \in LogFiles /\ None.is = "none"
  BY EmptyTyped DEF None, LogFiles
<1>16. /\ e \in Dirs /\ e.old = None /\ Start(e) = Start(dir) /\ e.graphs = dir.graphs
          /\ e.next = None
  BY <1>5, <1>14, <1>15, GoodNext
<1>17. PICK o : o = older
  OBVIOUS
<1>18. /\ o \in Dirs /\ o.old = Whole(log) /\ Start(o) = Start(dir) /\ o.graphs = dir.graphs
          /\ o.next = dir.next
       /\ o.old # None
  BY <1>4, <1>5, <1>17 DEF Dirs, LogFiles, Whole, None, Start
<1>19. dir' = e /\ dirs' = {o, e}
  BY <1>1, <1>14, <1>17
<1>20. /\ Types' /\ Bounded'
  <2>1. Len(log') <= MaxLog + 1
    <3>1. MaxLog \in Nat /\ l <= MaxLog + 1 /\ (l <= MaxLog \/ l < f)
      BY <1>3, <1>11, BoundsAssumption DEF IInv, Bounded
    <3>2. n = l + 2 - f /\ f >= 1 /\ Len(log') = n
      BY <1>11
    <3> QED BY <3>1, <3>2
  <2>2. synced' \in 0 .. Len(log')
    BY <1>1, <1>12
  <2> QED BY <1>1, <1>8, <1>10, <1>16, <1>18, <1>19, <2>1, <2>2
          DEF IInv, Types, Bounded, Jobs, engine, client
<1>21. \A u \in Threads : job[u].at # "appending" /\ job'[u].at # "appending"
  BY <1>1, <1>6, <1>7, <1>8
<1>22. InFlight'
  <2>1. tail # <<>> => log'[Len(log')] = log[Len(log)]
    <3> SUFFICES ASSUME tail # <<>> PROVE log'[Len(log')] = log[Len(log)]
      OBVIOUS
    <3>1. Len(tail) = 1
      BY <1>4, IsEmpty
    <3>3. n \in 2 .. n /\ f + n - 2 = l
      BY <1>11, <1>30, <3>1
    <3> QED BY <1>10, <1>11, <3>3
  <2>2. GraphFree' <=> GraphFree
    BY <1>1, <1>21 DEF GraphFree
  <2>3. Acked' <= synced' /\ Len(tail) <= Len(log')
    <3>1. n - z >= 1
      BY <1>30
    <3>2. Len(tail) <= Len(log')
      BY <1>11, <3>1
    <3> QED BY <1>1, <1>12, <3>2
  <2> QED BY <1>1, <1>21, <2>1, <2>2, <2>3 DEF IInv, InFlight, engine, client
<1>23. Working'
  BY <1>1, <1>2, <1>6, <1>7, <1>8 DEF IInv, Working, Rotates, Before, engine, client
<1>24. GoodNow(e)'
  <2>1. PICK u \in Seq(Entries) : /\ u = First(log', Acked') /\ Len(u) = a + 2 - f
                                  /\ \A i \in 1 .. a + 2 - f : u[i] = log'[i]
    <3>1. a + 2 - f \in 0 .. Len(log')
      BY <1>11, <1>12
    <3> QED BY <1>10, <1>12, <3>1, Part1 DEF First
  <2>2. PICK m \in 0 .. l : m = f - 1 /\ a \in m .. l
    BY <1>30
  <2>3. Len(u) = a - m + 1
    BY <1>30, <2>1, <2>2
  <2>4. u[1] = Replace(graph)
    BY <1>10, <1>12, <2>1
  <2>5. ASSUME NEW i \in 2 .. Len(u) PROVE u[i] = log[m + i - 1]
    <3>1. i \in 2 .. a + 2 - f
      BY <2>1
    <3>2. i \in 1 .. a + 2 - f /\ i \in 2 .. n /\ f + i - 2 = m + i - 1
      BY <1>30, <2>2, <3>1
    <3> QED BY <1>10, <1>11, <2>1, <3>2
  <2>6. u[1].kind = "graph" /\ u[1].content = ApplyAll(Start(dir), SubSeq(log, 1, m))
    BY <1>3, <1>11, <2>2, <2>4 DEF Replace, First
  <2>7. ApplyAll(Start(e), u) = ApplyAll(Start(dir), SubSeq(log, 1, a))
    <3>1. PICK v : v = log
      OBVIOUS
    <3>2. v \in Seq(Entries) /\ m \in 0 .. Len(v) /\ a \in m .. Len(v)
          /\ \A i \in 2 .. Len(u) : u[i] = v[m + i - 1]
      BY <1>4, <1>11, <2>2, <2>5, <3>1
    <3>3. u[1].kind = "graph" /\ u[1].content = ApplyAll(Start(dir), SubSeq(v, 1, m))
      BY <2>6, <3>1
    <3>4. ApplyAll(Start(e), u) = ApplyAll(Start(dir), SubSeq(v, 1, a))
      BY <2>3, <3>2, <3>3, ApplyRotated
    <3> QED BY <3>1, <3>4
  <2>8. ApplyAll(Start(e), u) = promised
    BY <1>5, <1>11, <2>7 DEF GoodNow, First
  <2>9. FilesKept(log', Len(log'), e.graphs)
    BY <1>3, <1>10, <1>12, <1>13, <1>16 DEF FilesKept, Replace
  <2> QED BY <1>1, <1>12, <1>15, <1>16, <2>1, <2>8, <2>9 DEF GoodNow, client
<1>25. GoodOld(o)'
  <2>1. ApplyAll(Start(o), log) = ApplyAll(promised, tail)
    <3>1. Len(log) \in Acked .. Len(log) /\ Len(log) - Acked = Len(tail)
      BY <1>4, <1>11
    <3>2. ApplyAll(Start(dir), First(log, Len(log))) = ApplyAll(promised, SubSeq(tail, 1,
          Len(tail)))
      BY <1>5, <3>1, ReplaysTail DEF IInv, GoodNow
    <3> QED BY <1>4, <1>18, <3>2, AllOf DEF First
  <2>2. FilesKept(log, Len(log), o.graphs)
    BY <1>3, <1>5, <1>18 DEF GoodNow
  <2>3. ASSUME log = <<>> PROVE tail = <<>> /\ NextPromised(o)
    <3>1. Len(log) = 0 /\ synced = 0
      BY <1>3, <1>4, <2>3, IsEmpty
    <3>2. tail = <<>>
      <4>1. Len(tail) = 0
        BY <1>4, <3>1
      <4> QED BY <1>4, <4>1, IsEmpty
    <3>3. NextPromised(dir)
      BY <1>3, <1>5, <3>1 DEF GoodNow, Whole
    <3> QED BY <1>18, <3>2, <3>3 DEF NextPromised
  <2>4. /\ Whole(log).is = "whole" /\ Whole(log).log = log /\ Len(log) <= MaxLog + 1
    BY DEF Whole, IInv, Bounded
  <2>5. job'[t].at = "swapped" /\ promised' = promised /\ tail' = tail
    BY <1>1, <1>7 DEF client
  <2> QED BY <1>18, <2>1, <2>2, <2>3, <2>4, <2>5 DEF GoodOld, NextPromised
<1>26. Directories'
  BY <1>16, <1>18, <1>19, <1>24, <1>25 DEF Directories
<1>27. Job(t)'
  BY <1>1, <1>3, <1>7, <1>10, <1>12, <1>13, <1>16, <1>18, <1>19
      DEF Job, Placed, Captured, Before, Rotates
<1>28. \A u \in Threads : Job(u)'
  BY <1>1, <1>7, <1>27, OtherJobs DEF IInv
<1> QED BY <1>20, <1>22, <1>23, <1>26, <1>28 DEF IInv

-----------------------------------------------------------------------------
\* Nothing of the process is left when it stops.
LEMMA StoppedIs ==
  ASSUME Stopped
  PROVE  /\ job' \in [Threads -> Jobs] /\ stage' = "down" /\ memory' = {} /\ ~poisoned'
         /\ poisoned' \in BOOLEAN
         /\ import_lock' = "free" /\ writing' = {} /\ memory' \in Content
         /\ \A t \in Threads : job'[t].at = "idle" /\ Job(t)'
<1>1. Idle \in Jobs /\ Idle.at = "idle" /\ Idle.from = 0
  BY DEF Idle, Jobs, Steps, Content
<1>2. job' \in [Threads -> Jobs] /\ \A t \in Threads : job'[t] = Idle
  BY <1>1 DEF Stopped
<1>3. ASSUME NEW t \in Threads PROVE Job(t)'
  BY <1>1, <1>2, BoundsAssumption, IdleJob
<1> QED BY <1>1, <1>2, <1>3 DEF Stopped, Content

\* A kill leaves the files as a reader saw them.
LEMMA StopsStep ==
  ASSUME IInv, Stopped, UNCHANGED <<files, client>>
  PROVE  IInv'
<1>1. /\ job' \in [Threads -> Jobs] /\ stage' = "down" /\ memory' = {} /\ ~poisoned'
         /\ poisoned' \in BOOLEAN
      /\ import_lock' = "free" /\ writing' = {} /\ memory' \in Content
      /\ \A t \in Threads : job'[t].at = "idle" /\ Job(t)'
  BY StoppedIs
<1>2. Types' /\ Bounded'
  BY <1>1 DEF IInv, Types, Bounded, files, client, Jobs
<1>3. InFlight' /\ Working'
  BY <1>1 DEF IInv, InFlight, Working, files, client, Acked, Rotates, Before
<1>4. Directories'
  <2>1. \A d \in dirs : d.old = None => GoodNow(d)'
    BY DEF IInv, Directories, GoodNow, NextPromised, files, client, Acked
  <2>2. \A d \in dirs : d.old # None => GoodOld(d)'
    BY <1>1 DEF IInv, Directories, GoodOld, NextPromised, files, client
  <2> QED BY <2>1, <2>2 DEF Directories, files
<1> QED BY <1>1, <1>2, <1>3, <1>4 DEF IInv

\* What a power cut may leave is fit to be opened.
Fit(found) ==
  /\ found.log \in Seq(Entries) /\ Len(found.log) <= MaxLog + 1
  /\ found.dir \in Dirs /\ found.dir.old = None
  /\ FilesKept(found.log, Len(found.log), found.dir.graphs)
  /\ found.dir.next.is = "whole" /\ found.log = <<>> => NextPromised(found.dir)

\* The log beside a directory is fit to be opened with it.
LEMMA FitNow ==
  ASSUME Types, InFlight, Bounded, NEW d \in dirs, d.old = None, GoodNow(d),
      NEW n \in synced .. Len(log)
  PROVE  Fit([log |-> SubSeq(log, 1, n), dir |-> d])
<1>1. log \in Seq(Entries) /\ Len(log) \in Nat /\ synced \in 0 .. Len(log) /\ Len(log) <= MaxLog + 1
  BY Lengths DEF Bounded
<1>2. n \in 0 .. Len(log) /\ n \in Nat /\ synced \in Nat /\ synced <= n /\ n <= MaxLog + 1
  BY <1>1, BoundsAssumption
<1>3. PICK u \in Seq(Entries) : u = SubSeq(log, 1, n) /\ Len(u) = n
  BY <1>1, <1>2, Part1
<1>4. FilesKept(u, n, d.graphs)
  <2>1. FilesKept(u, synced, d.graphs)
    BY <1>1, <1>3, KeptFirst DEF GoodNow
  <2> QED BY <1>2, <2>1, KeptMore
<1>5. u = <<>> => synced = 0
  BY <1>1, <1>2, <1>3, IsEmpty
<1>6. d \in Dirs
  BY DEF Types
<1> QED BY <1>2, <1>3, <1>4, <1>5, <1>6 DEF Fit, GoodNow

\* So is the log that a rename replaced.
LEMMA FitOld ==
  ASSUME Types, NEW d \in dirs, d.old # None, GoodOld(d)
  PROVE  Fit([log |-> d.old.log, dir |-> [d EXCEPT !.old = None]])
<1> DEFINE e == [d EXCEPT !.old = None]
<1>1. d \in Dirs /\ None \in LogFiles
  BY EmptyTyped DEF Types, None, LogFiles
<1>2. /\ e \in Dirs /\ e.graphs = d.graphs /\ e.next = d.next /\ e.old = None
  BY <1>1 DEF Dirs
<1>3. d.old.log \in Seq(Entries)
  BY <1>1 DEF Dirs, LogFiles
<1> HIDE DEF e
<1>4. Fit([log |-> d.old.log, dir |-> e])
  BY <1>2, <1>3 DEF Fit, GoodOld, NextPromised
<1> QED BY <1>4 DEF e

\* So is everything a power cut may leave.
LEMMA FitAll ==
  ASSUME IInv, NEW found \in AfterPowerCut
  PROVE  Fit(found) /\ Opens(found)
<1>1. Opens(found)
  BY OpensAll DEF IInv
<1>2. ASSUME NEW d \in dirs, d.old = None, NEW n \in synced .. Len(log)
      PROVE  Fit([log |-> SubSeq(log, 1, n), dir |-> d])
  BY <1>2, FitNow DEF IInv, Directories
<1>3. ASSUME NEW d \in dirs, d.old # None
      PROVE  Fit([log |-> d.old.log, dir |-> [d EXCEPT !.old = None]])
  BY <1>3, FitOld DEF IInv, Directories
<1>4. CASE \E d \in {e \in dirs : e.old = None}, n \in synced .. Len(log) :
             found = [log |-> SubSeq(log, 1, n), dir |-> d]
  BY <1>1, <1>2, <1>4
<1>5. CASE \E d \in {e \in dirs : e.old # None} :
             found = [log |-> d.old.log, dir |-> [d EXCEPT !.old = None]]
  BY <1>1, <1>3, <1>5
<1> QED BY <1>4, <1>5 DEF AfterPowerCut

\* A power cut leaves one of the directories and some of the log.
LEMMA PowerCutStep == ASSUME IInv, PowerCut PROVE IInv'
<1>1. PICK found \in AfterPowerCut :
        /\ log' = found.log /\ synced' = Len(found.log) /\ dir' = found.dir /\ dirs' = {found.dir}
        /\ promised' = IF Recover(found) = Refused THEN promised ELSE Recover(found)
  BY DEF PowerCut
<1>2. Stopped /\ tail' = <<>>
  BY DEF PowerCut
<1>3. /\ job' \in [Threads -> Jobs] /\ stage' = "down" /\ memory' = {} /\ ~poisoned'
         /\ poisoned' \in BOOLEAN
      /\ import_lock' = "free" /\ writing' = {} /\ memory' \in Content
      /\ \A t \in Threads : job'[t].at = "idle" /\ Job(t)'
  BY <1>2, StoppedIs
<1>4. Fit(found) /\ Opens(found)
  BY FitAll
<1>5. PICK d \in Dirs, s \in Seq(Entries) : d = found.dir /\ s = found.log
  BY <1>4 DEF Fit
<1>6. Len(s) \in Nat /\ Len(s) <= MaxLog + 1 /\ d.old = None
  BY <1>4, <1>5, Typed DEF Fit
<1>7. promised' = ApplyAll(Start(d), s)
  <2>1. CASE Recover(found) # Refused
    BY <1>1, <1>4, <1>5, <2>1 DEF Opens
  <2>2. CASE Recover(found) = Refused
    <3>1. Recover(found) \notin Allowed
      <4>1. \A n \in 0 .. Len(tail) : ApplyAll(promised, SubSeq(tail, 1, n)) \in Content
        <5>1. promised \in Content /\ tail \in Seq(Entries)
          BY DEF IInv, Types
        <5> QED BY <5>1, Part1, ApplyTyped
      <4> QED BY <2>2, <4>1, ContentIsNotRefused DEF Allowed
    <3>2. s = <<>> /\ promised = Start(d)
      BY <1>4, <1>5, <3>1 DEF Opens
    <3> QED BY <1>1, <2>2, <3>2, ApplyNone
  <2> QED BY <2>1, <2>2
<1>8. promised' \in Content
  BY <1>7, StartTyped, ApplyTyped
<1>9. tail' \in Seq(Entries) /\ Len(tail') = 0 /\ Acked' = Len(s)
  BY <1>1, <1>2, <1>5, <1>6, EmptyTyped, EmptyLength DEF Acked
<1>10. Types' /\ Bounded'
  BY <1>1, <1>3, <1>5, <1>6, <1>8, <1>9 DEF Types, Bounded, Jobs
<1>11. InFlight' /\ Working'
  BY <1>1, <1>2, <1>3, <1>5, <1>6, <1>9 DEF InFlight, Working, Rotates, Before
<1>12. Directories'
  <2>1. First(s, Len(s)) = s
    BY AllOf DEF First
  <2>2. d.next.is = "whole" /\ Len(s) = 0 => NextPromised(d)'
    <3> SUFFICES ASSUME d.next.is = "whole", Len(s) = 0 PROVE NextPromised(d)'
      OBVIOUS
    <3>1. s = <<>>
      BY IsEmpty
    <3>2. NextPromised(d)
      BY <1>4, <1>5, <3>1 DEF Fit
    <3>3. Recover(found) = promised /\ promised \in Content
      <4>1. promised \in Content
        BY DEF IInv, Types
      <4> QED BY <1>5, <3>1, <3>2, <4>1, RecoverNext DEF NextPromised
    <3>4. promised' = promised
      BY <1>1, <3>3
    <3> QED BY <3>2, <3>4 DEF NextPromised
  <2>3. FilesKept(s, Len(s), d.graphs)
    BY <1>4, <1>5 DEF Fit
  <2>4. GoodNow(d)'
    BY <1>1, <1>5, <1>7, <1>9, <2>1, <2>2, <2>3 DEF GoodNow
  <2> QED BY <1>1, <1>5, <1>6, <2>4 DEF Directories
<1> QED BY <1>3, <1>10, <1>11, <1>12 DEF IInv

\* An open reads what is there.
LEMMA OpenReadsStep == ASSUME IInv, FoundIsDurable, OpenReads PROVE IInv'
<1>1. /\ stage = "down" /\ Recover(Seen) # Refused /\ stage' = "opening" /\ memory' = Recover(Seen)
      /\ log' = SettledLog(Seen) /\ dir' = [dir EXCEPT !.next = None] /\ synced' = Len(log')
      /\ dirs' = {dir'} /\ promised' = memory' /\ tail' = <<>> /\ UNCHANGED <<poisoned, threads>>
  BY DEF OpenReads, SyncsLog
<1>2. /\ log \in Seq(Entries) /\ dir \in Dirs /\ dir.old = None /\ dir \in dirs /\ GoodNow(dir)
      /\ synced \in 0 .. Len(log) /\ Len(log) \in Nat /\ promised \in Content
  BY GoodHere, Lengths DEF IInv, Types
<1>3. /\ ~poisoned /\ writing = {} /\ \A t \in Threads : job[t].at = "idle"
  BY <1>1 DEF IInv, Working
<1>4. None \in LogFiles /\ None.is = "none"
  BY EmptyTyped DEF None, LogFiles
<1>5. PICK e : e = [dir EXCEPT !.next = None]
  OBVIOUS
<1>6. /\ e \in Dirs /\ e.old = None /\ Start(e) = Start(dir) /\ e.graphs = dir.graphs
         /\ e.next = None
  BY <1>2, <1>4, <1>5, GoodNext
<1>7. Seen.log = log /\ Seen.dir = dir
  BY DEF Seen
<1>8. Opens(Seen)
  BY OpensAll DEF IInv
<1>9. PICK s \in Seq(Entries) :
        /\ s = log' /\ Len(s) <= MaxLog + 1 /\ Recover(Seen) = ApplyAll(Start(dir), s)
        /\ FilesKept(s, Len(s), dir.graphs)
  <2>1. CASE SettledLog(Seen) = log
    <3>1. Recover(Seen) = ApplyAll(Start(dir), log)
      BY <1>1, <1>7, <1>8 DEF Opens
    <3>2. FilesKept(log, Len(log), dir.graphs)
      <4>1. synced \in Nat /\ synced <= Len(log)
        BY <1>2
      <4> QED BY <1>2, <4>1, KeptMore DEF GoodNow
    <3> QED BY <1>1, <1>2, <2>1, <3>1, <3>2 DEF IInv, Bounded
  <2>2. CASE SettledLog(Seen) # log
    <3>1. log = <<>> /\ dir.next.is = "whole" /\ SettledLog(Seen) = dir.next.log
      BY <1>7, <2>2 DEF SettledLog
    <3>2. synced = 0
      BY <1>2, <3>1, IsEmpty
    <3>3. dir.next.log = <<Replace(promised)>> /\ promised \in dir.graphs
      BY <1>2, <3>1, <3>2 DEF GoodNow, NextPromised
    <3>4. Recover(Seen) = promised
      BY <1>2, <1>7, <3>1, <3>3, RecoverNext
    <3>5. PICK s \in Seq(Entries) : s = <<Replace(promised)>> /\ Len(s) = 1
          /\ s[1] = Replace(promised)
      <4>1. Replace(promised) \in Entries
        BY <1>2 DEF Replace, Entries
      <4> QED BY <4>1, OneTyped
    <3>6. ApplyAll(Start(dir), s) = promised
      BY <3>5, ApplyOne DEF Apply, Replace
    <3>7. FilesKept(s, Len(s), dir.graphs)
      BY <3>3, <3>5 DEF FilesKept, Replace
    <3>8. Len(s) <= MaxLog + 1
      BY <3>5, BoundsAssumption
    <3> QED BY <1>1, <3>1, <3>3, <3>4, <3>5, <3>6, <3>7, <3>8
  <2> QED BY <2>1, <2>2
<1>10. promised' = ApplyAll(Start(dir), s) /\ memory' = promised' /\ promised' \in Content
  BY <1>1, <1>2, <1>9, StartTyped, ApplyTyped
<1>11. Len(s) \in Nat /\ tail' \in Seq(Entries) /\ Len(tail') = 0 /\ Acked' = Len(s)
       /\ synced' = Len(s)
  BY <1>1, <1>9, Typed, EmptyTyped, EmptyLength DEF Acked
<1>12. dir' = e /\ dirs' = {e}
  BY <1>1, <1>5
<1>13. Types' /\ Bounded'
  <2>1. poisoned' \in BOOLEAN /\ import_lock' \in Threads \cup {"free"}
        /\ job' \in [Threads -> [at : Steps, graph : Content, from : Nat]]
        /\ writing' \in SUBSET Writes
    BY <1>1 DEF IInv, Types, threads
  <2>2. stage' = "opening" /\ memory' \in Content /\ promised' \in Content
        /\ tail' \in Seq(Entries)
    BY <1>1, <1>10, <1>11
  <2>3. dir' \in dirs' /\ dirs' \subseteq Dirs /\ dir'.old = None
    BY <1>6, <1>12
  <2>4. log' \in Seq(Entries) /\ Len(log') = Len(s) /\ Len(s) <= MaxLog + 1
    BY <1>1, <1>9
  <2>5. synced' \in 0 .. Len(log')
    BY <1>11, <2>4
  <2> QED BY <2>1, <2>2, <2>3, <2>4, <2>5 DEF Types, Bounded
<1>14. InFlight' /\ Working'
  <2>1. job' = job /\ writing' = writing
    BY <1>1 DEF threads
  <2>2. Acked' <= synced' /\ Len(tail') <= 1 /\ Len(tail') <= Len(log')
    BY <1>9, <1>11
  <2>3. InFlight'
    BY <1>1, <1>3, <2>1, <2>2 DEF InFlight
  <2>4. Working'
    BY <1>1, <1>3, <1>4, <1>6, <1>9, <1>10, <1>11, <1>12, <2>1 DEF Working, Rotates, Before
  <2> QED BY <2>3, <2>4
<1>15. Directories'
  <2>1. First(s, Len(s)) = s
    BY AllOf DEF First
  <2>2. GoodNow(e)'
    BY <1>4, <1>6, <1>9, <1>10, <1>11, <2>1 DEF GoodNow
  <2> QED BY <1>6, <1>12, <2>2 DEF Directories
<1>16. ASSUME NEW t \in Threads PROVE Job(t)'
  <2>1. job' = job /\ job[t].from <= MaxLog + 2
    BY <1>1 DEF threads, IInv, Job
  <2> QED BY <1>3, <2>1, IdleJob
<1> QED BY <1>13, <1>14, <1>15, <1>16 DEF IInv

\* An open has what it read on disk, and knows the last graph of the log.
LEMMA OpeningIs ==
  ASSUME IInv, stage = "opening"
  PROVE  /\ log \in Seq(Entries) /\ Len(log) \in Nat /\ synced = Len(log) /\ Acked = Len(log)
         /\ tail = <<>>
         /\ dir.next.is = "none" /\ dir \in dirs
         /\ \A d \in dirs : d \in Dirs /\ d.old = None /\ GoodNow(d)
         /\ writing = {} /\ ~poisoned /\ memory = promised /\ \A t \in Threads : job[t].at = "idle"
         /\ StaleAtOpen => /\ LastGraph(log) \in 1 .. Len(log) /\ log[LastGraph(log)].kind = "graph"
                           /\ Base(log) = log[LastGraph(log)].content
                           /\ Base(log) \in dir.graphs
                           /\ FilesKept(log, Len(log), {Base(log)})
<1>1. /\ tail = <<>> /\ synced = Len(log) /\ dir.next.is = "none" /\ (\A d \in dirs : d.old = None)
      /\ writing = {} /\ ~poisoned /\ memory = promised /\ \A t \in Threads : job[t].at = "idle"
  BY DEF IInv, Working
<1>2. log \in Seq(Entries) /\ Len(log) \in Nat /\ Acked = Len(log) - Len(tail) /\ dir \in dirs
      /\ dirs \subseteq Dirs
  BY Lengths DEF IInv, Types
<1>3. Acked = Len(log)
  BY <1>1, <1>2, EmptyLength
<1>4. \A d \in dirs : GoodNow(d)
  BY <1>1 DEF IInv, Directories
<1>5. ASSUME StaleAtOpen
      PROVE  /\ LastGraph(log) \in 1 .. Len(log) /\ log[LastGraph(log)].kind = "graph"
             /\ Base(log) = log[LastGraph(log)].content
             /\ Base(log) \in dir.graphs
             /\ FilesKept(log, Len(log), {Base(log)})
  <2>1. LastGraph(log) # 0 /\ Base(log) = log[LastGraph(log)].content
    BY <1>5 DEF StaleAtOpen, Base
  <2>2. PICK m \in 1 .. Len(log) : /\ m = LastGraph(log) /\ log[m].kind = "graph"
                                   /\ \A j \in m + 1 .. Len(log) : log[j].kind # "graph"
    BY <1>2, <2>1, LastGraphIs
  <2>3. log[m].content \in dir.graphs
    BY <1>1, <1>2, <1>4, <2>2 DEF GoodNow, FilesKept
  <2>4. FilesKept(log, Len(log), {log[m].content})
    <3> SUFFICES ASSUME NEW i \in 1 .. Len(log), log[i].kind = "graph",
                        \A j \in i + 1 .. Len(log) : log[j].kind # "graph"
                 PROVE  i = m
      BY DEF FilesKept
    <3>1. ~(i < m) /\ ~(m < i)
      BY <1>2, <2>2
    <3> QED BY <1>2, <2>2, <3>1
  <2> QED BY <2>1, <2>2, <2>3, <2>4
<1> QED BY <1>1, <1>2, <1>3, <1>4, <1>5

\* The directory changes while an open ends, and nothing else does.
LEMMA OpeningStep ==
  ASSUME IInv, stage = "opening", stage' \in {"opening", "up"},
         UNCHANGED <<log, synced, memory, poisoned, threads, client>>,
         dir' \in dirs', dirs' \subseteq dirs \cup {dir'}, dir' \in Dirs, dir'.old = None,
             dir'.next = dir.next,
         GoodNow(dir')
  PROVE  IInv'
<1>1. /\ synced = Len(log) /\ tail = <<>> /\ dir.next.is = "none" /\ dir \in dirs
      /\ \A d \in dirs : d \in Dirs /\ d.old = None /\ GoodNow(d)
      /\ writing = {} /\ ~poisoned /\ memory = promised /\ \A t \in Threads : job[t].at = "idle"
  BY OpeningIs
<1>2. Types' /\ Bounded'
  BY <1>1 DEF IInv, Types, Bounded, threads, client
<1>3. InFlight' /\ Working'
  BY <1>1 DEF IInv, InFlight, Working, threads, client, Acked, GraphFree, Rotates, Before
<1>4. Directories'
  BY <1>1, DirectoriesStep DEF IInv, client
<1>5. ASSUME NEW t \in Threads PROVE Job(t)'
  <2>1. job' = job /\ job[t].from <= MaxLog + 2
    BY DEF threads, IInv, Job
  <2> QED BY <1>1, <2>1, IdleJob
<1> QED BY <1>2, <1>3, <1>4, <1>5 DEF IInv

\* An open removes a file that the log does not start from.
LEMMA OpenRemovesStep == ASSUME IInv, OpenRemoves PROVE IInv'
<1>1. /\ stage = "opening" /\ StaleAtOpen /\ UNCHANGED <<log, synced, engine, threads, client>>
      /\ \E graph \in dir.graphs \ {Base(log)} : Changes([dir EXCEPT !.graphs = @ \ {graph}])
  BY DEF OpenRemoves, Removes
<1>2. PICK graph \in dir.graphs \ {Base(log)} : Changes([dir EXCEPT !.graphs = @ \ {graph}])
  BY <1>1
<1>3. /\ log \in Seq(Entries) /\ Len(log) \in Nat /\ synced = Len(log)
      /\ dir \in Dirs /\ dir.old = None /\ GoodNow(dir)
      /\ LastGraph(log) \in 1 .. Len(log) /\ Base(log) \in dir.graphs
      /\ FilesKept(log, synced, {Base(log)})
  BY <1>1, OpeningIs
<1>4. PICK keep \in dir.graphs : keep = Base(log) /\ keep # graph
  BY <1>2, <1>3
<1>5. PICK e : e = [dir EXCEPT !.graphs = @ \ {graph}]
  OBVIOUS
<1>6. synced # 0
  BY <1>3
<1>7. GoodNow(e) /\ e \in Dirs /\ e.old = None /\ e.next = dir.next
  <2>1. e = Less(dir, graph) /\ Enough(keep)
    <3>1. e = Less(dir, graph)
      BY <1>5 DEF Less
    <3>2. Enough(keep)
      BY <1>3, <1>4 DEF Enough
    <3> QED BY <3>1, <3>2
  <2> QED BY <1>3, <1>4, <1>6, <2>1, GoodWithout
<1>8. dir' = e /\ dirs' = dirs \cup {e}
  BY <1>2, <1>5 DEF Changes
<1> QED BY <1>1, <1>7, <1>8, OpeningStep DEF engine

\* An open is done, and may have changed the log's format.
LEMMA OpenEndsStep == ASSUME IInv, OpenEnds PROVE IInv'
<1>1. /\ stage = "opening" /\ stage' = "up" /\ UNCHANGED <<log, synced, memory, poisoned, threads,
         client>>
      /\ \/ UNCHANGED <<dir, dirs>>
         \/ StaleAtOpen /\ Changes([dir EXCEPT !.snapshot = FALSE])
  BY DEF OpenEnds
<1>2. /\ log \in Seq(Entries) /\ Len(log) \in Nat /\ Acked = Len(log) /\ dir \in dirs
      /\ dir \in Dirs /\ dir.old = None /\ GoodNow(dir)
  BY <1>1, OpeningIs
<1>3. CASE UNCHANGED <<dir, dirs>>
  BY <1>1, <1>2, <1>3, OpeningStep
<1>4. CASE StaleAtOpen /\ Changes([dir EXCEPT !.snapshot = FALSE])
  <2>1. PICK m \in 1 .. Len(log) : log[m].kind = "graph"
    BY <1>1, <1>4, OpeningIs
  <2>2. PICK e : e = [dir EXCEPT !.snapshot = FALSE]
    OBVIOUS
  <2>3. GoodNow(e) /\ e \in Dirs /\ e.old = None /\ e.next = dir.next
    <3>1. Acked \in 0 .. Len(log) /\ m \in 1 .. Acked
      BY <1>2
    <3> QED BY <1>2, <2>1, <2>2, <3>1, GoodUnsnapped
  <2>4. dir' = e /\ dirs' = dirs \cup {e}
    BY <1>4, <2>2 DEF Changes
  <2> QED BY <1>1, <2>3, <2>4, OpeningStep
<1> QED BY <1>1, <1>3, <1>4

\* The invariant holds at first.
LEMMA InitInv == Init => IInv
<1> SUFFICES ASSUME Init PROVE IInv
  OBVIOUS
<1>1. /\ log = <<>> /\ synced = 0 /\ dirs = {dir} /\ stage = "down" /\ memory = {}
         /\ poisoned = FALSE
      /\ import_lock = "free" /\ job = [t \in Threads |-> Idle] /\ writing = {}
      /\ promised = Start(dir) /\ tail = <<>>
  BY DEF Init, Start
<1>2. PICK snapshot \in BOOLEAN :
        dir = [graphs |-> {}, next |-> None, snapshot |-> snapshot, old |-> None]
  BY DEF Init
<1>3. None \in LogFiles /\ None.is = "none"
  BY EmptyTyped DEF None, LogFiles
<1>4. dir \in Dirs /\ dir.old = None /\ dir.next = None
  BY <1>2, <1>3 DEF Dirs
<1>5. /\ log \in Seq(Entries) /\ Len(log) = 0 /\ tail \in Seq(Entries) /\ Len(tail) = 0 /\ Acked = 0
  BY <1>1, EmptyTyped, EmptyLength DEF Acked
<1>6. Idle \in Jobs /\ Idle.at = "idle" /\ Idle.from = 0
  BY DEF Idle, Jobs, Steps, Content
<1>7. job \in [Threads -> Jobs] /\ \A t \in Threads : job[t] = Idle
  BY <1>1, <1>6
<1>8. Types /\ Bounded
  <2>1. promised \in Content /\ memory \in Content
    BY <1>1, <1>4, StartTyped DEF Content
  <2>2. synced \in 0 .. Len(log) /\ Len(log) <= MaxLog + 1
    BY <1>1, <1>5, BoundsAssumption
  <2> QED BY <1>1, <1>4, <1>5, <1>7, <2>1, <2>2 DEF Types, Bounded, Jobs
<1>9. InFlight /\ Working
  BY <1>1, <1>5, <1>6, <1>7 DEF InFlight, Working, Rotates, Before
<1>10. Directories
  <2>1. ApplyAll(Start(dir), First(log, 0)) = promised
    <3>1. First(log, 0) = <<>>
      BY <1>5, NoneOf DEF First
    <3> QED BY <1>1, <3>1, ApplyNone
  <2>2. FilesKept(log, synced, dir.graphs)
    BY <1>5 DEF FilesKept
  <2> QED BY <1>1, <1>3, <1>4, <1>5, <2>1, <2>2 DEF Directories, GoodNow
<1>11. \A t \in Threads : Job(t)
  BY <1>6, <1>7, BoundsAssumption DEF Job, Placed, Captured, Before, Rotates
<1> QED BY <1>8, <1>9, <1>10, <1>11 DEF IInv

\* Every step keeps the invariant, when what an open finds is durable.
LEMMA SafeStep == FoundIsDurable => (IInv /\ [Next]_vars => IInv')
<1> SUFFICES ASSUME FoundIsDurable, IInv, [Next]_vars PROVE IInv'
  OBVIOUS
<1>1. CASE UNCHANGED vars
  <2>1. UNCHANGED <<log, synced, dir, dirs, stage, memory, poisoned, import_lock, job, writing,
        promised, tail>>
    BY <1>1 DEF vars, files, engine, threads, client
  <2>2. Types' /\ Bounded' /\ InFlight' /\ Working'
    BY <2>1 DEF IInv, Types, Bounded, InFlight, Working, Acked, GraphFree
  <2>3. Directories'
    BY <2>1 DEF IInv, Directories, GoodNow, GoodOld, NextPromised, Acked
  <2>4. \A t \in Threads : Job(t)'
    BY <2>1 DEF IInv, Job, Acked, NextLog
  <2> QED BY <2>2, <2>3, <2>4 DEF IInv
<1>2. CASE Statement
  BY <1>2, StatementAppendsStep, StatementReturnsStep, StatementFailsStep DEF Statement
<1>3. ASSUME NEW t \in Threads, Import(t) PROVE IInv'
  <2>1. ASSUME ImportRenames(t) PROVE IInv'
    BY <2>1, RenamesStep DEF ImportRenames
  <2> QED BY <1>3, <2>1, StartsStep, ImportMarksStep, ImportAppendsStep, ImportCommitsStep,
          ImportFailsStep
       DEF Import
<1>4. ASSUME NEW t \in Threads, Checkpoint(t) PROVE IInv'
  <2>1. ASSUME CheckpointRenames(t) PROVE IInv'
    BY <2>1, RenamesStep DEF CheckpointRenames
  <2> QED BY <1>4, <2>1, StartsStep, CapturesStep, CheckpointSyncsStep, CheckpointFailsStep,
          RotateStartsStep,
        RotateFillsStep, RotateSyncsStep, RotateRenamesStep, RotateSettlesStep, RotateFailsStep
       DEF Checkpoint
<1>5. CASE OpenAndStop
  <2>1. CASE Kill
    BY <2>1, StopsStep DEF Kill
  <2>2. CASE Close
    BY <2>2, StopsStep DEF Close
  <2>3. CASE OpenRefused
    BY <1>1, <2>3 DEF OpenRefused
  <2> QED BY <1>5, <2>1, <2>2, <2>3, PowerCutStep, OpenReadsStep, OpenRemovesStep, OpenEndsStep
          DEF OpenAndStop
<1> QED BY <1>1, <1>2, <1>3, <1>4, <1>5, RemovesGraphStep, ReturnsStep DEF Next

\* The invariant holds in every reachable state.
LEMMA Invariant == FoundIsDurable => (Spec => []IInv)
<1> SUFFICES ASSUME FoundIsDurable PROVE Spec => []IInv
  OBVIOUS
<1>1. IInv /\ [Next]_vars => IInv'
  BY SafeStep
<1> QED BY InitInv, <1>1, PTL DEF Spec

\* Every variable has its type in every reachable state, the bounds on the log and
\* on the position a checkpoint captured included.
THEOREM TypeCorrect == FoundIsDurable => (Spec => []TypeOK)
<1>1. ASSUME IInv, NEW t \in Threads
      PROVE job[t].graph \in Content /\ job[t].from \in 0 .. MaxLog + 2
  <2>1. job[t].graph \in Content /\ job[t].from \in Nat /\ job[t].from <= MaxLog + 2
    BY <1>1 DEF IInv, Types, Job
  <2> QED BY <2>1, BoundsAssumption
<1>2. IInv => TypeOK
  BY <1>1 DEF IInv, Types, Bounded, TypeOK
<1> QED BY Invariant, <1>2, PTL

\* Whenever the process stops, killed or by a power cut, in the middle of whatever
\* import, checkpoint, rotation or append, the next open finds the last acknowledged
\* graph or a change made to it since: import, checkpoint and the log's rotate, fsync
\* and rename in an order that leaves no moment between.
THEOREM LosesNothingTheorem == FoundIsDurable => (Spec => []LosesNothing)
<1>1. IInv => LosesNothing
  BY LosesNothingIs DEF IInv
<1> QED BY Invariant, <1>1, PTL

\* With no change in flight, the graph that queries see is the one the files hold.
THEOREM MemoryIsFilesTheorem == FoundIsDurable => (Spec => []MemoryIsFiles)
<1>1. IInv => MemoryIsFiles
  BY MemoryIsFilesIs DEF IInv
<1> QED BY Invariant, <1>1, PTL

-----------------------------------------------------------------------------
(* What the cleaning after an import or a checkpoint deletes, without the  *)
(* assumption that what an open reads is durable.  The invariant is a part *)
(* of IInv that does not say what is promised to clients.                  *)

\* The types of the files, the calls and the open graph.
FileTypes ==
  /\ log \in Seq(Entries) /\ synced \in 0 .. Len(log)
  /\ dir \in dirs /\ dirs \subseteq Dirs /\ dir.old = None
  /\ stage \in {"down", "opening", "up"}
  /\ memory \in Content /\ writing \in SUBSET Writes
  /\ job \in [Threads -> Jobs]

\* Only one call changes files, and only while the database is open.
OneCall == \A t \in Threads : job[t].at # "idle" => import_lock = t /\ stage = "up"

\* The log names a graph among its first n entries, and no other after it.
Names(graph, n) ==
  \E i \in 1 .. n : log[i] = Replace(graph) /\ \A j \in i + 1 .. Len(log) : log[j].kind # "graph"

\* What a call has established of its file and of the log.
Placing(t) ==
  LET at == job[t].at
      graph == job[t].graph
      from == job[t].from
  IN
  /\ at \in {"saved", "imported"} => graph \in dir.graphs
  /\ at \in Placed => \A d \in dirs : graph \in d.graphs
  /\ at = "appending" => writing = {} /\ Names(graph, Len(log))
  /\ at \in Captured => from >= 1 /\ \A i \in from .. Len(log) : log[i].kind # "graph"
  /\ at \in {"filled", "written"} => dir.next = Whole(NextLog(t))
  /\ at = "swapped" => synced = Len(log)
  /\ at \in {"swapped", "cleaning"} => Names(graph, synced)
  /\ at = "cleaning" => \A d \in dirs : d.old = None

Placings == FileTypes /\ OneCall /\ \A t \in Threads : Placing(t)

\* Of an idle call there is nothing to say.
LEMMA IdlePlacing == ASSUME NEW t \in Threads, job[t].at = "idle" PROVE Placing(t)
BY DEF Placing, Placed, Captured, Before, Rotates

\* The same in the next state.
LEMMA IdlePlacingNext == ASSUME NEW t \in Threads, job'[t].at = "idle" PROVE Placing(t)'
BY DEF Placing, Placed, Captured, Before, Rotates

\* A step of one call: the others are idle, and stay so.
LEMMA PlacingsStep ==
  ASSUME Placings, NEW t \in Threads,
         job[t].at # "idle" \/ import_lock = "free",
         \A u \in Threads \ {t} : job'[u] = job[u],
         job'[t].at # "idle" => import_lock' = t /\ stage' = "up",
         FileTypes', Placing(t)'
  PROVE  Placings'
<1>1. ASSUME NEW u \in Threads \ {t} PROVE job'[u].at = "idle" /\ Placing(u)'
  <2>1. job[u].at = "idle"
    BY NamesAssumption DEF Placings, OneCall
  <2> QED BY <2>1, IdlePlacingNext
<1>2. OneCall'
  BY <1>1 DEF OneCall
<1> QED BY <1>1, <1>2 DEF Placings

\* A call goes on and keeps its graph and its position.
LEMMA GoesOn ==
  ASSUME job \in [Threads -> Jobs], NEW t \in Threads, NEW at \in Steps, Goes(t, at)
  PROVE  /\ job' \in [Threads -> Jobs]
         /\ job'[t].at = at /\ job'[t].graph = job[t].graph /\ job'[t].from = job[t].from
         /\ \A u \in Threads \ {t} : job'[u] = job[u]
<1>1. PICK graph \in Content, from \in Nat : graph = job[t].graph /\ from = job[t].from
  BY DEF Jobs
<1>2. job' = [job EXCEPT ![t] = [job[t] EXCEPT !.at = at]]
  BY DEF Goes
<1>3. [job[t] EXCEPT !.at = at] = [at |-> at, graph |-> graph, from |-> from]
  BY <1>1 DEF Jobs
<1>4. [at |-> at, graph |-> graph, from |-> from] \in Jobs
  BY DEF Jobs
<1> QED BY <1>1, <1>2, <1>3, <1>4

\* A call ends.
LEMMA EndsOf ==
  ASSUME job \in [Threads -> Jobs], NEW t \in Threads, Ends(t)
  PROVE  /\ job' \in [Threads -> Jobs] /\ job'[t].at = "idle"
         /\ \A u \in Threads \ {t} : job'[u] = job[u]
<1>1. Idle \in Jobs /\ Idle.at = "idle"
  BY DEF Idle, Jobs, Steps, Content
<1> QED BY <1>1 DEF Ends

\* A call ends, whatever became of the files.
LEMMA PlacingsEnd ==
  ASSUME Placings, NEW t \in Threads, job[t].at # "idle", Ends(t),
         /\ log' \in Seq(Entries) /\ synced' \in 0 .. Len(log')
         /\ dir' \in dirs' /\ dirs' \subseteq Dirs /\ dir'.old = None,
         stage' = stage, memory' = memory, writing' = writing
  PROVE  Placings'
<1>1. job' \in [Threads -> Jobs] /\ job'[t].at = "idle" /\ \A u \in Threads \ {t} : job'[u] = job[u]
  BY EndsOf DEF Placings, FileTypes
<1>2. FileTypes'
  BY <1>1 DEF Placings, FileTypes
<1> QED BY <1>1, <1>2, IdlePlacingNext, PlacingsStep

\* A call starts.
LEMMA StartsPlacing ==
  ASSUME Placings, NEW t \in Threads,
         (\E g \in Graphs : ImportStarts(t, {g})) \/ CheckpointStarts(t)
  PROVE  Placings'
<1>1. /\ stage = "up" /\ import_lock = "free" /\ import_lock' = t
      /\ UNCHANGED <<files, engine, writing>>
  BY DEF ImportStarts, CheckpointStarts, Up, TakesImportLock
<1>2. \E k \in Jobs : job' = [job EXCEPT ![t] = k] /\ k.at \in {"decoded", "waiting"}
  <2>1. CASE \E g \in Graphs : ImportStarts(t, {g})
    <3>1. PICK g \in Graphs : ImportStarts(t, {g})
      BY <2>1
    <3>2. [at |-> "decoded", graph |-> {g}, from |-> 0] \in Jobs
      BY DEF Jobs, Steps, Content
    <3> QED BY <3>1, <3>2 DEF ImportStarts
  <2>2. CASE CheckpointStarts(t)
    <3>1. job' \in [Threads -> Jobs] /\ job'[t].at = "waiting" /\ Goes(t, "waiting")
      BY <2>2, GoesOn DEF CheckpointStarts, Placings, FileTypes, Steps
    <3> QED BY <3>1 DEF Goes, Placings, FileTypes
  <2> QED BY <2>1, <2>2
<1>3. PICK k \in Jobs : job' = [job EXCEPT ![t] = k] /\ k.at \in {"decoded", "waiting"}
  BY <1>2
<1>4. job' \in [Threads -> Jobs] /\ job'[t] = k /\ \A u \in Threads \ {t} : job'[u] = job[u]
  BY <1>3 DEF Placings, FileTypes
<1>5. FileTypes'
  BY <1>1, <1>4 DEF Placings, FileTypes, files, engine
<1>6. Placing(t)'
  BY <1>3, <1>4 DEF Placing, Placed, Captured, Before, Rotates
<1>7. stage' = "up"
  BY <1>1 DEF engine
<1> QED BY <1>1, <1>4, <1>5, <1>6, <1>7, PlacingsStep

\* What a call that is under way has, and what there is of the others.
LEMMA CallIs ==
  ASSUME Placings, NEW t \in Threads, job[t].at # "idle"
  PROVE  /\ stage = "up" /\ import_lock = t /\ \A u \in Threads \ {t} : job[u].at = "idle"
         /\ job[t].graph \in Content /\ job[t].from \in Nat /\ job[t] \in Jobs /\ Placing(t)
         /\ log \in Seq(Entries) /\ Len(log) \in Nat /\ synced \in 0 .. Len(log)
         /\ dir \in dirs /\ dirs \subseteq Dirs /\ dir \in Dirs /\ dir.old = None
BY NamesAssumption, Typed DEF Placings, FileTypes, OneCall, Jobs

\* A call goes on, and the log is as it was.
LEMMA GoesPlacing ==
  ASSUME Placings, NEW t \in Threads, job[t].at # "idle", NEW at \in Steps, Goes(t, at),
         UNCHANGED <<log, engine, import_lock, writing>>, synced' \in {synced, Len(log)},
         dir' \in dirs', dirs' \subseteq Dirs, dir'.old = None, Placing(t)'
  PROVE  Placings'
<1>1. /\ job' \in [Threads -> Jobs] /\ job'[t].at = at
      /\ \A u \in Threads \ {t} : job'[u] = job[u]
  BY GoesOn DEF Placings, FileTypes
<1>2. stage' = "up" /\ import_lock' = t /\ synced' \in 0 .. Len(log') /\ memory' = memory
  BY CallIs DEF engine
<1>3. FileTypes'
  BY <1>1, <1>2 DEF Placings, FileTypes
<1> QED BY <1>1, <1>2, <1>3, PlacingsStep

\* The file is renamed to its place.
LEMMA RenamesPlacing ==
  ASSUME Placings, NEW t \in Threads, ImportRenames(t) \/ CheckpointRenames(t)
  PROVE  Placings'
<1>1. PICK at \in {"imported", "saved"} :
        /\ Goes(t, at) /\ RenamesGraph(job[t].graph) /\ job[t].at \in {"decoded", "captured"}
        /\ at = "saved" => job[t].at = "captured"
        /\ UNCHANGED <<log, synced, engine, import_lock, writing>>
  BY DEF ImportRenames, CheckpointRenames
<1>2. at \in Steps /\ job[t].at # "idle"
  BY <1>1 DEF Steps
<1>3. /\ job[t].graph \in Content /\ Placing(t) /\ dir \in Dirs /\ dir.old = None
      /\ job' \in [Threads -> Jobs] /\ job'[t].at = at /\ job'[t].graph = job[t].graph
      /\ job'[t].from = job[t].from
  BY <1>1, <1>2, CallIs, GoesOn DEF Placings, FileTypes
<1>4. dir' \in Dirs /\ dir'.old = None /\ job[t].graph \in dir'.graphs /\ dirs' = {dir, dir'}
  BY <1>1, <1>3 DEF RenamesGraph, Dirs
<1>5. Placing(t)'
  BY <1>1, <1>3, <1>4 DEF Placing, Placed, Captured, Before, Rotates
<1> QED BY <1>1, <1>2, <1>3, <1>4, <1>5, GoesPlacing

\* The directory is synced, and the log with it or not.
LEMMA SyncsPlacing ==
  ASSUME Placings, NEW t \in Threads,
         ImportMarks(t) \/ CheckpointSyncs(t) \/ RotateSyncs(t) \/ RotateSettles(t)
  PROVE  Placings'
<1>1. PICK at \in {"marked", "durable", "written", "cleaning"} :
        /\ Goes(t, at) /\ job[t].at \in {"imported", "saved", "filled", "swapped"}
        /\ at = "durable" => job[t].at = "saved"
        /\ at = "written" => job[t].at = "filled"
        /\ at = "cleaning" => job[t].at = "swapped" /\ synced' = synced
        /\ dirs' = {dir} /\ synced' \in {synced, Len(log)}
        /\ UNCHANGED <<log, dir, engine, import_lock, writing>>
  BY DEF ImportMarks, CheckpointSyncs, RotateSyncs, RotateSettles, SyncsLog
<1>2. at \in Steps /\ job[t].at # "idle"
  BY <1>1 DEF Steps
<1>3. /\ job[t].graph \in Content /\ Placing(t) /\ dir \in Dirs /\ dir \in dirs /\ dir.old = None
      /\ job' \in [Threads -> Jobs] /\ job'[t].at = at /\ job'[t].graph = job[t].graph
      /\ job'[t].from = job[t].from
  BY <1>1, <1>2, CallIs, GoesOn DEF Placings, FileTypes
<1>4. job[t].graph \in dir.graphs
  BY <1>1, <1>3 DEF Placing, Placed, Before, Rotates
<1>5. Placing(t)'
  BY <1>1, <1>3, <1>4 DEF Placing, Placed, Captured, Before, Rotates, Names, NextLog
<1> QED BY <1>1, <1>2, <1>3, <1>5, GoesPlacing

\* A checkpoint takes the graph, and where the log continues it.
LEMMA CapturesPlacing == ASSUME Placings, NEW t \in Threads, Captures(t) PROVE Placings'
<1>1. /\ job[t].at # "idle" /\ UNCHANGED <<files, engine, import_lock, writing>>
      /\ job' = [job EXCEPT ![t] = [at |-> "captured", graph |-> memory, from |-> Len(log) + 1]]
  BY DEF Captures
<1>2. /\ stage = "up" /\ import_lock = t /\ log \in Seq(Entries) /\ Len(log) \in Nat
      /\ memory \in Content
  BY <1>1, CallIs DEF Placings, FileTypes
<1>3. [at |-> "captured", graph |-> memory, from |-> Len(log) + 1] \in Jobs
  BY <1>2 DEF Jobs, Steps
<1>4. /\ job' \in [Threads -> Jobs] /\ job'[t].at = "captured" /\ job'[t].from = Len(log) + 1
      /\ \A u \in Threads \ {t} : job'[u] = job[u]
  BY <1>1, <1>3 DEF Placings, FileTypes
<1>5. FileTypes'
  BY <1>1, <1>4 DEF Placings, FileTypes, files, engine
<1>6. Placing(t)'
  BY <1>1, <1>2, <1>4 DEF Placing, Placed, Captured, Before, Rotates, files
<1>7. import_lock' = t /\ stage' = "up"
  BY <1>1, <1>2 DEF engine
<1> QED BY <1>1, <1>4, <1>5, <1>6, <1>7, PlacingsStep

\* A call fails with the files as they were.
LEMMA FailsPlacing ==
  ASSUME Placings, NEW t \in Threads, job[t].at # "idle", Ends(t),
         UNCHANGED <<files, engine, writing>>
  PROVE  Placings'
<1>1. FileTypes
  BY DEF Placings
<1> QED BY <1>1, PlacingsEnd DEF FileTypes, files, engine

\* A rotation creates the next log.
LEMMA RotateStartsPlacing == ASSUME Placings, NEW t \in Threads, RotateStarts(t) PROVE Placings'
<1>1. /\ job[t].at = "durable" /\ Goes(t, "rotating") /\ synced' = Len(log)
      /\ dir' = [dir EXCEPT !.next = Part]
      /\ dirs' = (IF synced < Len(log) THEN {dir} ELSE dirs) \cup {dir'}
      /\ UNCHANGED <<log, engine, import_lock, writing>>
  BY DEF RotateStarts
<1>2. /\ Placing(t) /\ dir \in Dirs /\ dir \in dirs /\ dirs \subseteq Dirs /\ dir.old = None
      /\ job' \in [Threads -> Jobs] /\ job'[t].at = "rotating" /\ job'[t].graph = job[t].graph
      /\ job'[t].from = job[t].from
  BY <1>1, CallIs, GoesOn DEF Placings, FileTypes, Steps
<1>3. Part \in LogFiles
  BY EmptyTyped DEF Part, LogFiles
<1>4. dir' \in Dirs /\ dir'.old = None /\ dir'.graphs = dir.graphs /\ dirs' \subseteq Dirs
      /\ \A d \in dirs' : d \in dirs \/ d.graphs = dir.graphs
  BY <1>1, <1>2, <1>3 DEF Dirs
<1>5. Placing(t)'
  BY <1>1, <1>2, <1>4 DEF Placing, Placed, Captured, Before, Rotates
<1> QED BY <1>1, <1>4, <1>5, GoesPlacing DEF Steps

\* The next log: the graph, and no other graph after it.
LEMMA NextLogNames ==
  ASSUME Placings, NEW t \in Threads, job[t].at \in Before
  PROVE  \E s \in Seq(Entries) :
           /\ s = NextLog(t) /\ Len(s) >= 1 /\ s[1] = Replace(job[t].graph)
           /\ \A i \in 2 .. Len(s) : s[i].kind # "graph"
<1>1. /\ log \in Seq(Entries) /\ Len(log) \in Nat /\ job[t].graph \in Content
      /\ job[t].from \in Nat /\ job[t].from >= 1
      /\ \A i \in job[t].from .. Len(log) : log[i].kind # "graph"
  BY CallIs DEF Before, Placing, Captured
<1>2. PICK from \in Nat : from = job[t].from
  BY <1>1
<1>3. PICK u \in Seq(Entries) : /\ u = SubSeq(log, from, Len(log))
                                /\ \A i \in 1 .. Len(u) : u[i].kind # "graph"
  <2>1. CASE from <= Len(log) + 1
    <3>1. PICK u \in Seq(Entries) : /\ u = SubSeq(log, from, Len(log))
                                    /\ Len(u) = Len(log) + 1 - from
                                    /\ \A i \in 1 .. Len(log) + 1 - from : u[i] = log[from + i - 1]
      <4>1. /\ SubSeq(log, from, Len(log)) \in Seq(Entries)
            /\ Len(SubSeq(log, from, Len(log))) = Len(log) + 1 - from
            /\ \A i \in 1 .. Len(log) + 1 - from :
                 SubSeq(log, from, Len(log))[i] = log[from + i - 1]
        BY <1>1, <1>2, <2>1, Rest
      <4> QED BY <4>1
    <3>2. ASSUME NEW i \in 1 .. Len(u) PROVE u[i].kind # "graph"
      <4>1. from + i - 1 \in from .. Len(log)
        BY <1>1, <3>1
      <4> QED BY <1>1, <1>2, <3>1, <4>1
    <3> QED BY <3>1, <3>2
  <2>2. CASE from > Len(log) + 1
    <3>1. SubSeq(log, from, Len(log)) = <<>>
      BY <1>1, <2>2
    <3>2. \A i \in 1 .. Len(<<>>) : FALSE
      BY EmptyLength
    <3> QED BY <1>2, <3>1, <3>2, EmptyTyped
  <2> QED BY <1>1, <2>1, <2>2
<1>4. PICK v \in Seq(Entries) : v = <<Replace(job[t].graph)>> /\ Len(v) = 1
      /\ v[1] = Replace(job[t].graph)
  <2>1. Replace(job[t].graph) \in Entries
    BY <1>1 DEF Entries, Replace
  <2> QED BY <2>1, OneTyped
<1>5. NextLog(t) = v \o u
  BY <1>2, <1>3, <1>4 DEF NextLog
<1>6. PICK s \in Seq(Entries) : /\ s = v \o u /\ Len(s) = 1 + Len(u) /\ s[1] = v[1]
                                /\ \A i \in 2 .. 1 + Len(u) : s[i] = u[i - 1]
  <2>1. v \o u \in Seq(Entries) /\ Len(v \o u) = 1 + Len(u) /\ (v \o u)[1] = v[1]
        /\ \A i \in 2 .. 1 + Len(u) : (v \o u)[i] = u[i - 1]
    BY <1>4
  <2> QED BY <2>1
<1>7. ASSUME NEW i \in 2 .. Len(s) PROVE s[i].kind # "graph"
  <2>1. i - 1 \in 1 .. Len(u) /\ s[i] = u[i - 1]
    BY <1>6, Typed
  <2> QED BY <1>3, <2>1
<1>8. Len(s) >= 1
  BY <1>6, Typed
<1> QED BY <1>4, <1>5, <1>6, <1>7, <1>8

\* A rotation fills its next log.
LEMMA RotateFillsPlacing == ASSUME Placings, NEW t \in Threads, RotateFills(t) PROVE Placings'
<1>1. /\ job[t].at = "rotating" /\ Goes(t, "filled")
      /\ dir' = [dir EXCEPT !.next = Whole(NextLog(t))] /\ dirs' = dirs \cup {dir'}
      /\ UNCHANGED <<log, synced, engine, import_lock, writing>>
  BY DEF RotateFills, Changes
<1>2. /\ Placing(t) /\ dir \in Dirs /\ dir \in dirs /\ dirs \subseteq Dirs /\ dir.old = None
      /\ job' \in [Threads -> Jobs] /\ job'[t].at = "filled" /\ job'[t].graph = job[t].graph
      /\ job'[t].from = job[t].from
  BY <1>1, CallIs, GoesOn DEF Placings, FileTypes, Steps
<1>3. Whole(NextLog(t)) \in LogFiles
  BY <1>1, NextLogNames DEF Whole, LogFiles, Before
<1>4. dir' \in Dirs /\ dir'.old = None /\ dir'.graphs = dir.graphs /\ dirs' \subseteq Dirs
      /\ dir'.next = Whole(NextLog(t))
  BY <1>1, <1>2, <1>3 DEF Dirs
<1>5. NextLog(t)' = NextLog(t)
  BY <1>1, <1>2 DEF NextLog
<1>6. Placing(t)'
  BY <1>1, <1>2, <1>4, <1>5 DEF Placing, Placed, Captured, Before, Rotates
<1> QED BY <1>1, <1>4, <1>6, GoesPlacing DEF Steps

\* The rename makes the next log the log.
LEMMA RotateRenamesPlacing == ASSUME Placings, NEW t \in Threads, RotateRenames(t) PROVE Placings'
<1>1. /\ job[t].at = "written" /\ Goes(t, "swapped")
      /\ log' = dir.next.log /\ synced' = Len(log')
      /\ dir' = [dir EXCEPT !.next = None] /\ dirs' = {[dir EXCEPT !.old = Whole(log)], dir'}
      /\ UNCHANGED <<engine, import_lock, writing>>
  BY DEF RotateRenames
<1>2. /\ stage = "up" /\ import_lock = t /\ log \in Seq(Entries)
      /\ Placing(t) /\ dir \in Dirs /\ dir \in dirs /\ dir.old = None
      /\ job' \in [Threads -> Jobs] /\ job'[t].at = "swapped" /\ job'[t].graph = job[t].graph
      /\ \A u \in Threads \ {t} : job'[u] = job[u]
  BY <1>1, CallIs, GoesOn DEF Placings, FileTypes, Steps
<1>3. PICK s \in Seq(Entries) : /\ s = log' /\ Len(s) >= 1 /\ s[1] = Replace(job[t].graph)
                                /\ \A i \in 2 .. Len(s) : s[i].kind # "graph"
  BY <1>1, <1>2, NextLogNames DEF Placing, Before, Whole
<1>4. None \in LogFiles /\ Whole(log) \in LogFiles
  BY <1>2, EmptyTyped DEF None, Whole, LogFiles
<1>5. /\ dir' \in Dirs /\ dir'.old = None /\ dirs' \subseteq Dirs /\ dir' \in dirs'
      /\ \A d \in dirs' : d.graphs = dir.graphs
  BY <1>1, <1>2, <1>4 DEF Dirs
<1>6. FileTypes'
  <2>1. synced' \in 0 .. Len(log') /\ log' \in Seq(Entries)
    BY <1>1, <1>3, Typed
  <2> QED BY <1>1, <1>2, <1>5, <2>1 DEF Placings, FileTypes, engine
<1>7. Names(job[t].graph, synced)'
  <2>1. 1 \in 1 .. Len(s) /\ synced' = Len(s)
    BY <1>1, <1>3, Typed
  <2> QED BY <1>2, <1>3, <2>1 DEF Names
<1>8. Placing(t)'
  <2>1. job[t].graph \in dir.graphs
    BY <1>1, <1>2 DEF Placing, Placed, Before, Rotates
  <2> QED BY <1>1, <1>2, <1>5, <1>7, <2>1 DEF Placing, Placed, Captured, Before, Rotates
<1> QED BY <1>1, <1>2, <1>6, <1>8, PlacingsStep DEF engine

\* A rotation fails, before its rename or after it.
LEMMA RotateFailsPlacing == ASSUME Placings, NEW t \in Threads, RotateFails(t) PROVE Placings'
<1>1. /\ job[t].at # "idle" /\ Ends(t) /\ UNCHANGED <<log, synced, stage, memory, writing>>
      /\ \/ Changes(dir) \/ Changes([dir EXCEPT !.next = None]) \/ UNCHANGED <<dir, dirs>>
  BY DEF RotateFails
<1>2. /\ dir \in Dirs /\ dir \in dirs /\ dirs \subseteq Dirs /\ dir.old = None
      /\ log \in Seq(Entries) /\ synced \in 0 .. Len(log)
  BY <1>1, CallIs
<1>3. None \in LogFiles
  BY EmptyTyped DEF None, LogFiles
<1>4. dir' \in dirs' /\ dirs' \subseteq Dirs /\ dir'.old = None
  BY <1>1, <1>2, <1>3 DEF Changes, Dirs
<1> QED BY <1>1, <1>2, <1>4, PlacingsEnd

\* One more entry at the end of the log.
LEMMA Appended ==
  ASSUME log \in Seq(Entries), NEW e \in Entries, log' = Append(log, e)
  PROVE  /\ log' \in Seq(Entries) /\ Len(log') = Len(log) + 1 /\ Len(log) \in Nat
         /\ log'[Len(log')] = e /\ \A i \in 1 .. Len(log) : log'[i] = log[i]
OBVIOUS

\* The entry of an import is in the log.
LEMMA ImportAppendsPlacing == ASSUME Placings, NEW t \in Threads, ImportAppends(t) PROVE Placings'
<1>1. /\ job[t].at = "marked" /\ Goes(t, "appending") /\ writing = {}
      /\ log' = Append(log, Replace(job[t].graph))
      /\ UNCHANGED <<synced, dir, dirs, engine, import_lock, writing>>
  BY DEF ImportAppends, Appends, GraphFree
<1>2. /\ stage = "up" /\ import_lock = t /\ log \in Seq(Entries) /\ synced \in 0 .. Len(log)
      /\ Placing(t) /\ dir \in dirs /\ dirs \subseteq Dirs /\ dir.old = None
      /\ job[t].graph \in Content
      /\ job' \in [Threads -> Jobs] /\ job'[t].at = "appending" /\ job'[t].graph = job[t].graph
      /\ \A u \in Threads \ {t} : job'[u] = job[u]
  BY <1>1, CallIs, GoesOn DEF Placings, FileTypes, Steps
<1>3. Replace(job[t].graph) \in Entries
  BY <1>2 DEF Entries, Replace
<1>4. /\ log' \in Seq(Entries) /\ Len(log') = Len(log) + 1 /\ Len(log) \in Nat
      /\ log'[Len(log')] = Replace(job[t].graph)
  BY <1>1, <1>2, <1>3, Appended
<1>5. FileTypes'
  BY <1>1, <1>2, <1>4 DEF Placings, FileTypes, engine
<1>6. Names(job[t].graph, Len(log))'
  <2>1. Len(log') \in 1 .. Len(log') /\ \A j \in Len(log') + 1 .. Len(log') : FALSE
    BY <1>4
  <2> QED BY <1>2, <1>4, <2>1 DEF Names
<1>7. Placing(t)'
  BY <1>1, <1>2, <1>6 DEF Placing, Placed, Captured, Before, Rotates
<1> QED BY <1>1, <1>2, <1>5, <1>7, PlacingsStep DEF engine

\* It is durable, and everything before it.
LEMMA ImportCommitsPlacing == ASSUME Placings, NEW t \in Threads, ImportCommits(t) PROVE Placings'
<1>1. /\ job[t].at = "appending" /\ Goes(t, "cleaning") /\ memory' = job[t].graph
      /\ synced' = Len(log) /\ dirs' = {dir}
      /\ UNCHANGED <<log, dir, stage, import_lock, writing>>
  BY DEF ImportCommits, AppendOk, SyncsLog
<1>2. /\ stage = "up" /\ import_lock = t /\ log \in Seq(Entries) /\ Len(log) \in Nat
      /\ Placing(t) /\ dir \in dirs /\ dirs \subseteq Dirs /\ dir.old = None
      /\ job[t].graph \in Content
      /\ job' \in [Threads -> Jobs] /\ job'[t].at = "cleaning" /\ job'[t].graph = job[t].graph
      /\ \A u \in Threads \ {t} : job'[u] = job[u]
  BY <1>1, CallIs, GoesOn DEF Placings, FileTypes, Steps
<1>3. FileTypes'
  BY <1>1, <1>2 DEF Placings, FileTypes
<1>4. Placing(t)'
  BY <1>1, <1>2 DEF Placing, Placed, Captured, Before, Rotates, Names
<1> QED BY <1>1, <1>2, <1>3, <1>4, PlacingsStep

\* A failed append leaves a first part of the log, with all that was synced.
LEMMA FailedAppend ==
  ASSUME AppendErr, FileTypes
  PROVE  /\ log' \in Seq(Entries) /\ Len(log') \in 0 .. Len(log) /\ Len(log) \in Nat
         /\ synced <= synced' /\ synced' \in 0 .. Len(log')
         /\ \A i \in 1 .. Len(log') : log'[i] = log[i]
         /\ dirs' \subseteq dirs /\ dir' = dir /\ dir \in dirs' /\ UNCHANGED <<stage, memory>>
<1>1. log \in Seq(Entries) /\ synced \in 0 .. Len(log) /\ Len(log) \in Nat /\ dir \in dirs
  BY Typed DEF FileTypes
<1>2. UNCHANGED <<dir, stage, memory>>
  BY DEF AppendErr
<1>3. CASE UNCHANGED <<log, synced, dirs>>
  BY <1>1, <1>2, <1>3
<1>4. CASE Len(log) > synced /\ log' = Front(log) /\ synced' = Len(log') /\ dirs' = {dir}
  <2>1. Len(log) - 1 \in 0 .. Len(log)
    BY <1>1, <1>4
  <2>2. log' = SubSeq(log, 1, Len(log) - 1)
    BY <1>4 DEF Front
  <2>3. /\ log' \in Seq(Entries) /\ Len(log') = Len(log) - 1
        /\ \A i \in 1 .. Len(log) - 1 : log'[i] = log[i]
    BY <1>1, <2>1, <2>2, Part1
  <2> QED BY <1>1, <1>2, <1>4, <2>1, <2>3
<1> QED BY <1>3, <1>4 DEF AppendErr, SyncsLog

\* An import fails.
LEMMA ImportFailsPlacing == ASSUME Placings, NEW t \in Threads, ImportFails(t) PROVE Placings'
<1>1. job[t].at # "idle" /\ Ends(t) /\ writing' = writing /\ FileTypes
  BY DEF ImportFails, Placings
<1>2. CASE UNCHANGED <<files, engine>>
  BY <1>1, <1>2, FailsPlacing
<1>3. CASE AppendErr
  BY <1>1, <1>3, FailedAppend, PlacingsEnd DEF FileTypes
<1> QED BY <1>2, <1>3 DEF ImportFails

\* The cleaning removes another file than the call's.
LEMMA RemovesGraphPlacing == ASSUME Placings, NEW t \in Threads, RemovesGraph(t) PROVE Placings'
<1>1. /\ job[t].at = "cleaning" /\ UNCHANGED <<log, synced, engine, threads>>
      /\ \E graph \in dir.graphs \ {job[t].graph} :
           Changes([dir EXCEPT !.graphs = @ \ {graph}])
  BY DEF RemovesGraph, Removes
<1>2. PICK graph \in dir.graphs \ {job[t].graph} : Changes([dir EXCEPT !.graphs = @ \ {graph}])
  BY <1>1
<1>3. /\ stage = "up" /\ import_lock = t /\ Placing(t) /\ dir \in dirs /\ dirs \subseteq Dirs
      /\ dir \in Dirs /\ dir.old = None
  BY <1>1, CallIs
<1>4. job[t].graph \in dir.graphs
  BY <1>1, <1>3 DEF Placing, Placed
<1>5. dir' \in Dirs /\ dir'.old = None /\ dirs' = dirs \cup {dir'} /\ job[t].graph \in dir'.graphs
  BY <1>2, <1>3, <1>4 DEF Changes, Dirs
<1>6. FileTypes' /\ job' = job
  BY <1>1, <1>3, <1>5 DEF Placings, FileTypes, engine, threads
<1>7. Placing(t)'
  BY <1>1, <1>3, <1>5, <1>6 DEF Placing, Placed, Captured, Before, Rotates, Names
<1> QED BY <1>1, <1>3, <1>6, <1>7, PlacingsStep DEF engine, threads

\* The call returns, and a checkpoint deletes snapshot.bin.
LEMMA ReturnsPlacing == ASSUME Placings, NEW t \in Threads, Returns(t) PROVE Placings'
<1>1. /\ job[t].at # "idle" /\ Ends(t) /\ UNCHANGED <<log, synced, engine, writing>>
      /\ UNCHANGED <<dir, dirs>> \/ Changes([dir EXCEPT !.snapshot = FALSE])
  BY DEF Returns
<1>2. /\ dir \in Dirs /\ dir \in dirs /\ dirs \subseteq Dirs /\ dir.old = None
      /\ log \in Seq(Entries) /\ synced \in 0 .. Len(log)
  BY <1>1, CallIs
<1>3. dir' \in dirs' /\ dirs' \subseteq Dirs /\ dir'.old = None
  BY <1>1, <1>2 DEF Changes, Dirs
<1> QED BY <1>1, <1>2, <1>3, PlacingsEnd DEF engine

\* A checkpoint fails before its rotation.
LEMMA CheckpointFailsPlacing ==
  ASSUME Placings, NEW t \in Threads, CheckpointFails(t) PROVE Placings'
<1>1. job[t].at # "idle" /\ Ends(t) /\ UNCHANGED <<files, engine, writing>>
  BY DEF CheckpointFails
<1> QED BY <1>1, FailsPlacing

\* A statement leaves what is durable of the log, and puts no graph after it.
LEMMA StatementPlacing ==
  ASSUME Placings, LogFree, \A t \in Threads : job[t].at # "appending",
         UNCHANGED <<dir, stage, import_lock, job>>,
         log' \in Seq(Entries), Len(log') \in Nat, Len(log) \in Nat,
         synced \in 0 .. synced', synced' \in 0 .. Len(log'),
         \A i \in 1 .. Len(log') :
           \/ i \in 1 .. Len(log) /\ log'[i] = log[i]
           \/ i \notin 1 .. synced /\ log'[i].kind # "graph",
         dir \in dirs', dirs' \subseteq dirs, memory' \in Content, writing' \in SUBSET Writes
  PROVE  Placings'
<1>1. FileTypes'
  BY DEF Placings, FileTypes
<1>2. OneCall'
  BY DEF Placings, OneCall
<1>3. ASSUME NEW t \in Threads PROVE Placing(t)'
  <2>1. /\ Placing(t) /\ job' = job /\ dir' = dir /\ job[t].at # "appending"
        /\ job[t].at \notin Rotates /\ synced \in Nat
    BY FreeIs DEF Placings, FileTypes
  <2>2. job[t].at \in Captured =>
          job[t].from >= 1 /\ \A i \in job[t].from .. Len(log') : log'[i].kind # "graph"
    <3>1. ASSUME job[t].at \in Captured, NEW i \in job[t].from .. Len(log')
          PROVE  log'[i].kind # "graph"
      <4>1. job[t].from \in Nat /\ job[t].from >= 1
        BY <2>1, <3>1, CallIs DEF Placing, Captured
      <4>2. i \in 1 .. Len(log')
        BY <3>1, <4>1
      <4>3. CASE i \in 1 .. Len(log) /\ log'[i] = log[i]
        <5>1. i \in job[t].from .. Len(log)
          BY <3>1, <4>1, <4>3
        <5> QED BY <2>1, <3>1, <4>3, <5>1 DEF Placing
      <4> QED BY <4>2, <4>3
    <3> QED BY <2>1, <3>1 DEF Placing
  <2>3. job[t].at = "cleaning" => Names(job[t].graph, synced)'
    <3>1. SUFFICES ASSUME job[t].at = "cleaning" PROVE Names(job[t].graph, synced)'
      OBVIOUS
    <3>2. PICK i \in 1 .. synced : /\ log[i] = Replace(job[t].graph)
                                   /\ \A j \in i + 1 .. Len(log) : log[j].kind # "graph"
      BY <2>1, <3>1 DEF Placing, Names
    <3>3. i \in 1 .. synced' /\ i \in 1 .. Len(log') /\ log'[i] = log[i]
      <4>1. i \in 1 .. synced' /\ i \in 1 .. Len(log')
        BY <2>1, <3>2
      <4> QED BY <3>2, <4>1
    <3>4. ASSUME NEW j \in i + 1 .. Len(log') PROVE log'[j].kind # "graph"
      <4>1. j \in 1 .. Len(log')
        BY <3>3
      <4>2. CASE j \in 1 .. Len(log) /\ log'[j] = log[j]
        <5>1. j \in i + 1 .. Len(log)
          BY <3>3, <4>2
        <5> QED BY <3>2, <4>2, <5>1
      <4> QED BY <4>1, <4>2
    <3> QED BY <2>1, <3>2, <3>3, <3>4 DEF Names
  <2>4. \A d \in dirs' : d \in dirs
    OBVIOUS
  <2> QED BY <2>1, <2>2, <2>3, <2>4 DEF Placing, Rotates, Before
<1> QED BY <1>1, <1>2, <1>3 DEF Placings

\* A statement appends its entry.
LEMMA StatementAppendsPlacing ==
  ASSUME Placings, NEW w \in Writes, StatementAppends(w) PROVE Placings'
<1>1. /\ LogFree /\ \A t \in Threads : job[t].at # "appending"
      /\ log' = Append(log, Write(w)) /\ writing' = {w}
      /\ UNCHANGED <<synced, dir, dirs, stage, memory, import_lock, job>>
  BY DEF StatementAppends, Appends, GraphFree, engine
<1>2. log \in Seq(Entries) /\ synced \in 0 .. Len(log) /\ dir \in dirs /\ memory \in Content
  BY DEF Placings, FileTypes
<1>3. Write(w) \in Entries /\ Write(w).kind # "graph"
  BY DEF Write, Entries, Content
<1>4. /\ log' \in Seq(Entries) /\ Len(log') = Len(log) + 1 /\ Len(log) \in Nat
      /\ log'[Len(log')] = Write(w) /\ \A i \in 1 .. Len(log) : log'[i] = log[i]
  BY <1>1, <1>2, <1>3, Appended
<1>5. synced \in 0 .. synced' /\ synced' \in 0 .. Len(log') /\ Len(log') \in Nat
  BY <1>1, <1>2, <1>4
<1>6. ASSUME NEW i \in 1 .. Len(log')
      PROVE  \/ i \in 1 .. Len(log) /\ log'[i] = log[i]
             \/ i \notin 1 .. synced /\ log'[i].kind # "graph"
  <2>1. i \in 1 .. Len(log) \/ i = Len(log')
    BY <1>4
  <2>2. Len(log') \notin 1 .. synced
    BY <1>2, <1>4
  <2> QED BY <1>3, <1>4, <2>1, <2>2
<1> QED BY <1>1, <1>2, <1>4, <1>5, <1>6, StatementPlacing

\* It is durable.
LEMMA StatementReturnsPlacing == ASSUME Placings, StatementReturns PROVE Placings'
<1>1. /\ LogFree /\ writing # {} /\ synced' = Len(log) /\ dirs' = {dir} /\ writing' = {}
      /\ memory' = memory \cup writing /\ UNCHANGED <<log, dir, stage, import_lock, job>>
  BY DEF StatementReturns, AppendOk, SyncsLog
<1>2. /\ log \in Seq(Entries) /\ Len(log) \in Nat /\ synced \in 0 .. Len(log) /\ dir \in dirs
      /\ memory \in Content /\ writing \in SUBSET Writes
  BY Typed DEF Placings, FileTypes
<1>3. memory' \in Content
  BY <1>1, <1>2 DEF Content
<1>4. \A t \in Threads : job[t].at # "appending"
  BY <1>1 DEF Placings, Placing
<1>5. synced \in 0 .. synced' /\ synced' \in 0 .. Len(log')
  BY <1>1, <1>2
<1> QED BY <1>1, <1>2, <1>3, <1>4, <1>5, StatementPlacing

\* It is not.
LEMMA StatementFailsPlacing == ASSUME Placings, StatementFails PROVE Placings'
<1>1. writing # {} /\ AppendErr /\ writing' = {} /\ UNCHANGED <<import_lock, job>> /\ FileTypes
  BY DEF StatementFails, Placings
<1>2. /\ log' \in Seq(Entries) /\ Len(log') \in 0 .. Len(log) /\ Len(log) \in Nat
      /\ synced <= synced' /\ synced' \in 0 .. Len(log')
      /\ \A i \in 1 .. Len(log') : log'[i] = log[i]
      /\ dirs' \subseteq dirs /\ dir' = dir /\ dir \in dirs' /\ UNCHANGED <<stage, memory>>
  BY <1>1, FailedAppend
<1>3. LogFree /\ \A t \in Threads : job[t].at # "appending"
  BY <1>1 DEF AppendErr, Placings, Placing
<1>4. synced \in 0 .. synced' /\ Len(log') \in Nat
  BY <1>1, <1>2 DEF FileTypes
<1>5. \A i \in 1 .. Len(log') : i \in 1 .. Len(log)
  BY <1>2
<1>6. memory' \in Content /\ writing' \in SUBSET Writes
  BY <1>1, <1>2 DEF FileTypes
<1> QED BY <1>1, <1>2, <1>3, <1>4, <1>5, <1>6, StatementPlacing

\* No call is under way: there is only the types of the files.
LEMMA NoCall ==
  ASSUME FileTypes', \A t \in Threads : job'[t].at = "idle" PROVE Placings'
BY IdlePlacingNext DEF Placings, OneCall

\* The process stops.
LEMMA StopsPlacing ==
  ASSUME Placings, Stopped, log' \in Seq(Entries), synced' \in 0 .. Len(log'),
         dir' \in dirs', dirs' \subseteq Dirs, dir'.old = None
  PROVE  Placings'
<1>1. Idle \in Jobs /\ Idle.at = "idle"
  BY DEF Idle, Jobs, Steps, Content
<1>2. job' \in [Threads -> Jobs] /\ \A t \in Threads : job'[t].at = "idle"
  BY <1>1 DEF Stopped
<1>3. FileTypes'
  BY <1>2 DEF Stopped, FileTypes, Content
<1> QED BY <1>2, <1>3, NoCall

\* It is killed, or closed: the files stay.
LEMMA KeepsFilesPlacing == ASSUME Placings, Kill \/ Close PROVE Placings'
<1>1. Stopped /\ UNCHANGED files
  BY DEF Kill, Close
<1> QED BY <1>1, StopsPlacing DEF Placings, FileTypes, files

\* The power is cut.
LEMMA PowerCutPlacing == ASSUME Placings, PowerCut PROVE Placings'
<1>1. PICK found \in AfterPowerCut : /\ Stopped /\ log' = found.log /\ synced' = Len(found.log)
                                     /\ dir' = found.dir /\ dirs' = {found.dir}
  BY DEF PowerCut
<1>2. /\ log \in Seq(Entries) /\ Len(log) \in Nat /\ synced \in 0 .. Len(log)
      /\ dirs \subseteq Dirs /\ None \in LogFiles
  BY Typed, EmptyTyped DEF Placings, FileTypes, None, LogFiles
<1>3. found.log \in Seq(Entries) /\ found.dir \in Dirs /\ found.dir.old = None
  <2>1. CASE \E d \in {e \in dirs : e.old = None}, n \in synced .. Len(log) :
               found = [log |-> SubSeq(log, 1, n), dir |-> d]
    <3>1. PICK d \in {e \in dirs : e.old = None}, n \in synced .. Len(log) :
            found = [log |-> SubSeq(log, 1, n), dir |-> d]
      BY <2>1
    <3>2. n \in 0 .. Len(log)
      BY <1>2
    <3> QED BY <1>2, <3>1, <3>2, Part1
  <2>2. CASE \E d \in {e \in dirs : e.old # None} :
               found = [log |-> d.old.log, dir |-> [d EXCEPT !.old = None]]
    <3>1. PICK d \in dirs : found = [log |-> d.old.log, dir |-> [d EXCEPT !.old = None]]
      BY <2>2
    <3>2. d \in Dirs /\ d.old.log \in Seq(Entries)
      BY <1>2 DEF Dirs, LogFiles
    <3> QED BY <1>2, <3>1, <3>2 DEF Dirs
  <2> QED BY <2>1, <2>2 DEF AfterPowerCut
<1>4. synced' \in 0 .. Len(log')
  BY <1>1, <1>3, Typed
<1> QED BY <1>1, <1>3, <1>4, StopsPlacing

\* What an open reads is a log, and what it makes of it a graph.
LEMMA OpensTyped ==
  ASSUME FileTypes, Recover(Seen) # Refused
  PROVE  SettledLog(Seen) \in Seq(Entries) /\ Recover(Seen) \in Content
<1>1. PICK s \in Seq(Entries) : s = SettledLog(Seen)
  <2>1. log \in Seq(Entries) /\ dir.next.log \in Seq(Entries)
    BY DEF FileTypes, Dirs, LogFiles
  <2> QED BY <2>1 DEF SettledLog, Seen
<1>2. /\ LastGraph(s) \in 0 .. Len(s) /\ Len(s) \in Nat
      /\ {} \in Content /\ (IF Seen.dir.snapshot THEN {Legacy} ELSE {}) \in Content
  BY <1>1, LastGraphIs, Typed DEF Content
<1>3. CASE LastGraph(s) = 0
  <2>1. Recover(Seen) = ApplyAll(IF Seen.dir.snapshot THEN {Legacy} ELSE {}, s)
    BY <1>1, <1>3 DEF Recover
  <2> QED BY <1>1, <1>2, <2>1, ApplyTyped
<1>4. CASE LastGraph(s) # 0
  <2>1. Recover(Seen) = ApplyAll({}, SubSeq(s, LastGraph(s), Len(s)))
    BY <1>1, <1>2, <1>4 DEF Recover
  <2>2. SubSeq(s, LastGraph(s), Len(s)) \in Seq(Entries)
    <3>1. LastGraph(s) \in Nat /\ LastGraph(s) >= 1 /\ LastGraph(s) <= Len(s) + 1
      BY <1>2, <1>4
    <3> QED BY <3>1, Rest
  <2> QED BY <1>1, <1>2, <2>1, <2>2, ApplyTyped
<1> QED BY <1>3, <1>4

\* While the database is not open there is no call.
LEMMA NotUp ==
  ASSUME Placings, stage # "up", UNCHANGED threads
  PROVE  /\ job' = job /\ writing' = writing /\ \A t \in Threads : job'[t].at = "idle"
BY DEF Placings, OneCall, threads

\* An open reads the log.
LEMMA OpenReadsPlacing == ASSUME Placings, OpenReads PROVE Placings'
<1>1. /\ stage = "down" /\ Recover(Seen) # Refused /\ stage' = "opening"
      /\ memory' = Recover(Seen) /\ log' = SettledLog(Seen) /\ dir' = [dir EXCEPT !.next = None]
      /\ UNCHANGED threads
      /\ \/ synced' = Len(log') /\ dirs' = {dir'}
         \/ log' = log /\ synced' = synced /\ dirs' = dirs \cup {dir'}
         \/ synced' \in {0, Len(log')} /\ dirs' = {dir'}
  BY DEF OpenReads, SyncsLog
<1>2. FileTypes /\ dir \in Dirs /\ dirs \subseteq Dirs /\ dir.old = None /\ None \in LogFiles
  BY EmptyTyped DEF Placings, FileTypes, None, LogFiles
<1>3. log' \in Seq(Entries) /\ memory' \in Content /\ Len(log') \in Nat
  BY <1>1, <1>2, OpensTyped, Typed
<1>4. dir' \in Dirs /\ dir'.old = None
  BY <1>1, <1>2 DEF Dirs
<1>5. synced' \in 0 .. Len(log') /\ dir' \in dirs' /\ dirs' \subseteq Dirs
  BY <1>1, <1>2, <1>3, <1>4 DEF FileTypes
<1>6. job' = job /\ writing' = writing /\ \A t \in Threads : job'[t].at = "idle"
  BY <1>1, NotUp
<1>7. FileTypes'
  BY <1>1, <1>2, <1>3, <1>4, <1>5, <1>6 DEF FileTypes
<1> QED BY <1>6, <1>7, NoCall

\* An open deletes what is stale, and ends.
LEMMA OpeningPlacing == ASSUME Placings, OpenRemoves \/ OpenEnds PROVE Placings'
<1>1. /\ stage = "opening" /\ stage' \in {"opening", "up"}
      /\ UNCHANGED <<log, synced, memory, threads>>
      /\ \/ UNCHANGED <<dir, dirs>>
         \/ Changes([dir EXCEPT !.snapshot = FALSE])
         \/ \E graph \in dir.graphs : Changes([dir EXCEPT !.graphs = @ \ {graph}])
  BY DEF OpenRemoves, OpenEnds, Removes, engine
<1>2. FileTypes /\ dir \in Dirs /\ dir \in dirs /\ dirs \subseteq Dirs /\ dir.old = None
  BY DEF Placings, FileTypes
<1>3. dir' \in dirs' /\ dirs' \subseteq Dirs /\ dir'.old = None
  BY <1>1, <1>2 DEF Changes, Dirs
<1>4. job' = job /\ writing' = writing /\ \A t \in Threads : job'[t].at = "idle"
  BY <1>1, NotUp
<1>5. FileTypes'
  BY <1>1, <1>2, <1>3, <1>4 DEF FileTypes
<1> QED BY <1>4, <1>5, NoCall

\* At first nothing is under way.
LEMMA InitPlacings == Init => Placings
<1> SUFFICES ASSUME Init PROVE Placings
  OBVIOUS
<1>1. Idle \in Jobs /\ Idle.at = "idle" /\ None \in LogFiles /\ 0 \in 0 .. Len(<<>>)
  BY EmptyTyped, EmptyLength DEF Idle, Jobs, Steps, Content, None, LogFiles
<1>2. job \in [Threads -> Jobs] /\ \A t \in Threads : job[t].at = "idle"
  BY <1>1 DEF Init
<1>3. dir \in Dirs /\ dir.old = None /\ dirs = {dir}
  BY <1>1 DEF Init, Dirs
<1>4. FileTypes
  BY <1>1, <1>2, <1>3, EmptyTyped DEF Init, FileTypes, Content
<1> QED BY <1>2, <1>4, IdlePlacing DEF Placings, OneCall

\* Every step keeps it, whatever is durable of what an open reads.
LEMMA PlacingsKept == Placings /\ [Next]_vars => Placings'
<1> SUFFICES ASSUME Placings, [Next]_vars PROVE Placings'
  OBVIOUS
<1>1. CASE UNCHANGED vars
  <2>1. UNCHANGED <<log, synced, dir, dirs, stage, memory, import_lock, job, writing>>
    BY <1>1 DEF vars, files, engine, threads
  <2>2. FileTypes' /\ OneCall'
    BY <2>1 DEF Placings, FileTypes, OneCall
  <2>3. \A t \in Threads : Placing(t)'
    BY <2>1 DEF Placings, Placing, Names, NextLog
  <2> QED BY <2>2, <2>3 DEF Placings
<1>2. CASE Statement
  BY <1>2, StatementAppendsPlacing, StatementReturnsPlacing, StatementFailsPlacing DEF Statement
<1>3. ASSUME NEW t \in Threads, Import(t) PROVE Placings'
  BY <1>3, StartsPlacing, RenamesPlacing, SyncsPlacing, ImportAppendsPlacing,
     ImportCommitsPlacing, ImportFailsPlacing
     DEF Import
<1>4. ASSUME NEW t \in Threads, Checkpoint(t) PROVE Placings'
  BY <1>4, StartsPlacing, CapturesPlacing, RenamesPlacing, SyncsPlacing,
     CheckpointFailsPlacing, RotateStartsPlacing, RotateFillsPlacing, RotateRenamesPlacing,
     RotateFailsPlacing
     DEF Checkpoint
<1>5. CASE OpenAndStop
  BY <1>1, <1>5, KeepsFilesPlacing, PowerCutPlacing, OpenReadsPlacing, OpeningPlacing
     DEF OpenAndStop, OpenRefused
<1> QED BY <1>1, <1>2, <1>3, <1>4, <1>5, RemovesGraphPlacing, ReturnsPlacing DEF Next

\* While an import or a checkpoint deletes .graph files, and until the next call
\* begins, every log that a power cut may leave names the file that stays, and that
\* file is beside it: the entry and the directory are synced before the first
\* delete, whatever was durable when the database was opened.
THEOREM DeletesWhatIsReplacedTheorem == Spec => []DeletesWhatIsReplaced
<1>1. ASSUME Placings, NEW t \in Threads, job[t].at = "cleaning", NEW found \in AfterPowerCut
      PROVE  Base(found.log) = job[t].graph /\ job[t].graph \in found.dir.graphs
  <2>1. /\ Names(job[t].graph, synced) /\ log \in Seq(Entries) /\ Len(log) \in Nat
        /\ synced \in 0 .. Len(log)
        /\ \A d \in dirs : job[t].graph \in d.graphs /\ d.old = None
    BY <1>1, CallIs DEF Placing, Placed
  <2>2. PICK d \in dirs, n \in synced .. Len(log) :
          found = [log |-> SubSeq(log, 1, n), dir |-> d]
    BY <2>1 DEF AfterPowerCut
  <2>3. PICK i \in 1 .. synced : /\ log[i] = Replace(job[t].graph)
                                 /\ \A j \in i + 1 .. Len(log) : log[j].kind # "graph"
    BY <2>1 DEF Names
  <2>4. PICK s \in Seq(Entries) : /\ s = SubSeq(log, 1, n) /\ Len(s) = n
                                  /\ \A j \in 1 .. n : s[j] = log[j]
    <3>1. n \in 0 .. Len(log)
      BY <2>1
    <3> QED BY <2>1, <3>1, Part1
  <2>5. i \in 1 .. n /\ s[i].kind = "graph" /\ s[i].content = job[t].graph
    <3>1. i \in 1 .. n
      BY <2>1, <2>3
    <3> QED BY <2>3, <2>4, <3>1 DEF Replace
  <2>6. \A j \in i + 1 .. n : s[j].kind # "graph"
    <3>1. \A j \in i + 1 .. n : j \in i + 1 .. Len(log) /\ j \in 1 .. n
      BY <2>1, <2>5
    <3> QED BY <2>3, <2>4, <3>1
  <2>7. LastGraph(s) = i
    <3>1. /\ LastGraph(s) \in 0 .. n
          /\ LastGraph(s) = 0 => \A j \in 1 .. n : s[j].kind # "graph"
          /\ LastGraph(s) # 0 => /\ s[LastGraph(s)].kind = "graph"
                                 /\ \A j \in LastGraph(s) + 1 .. n : s[j].kind # "graph"
      BY <2>4, LastGraphIs
    <3>2. LastGraph(s) # 0
      BY <2>5, <3>1
    <3>3. ~(LastGraph(s) < i)
      <4>1. LastGraph(s) < i => i \in LastGraph(s) + 1 .. n
        BY <2>5, <3>1
      <4> QED BY <2>5, <3>1, <3>2, <4>1
    <3>4. ~(LastGraph(s) > i)
      <4>1. LastGraph(s) > i => LastGraph(s) \in i + 1 .. n
        BY <2>5, <3>1
      <4> QED BY <2>6, <3>1, <3>2, <4>1
    <3> QED BY <2>5, <3>1, <3>3, <3>4
  <2>8. Base(found.log) = job[t].graph
    BY <2>2, <2>4, <2>5, <2>7 DEF Base
  <2> QED BY <2>1, <2>2, <2>8
<1>2. Placings => DeletesWhatIsReplaced
  BY <1>1 DEF DeletesWhatIsReplaced
<1> QED BY InitPlacings, PlacingsKept, <1>2, PTL DEF Spec
=============================================================================

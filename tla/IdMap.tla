------------------------------- MODULE IdMap --------------------------------
(***************************************************************************)
(* Records by id, in chunks of slots with an ordered overflow map          *)
(* (zega/src/graph/idmap.rs).  A map is [base, chunks, sparse, len,        *)
(* allocated, settled]; a chunk is [some, live, slots], slots the ones     *)
(* taken.  What a record holds does not matter here, only where it is.     *)
(***************************************************************************)
EXTENDS Integers, FiniteSets, Sequences, SequencesExt

CONSTANTS Chunk, Span, LastChunk   \* CHUNK, SPAN, LAST_CHUNK

Ids == 0 .. (LastChunk + 1) * Chunk - 1
Number(id) == id \div Chunk
SlotOf(id) == id % Chunk
ChunkIds(number) == number * Chunk .. number * Chunk + Chunk - 1
Least(a, b)    == IF a < b THEN a ELSE b
Greatest(a, b) == IF a < b THEN b ELSE a

NoChunk  == [some |-> FALSE, live |-> 0, slots |-> {}]
EmptyMap == [base |-> 0, chunks |-> <<>>, sparse |-> {}, len |-> 0, allocated |-> 0, settled |-> 0]

\* chunk
At(m, number) == number - m.base + 1
HasChunk(m, number) == At(m, number) \in DOMAIN m.chunks /\ m.chunks[At(m, number)].some

\* get, get_mut
Get(m, id) == IF HasChunk(m, Number(id)) THEN SlotOf(id) \in m.chunks[At(m, Number(id))].slots ELSE id \in m.sparse

\* may_allocate: within the slot allowance and the directory's span
TooManySlots(m) == (m.allocated + 1) * Chunk > 2 * (m.len + 1) + Chunk
MayAllocate(m, number) ==
  LET end  == m.base + Len(m.chunks) - 1
      low  == IF m.chunks = <<>> THEN number ELSE Least(m.base, number)
      high == IF m.chunks = <<>> THEN number ELSE Greatest(end, number)
  IN ~TooManySlots(m) /\ high - low < Span * (m.allocated + 1)

\* A directory that reaches a chunk.
Reaching(m, number) ==
  LET base == IF m.chunks = <<>> THEN number ELSE Least(m.base, number)
      end  == IF m.chunks = <<>> THEN number ELSE Greatest(m.base + Len(m.chunks) - 1, number)
  IN [m EXCEPT !.base = base,
               !.chunks = [i \in 1 .. end - base + 1 |->
                             IF HasChunk(m, base + i - 1) THEN m.chunks[At(m, base + i - 1)] ELSE NoChunk]]

\* allocate, if it left what waits in the overflow map there
AllocateBare(m, number) ==
  LET wide == Reaching(m, number)
  IN [wide EXCEPT !.allocated = @ + 1, !.chunks[At(wide, number)] = [some |-> TRUE, live |-> 0, slots |-> {}]]
\* allocate
Allocate(m, number) ==
  LET wide    == Reaching(m, number)
      covered == m.sparse \cap ChunkIds(number)
  IN [wide EXCEPT !.sparse = @ \ covered, !.allocated = @ + 1,
                  !.chunks[At(wide, number)] =
                     [some |-> TRUE, live |-> Cardinality(covered), slots |-> {SlotOf(id) : id \in covered}]]

\* free, and the directory's empty ends go
Free(m, number) ==
  LET freed == [m EXCEPT !.chunks[At(m, number)] = NoChunk, !.allocated = @ - 1]
      kept  == {i \in DOMAIN freed.chunks : freed.chunks[i].some}
  IN IF kept = {} THEN [freed EXCEPT !.chunks = <<>>, !.base = m.base + Len(m.chunks)]
     ELSE [freed EXCEPT !.chunks = SubSeq(@, Min(kept), Max(kept)), !.base = @ + Min(kept) - 1]

\* absorb: lowest ids first, while the allowance lasts
Absorb(m) ==
  LET reach == Span * (m.allocated + 2)
      first == IF m.sparse = {} THEN 0 ELSE Number(Min(m.sparse))
      low   == IF m.chunks = <<>> THEN first ELSE Greatest(m.base - reach, 0)
      high  == IF m.chunks = <<>> THEN first + reach ELSE m.base + Len(m.chunks) + reach
      numbers == [i \in 1 .. Greatest(Least(high, LastChunk) - Least(low, LastChunk) + 1, 0) |-> Least(low, LastChunk) + i - 1]
      take(run, number) ==
        CASE run.stopped \/ run.m.sparse \cap ChunkIds(number) = {} -> run
          [] MayAllocate(run.m, number) -> [run EXCEPT !.m = Allocate(@, number)]
          [] OTHER -> [run EXCEPT !.stopped = TooManySlots(run.m)]
  IN FoldLeft(take, [m |-> m, stopped |-> FALSE], numbers).m

Dense(m) == UNION {{(m.base + i - 1) * Chunk + s : s \in m.chunks[i].slots} : i \in DOMAIN m.chunks}

\* rebuild: the chunks again from scratch, densest first
Rebuild(m) ==
  LET loose == [m EXCEPT !.chunks = <<>>, !.base = 0, !.allocated = 0, !.sparse = @ \cup Dense(m)]
      count(n) == Cardinality(loose.sparse \cap ChunkIds(n))
      numbers  == {Number(id) : id \in loose.sparse}
      before(a, b) == count(a) > count(b) \/ (count(a) = count(b) /\ a < b)
      ordered == [i \in 1 .. Cardinality(numbers) |->
                    CHOOSE n \in numbers : Cardinality({o \in numbers : before(o, n)}) = i - 1]
      built   == FoldLeft(LAMBDA r, n : IF MayAllocate(r, n) THEN Allocate(r, n) ELSE r, loose, ordered)
  IN [built EXCEPT !.settled = Cardinality(built.sparse)]

\* insert
InsertId(m, id) ==
  LET ready == IF ~HasChunk(m, Number(id)) /\ MayAllocate(m, Number(id)) THEN Allocate(m, Number(id)) ELSE m
      at    == At(ready, Number(id))
      had   == Get(ready, id)
      put   == IF ~HasChunk(ready, Number(id)) THEN [ready EXCEPT !.sparse = @ \cup {id}]
               ELSE [ready EXCEPT !.chunks[at].slots = @ \cup {SlotOf(id)}, !.chunks[at].live = @ + IF had THEN 0 ELSE 1]
      more  == [put EXCEPT !.len = @ + 1]
      loose == Cardinality(more.sparse)
  IN CASE had -> put
       [] more.len % Chunk # 0 \/ loose = 0 -> more
       [] loose > 2 * more.settled + Chunk /\ 2 * loose > more.len -> Rebuild(more)
       [] OTHER -> Absorb(more)

\* What a sequence of inserts leaves.
Filled(ids) == FoldLeft(InsertId, EmptyMap, ids)

\* remove
RemoveId(m, id) ==
  LET at   == At(m, Number(id))
      less == [m EXCEPT !.len = @ - 1, !.chunks[at].slots = @ \ {SlotOf(id)}, !.chunks[at].live = @ - 1]
  IN CASE ~Get(m, id) -> m
       [] ~HasChunk(m, Number(id)) -> [m EXCEPT !.sparse = @ \ {id}, !.len = @ - 1]
       [] less.chunks[at].live = 0 -> Free(less, Number(id))
       [] OTHER -> less

\* iter: the slots and the overflow map, merged
RECURSIVE Merge(_, _)
Merge(dense, sparse) ==
  CASE dense = <<>>  -> sparse
    [] sparse = <<>> -> dense
    [] Head(sparse) < Head(dense) -> <<Head(sparse)>> \o Merge(dense, Tail(sparse))
    [] OTHER -> <<Head(dense)>> \o Merge(Tail(dense), sparse)
Sorted(set) == [i \in 1 .. Cardinality(set) |-> CHOOSE x \in set : Cardinality({y \in set : y < x}) = i - 1]
Iter(m) == Merge(Sorted(Dense(m)), Sorted(m.sparse))

-----------------------------------------------------------------------------
(* What a map promises.                                                    *)

\* Every record put and not removed is found by its id and listed once, in
\* order; a chunk knows how many it holds, and goes with the last of them.
FindsAll(m, ids) ==
  /\ \A id \in Ids : Get(m, id) = (id \in ids)
  /\ Iter(m) = Sorted(ids)
  /\ m.len = Cardinality(ids)
  /\ \A i \in DOMAIN m.chunks :
       m.chunks[i].some => m.chunks[i].live = Cardinality(m.chunks[i].slots) /\ m.chunks[i].live > 0
  /\ m.allocated = Cardinality({i \in DOMAIN m.chunks : m.chunks[i].some})
  /\ m.chunks # <<>> => m.chunks[1].some /\ m.chunks[Len(m.chunks)].some
=============================================================================

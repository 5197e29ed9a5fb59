------------------------------- MODULE Loop ---------------------------------
(***************************************************************************)
(* The rule for a loop over ids in order: what holds before the loop and   *)
(* is kept by one pass holds after the last.  delete_node of the graph and *)
(* of the journal loop like this.  A loop is proved about by instantiating *)
(* this module with its pass and what holds after each: the induction is   *)
(* over the number of the pass, by the least pass that fails.              *)
(***************************************************************************)
EXTENDS Naturals, WellFoundedInduction, TLAPS

CONSTANTS
  Op(_, _, _),   \* a pass: Op(c, x, n) is what pass n makes of x
  P(_, _, _)     \* what holds after a pass: P(c, n, x)

Run(c, x, ids, last) ==
  LET done[n \in 0 .. last] ==
        IF n = 0 THEN x ELSE IF n \in ids THEN Op(c, done[n - 1], n) ELSE done[n - 1]
  IN done[last]

\* The values a loop goes through.
Passes(c, x, ids, last, f) ==
  f = [n \in 0 .. last |->
         IF n = 0 THEN x ELSE IF n \in ids THEN Op(c, f[n - 1], n) ELSE f[n - 1]]

\* A set of naturals that is not empty has a least element.
LEMMA LeastPass == ASSUME NEW S \in SUBSET Nat, S # {} PROVE \E m \in S : \A k \in S : m <= k
<1>1. \E m \in S : \A k \in S : <<k, m>> \notin OpToRel(<, Nat)
  BY NatLessThanWellFounded, WFMin, Zenon
<1>2. \E m \in S : \A k \in S : <<k, m>> \notin {p \in Nat \X Nat : p[1] < p[2]}
  BY <1>1, Zenon DEF OpToRel
<1>3. PICK m \in S : \A k \in S : <<k, m>> \notin {p \in Nat \X Nat : p[1] < p[2]}
  BY <1>2
<1>4. ASSUME NEW k \in S PROVE m <= k
  <2>1. <<k, m>> \notin {p \in Nat \X Nat : p[1] < p[2]}
    BY <1>3
  <2>2. ~(k < m)
    BY <2>1
  <2> QED BY <2>2
<1> QED BY <1>4

\* A loop has its values: the recursive function exists.
LEMMA PassesExist ==
  ASSUME NEW c, NEW x, NEW ids, NEW last \in Nat
  PROVE  \E f : Passes(c, x, ids, last, f)
<1> DEFINE bad == {m \in Nat : ~ \E f : Passes(c, x, ids, m, f)}
<1> SUFFICES ASSUME bad # {} PROVE FALSE
  OBVIOUS
<1>1. PICK m \in bad : \A k \in bad : m <= k
  <2>1. bad \in SUBSET Nat
    OBVIOUS
  <2> HIDE DEF bad
  <2> QED BY <2>1, LeastPass
<1>2. CASE m = 0
  <2>1. Passes(c, x, ids, 0, [n \in 0 .. 0 |-> x])
    BY DEF Passes
  <2> QED BY <1>1, <1>2, <2>1
<1>3. CASE m # 0
  <2>1. m \in Nat /\ m - 1 \in Nat /\ m - 1 \notin bad
    BY <1>1, <1>3
  <2>2. PICK f : Passes(c, x, ids, m - 1, f)
    BY <2>1
  <2> DEFINE g == [n \in 0 .. m |->
                     IF n < m THEN f[n] ELSE IF m \in ids THEN Op(c, f[m - 1], m) ELSE f[m - 1]]
  <2>3. /\ f[0] = x
        /\ \A n \in 1 .. m - 1 : f[n] = IF n \in ids THEN Op(c, f[n - 1], n) ELSE f[n - 1]
    BY <1>3, <2>1, <2>2 DEF Passes
  <2>4. Passes(c, x, ids, m, g)
    <3>1. ASSUME NEW n \in 0 .. m
          PROVE  g[n] = IF n = 0 THEN x ELSE IF n \in ids THEN Op(c, g[n - 1], n) ELSE g[n - 1]
      <4>1. CASE n = 0
        BY <1>3, <2>1, <2>3, <4>1
      <4>2. CASE n \in 1 .. m - 1
        <5>1. g[n] = f[n] /\ g[n - 1] = f[n - 1]
          BY <2>1, <4>2
        <5> QED BY <2>3, <4>2, <5>1
      <4>3. CASE n = m
        <5>1. g[n - 1] = f[m - 1]
          BY <2>1, <1>3, <4>3
        <5> QED BY <1>3, <2>1, <4>3, <5>1
      <4> QED BY <2>1, <4>1, <4>2, <4>3
    <3>2. g = [n \in 0 .. m |-> g[n]]
      OBVIOUS
    <3> HIDE DEF g
    <3> QED BY <3>1, <3>2 DEF Passes
  <2> QED BY <1>1, <2>4
<1> QED BY <1>2, <1>3

\* What one pass after another leads to, the loop leads to.
LEMMA LoopKeeps ==
  ASSUME NEW c, NEW x, NEW ids, NEW last \in Nat, P(c, 0, x),
         \A n \in 1 .. last : \A y :
           P(c, n - 1, y) => P(c, n, IF n \in ids THEN Op(c, y, n) ELSE y)
  PROVE  P(c, last, Run(c, x, ids, last))
<1> DEFINE done == CHOOSE f : Passes(c, x, ids, last, f)
<1>1. Passes(c, x, ids, last, done)
  BY PassesExist
<1>2. Run(c, x, ids, last) = done[last]
  BY DEF Run, Passes
<1> HIDE DEF done
<1>3. /\ done[0] = x
      /\ \A n \in 1 .. last : done[n] = IF n \in ids THEN Op(c, done[n - 1], n) ELSE done[n - 1]
  BY <1>1 DEF Passes
<1> DEFINE bad == {n \in 0 .. last : ~ P(c, n, done[n])}
<1>4. bad = {}
  <2> SUFFICES ASSUME bad # {} PROVE FALSE
    OBVIOUS
  <2>1. PICK m \in bad : \A k \in bad : m <= k
    <3>1. bad \in SUBSET Nat
      OBVIOUS
    <3> HIDE DEF bad
    <3> QED BY <3>1, LeastPass
  <2>2. m # 0
    BY <1>3, <2>1
  <2>3. m \in 1 .. last /\ m - 1 \in 0 .. last /\ m - 1 \notin bad
    BY <2>1, <2>2
  <2>4. P(c, m - 1, done[m - 1])
    BY <2>3
  <2>5. P(c, m, done[m])
    BY <1>3, <2>3, <2>4
  <2> QED BY <2>1, <2>5
<1> QED BY <1>2, <1>4
=============================================================================

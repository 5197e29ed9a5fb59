------------------------------ MODULE Replica ------------------------------
(***************************************************************************)
(* What linked graphs promise: a mirror holds a state its source was in,   *)
(* under the version the source gave that state, and only moves forward.   *)
(* A mirror may lag and may skip versions; it never mixes two of them.     *)
(***************************************************************************)
EXTENDS Naturals, Sequences

CONSTANTS
  Nodes,    \* the stable external ids of the source
  Fields    \* the fields a node may have

VARIABLES
  past,     \* past[n][v] is the source's node n at version v
  copy      \* copy[n] is the subscriber's mirror of n; version 0 is none

(* A field's value is the version that wrote it; 0 is a field that is not  *)
(* there.                                                                   *)
Blank == [f \in Fields |-> 0]
State == [gone : BOOLEAN, content : [Fields -> Nat]]
Nothing == [gone |-> TRUE, content |-> Blank]

Copied(version, state) ==
  [version |-> version, gone |-> state.gone, content |-> state.content]

(* From any moment on: the source may have a past, and the mirrors a state *)
(* of it.                                                                   *)
Init ==
  /\ past \in [Nodes -> Seq(State)]
  /\ copy = [n \in Nodes |-> copy[n]]
  /\ \A n \in Nodes :
       \/ copy[n] = Copied(0, Nothing)
       \/ \E v \in DOMAIN past[n] : copy[n] = Copied(v, past[n][v])

(* The source commits: each node it touches gets one more version.         *)
Commit ==
  /\ DOMAIN past' = Nodes
  /\ \A n \in Nodes :
       \/ past'[n] = past[n]
       \/ \E s \in {past'[n][Len(past'[n])]} :
            s \in State /\ past'[n] = Append(past[n], s)
  /\ UNCHANGED copy

(* Mirrors catch up: each that moves takes a later state of its node.      *)
CatchUp ==
  /\ DOMAIN copy' = Nodes
  /\ \A n \in Nodes :
       \/ copy'[n] = copy[n]
       \/ \E v \in DOMAIN past[n] :
            v > copy[n].version /\ copy'[n] = Copied(v, past[n][v])
  /\ UNCHANGED past

Next == Commit \/ CatchUp

Spec == Init /\ [][Next]_<<past, copy>>
=============================================================================

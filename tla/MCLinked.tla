------------------------------ MODULE MCLinked ------------------------------
(* Model values for the runs of Linked.                                     *)
EXTENDS Linked, TLC

CONSTANTS n1, n2

LinkedSymmetry == Permutations(Handlers) \cup Permutations(Nodes)

(* A state the system reaches: one commit made every node, every node was   *)
(* linked and leased, and a wake is over.                                   *)
LinkedInit ==
  LET fields == [f \in Fields |-> 1]
      change == [version |-> 1, kind |-> "upsert", fields |-> fields]
  IN /\ past = [n \in Nodes |-> <<[gone |-> FALSE, content |-> fields]>>]
     /\ history = <<[n \in Nodes |-> change]>>
     /\ leased = Nodes
     /\ cursor = 1
     /\ batch = None
     /\ delivering = {}
     /\ inflight = {}
     /\ mailbox = {}
     /\ mirror = [n \in Nodes |->
          [version |-> 1, gone |-> FALSE, content |-> fields]]
     /\ ready = TRUE
     /\ token = TRUE
     /\ task = [t \in Tasks |-> Idle]

(* Another: a node was made and written before anybody links it.            *)
UnlinkedInit ==
  LET wrote(v) == [version |-> v, kind |-> "upsert", fields |-> [f \in Fields |-> v]]
  IN /\ past = [n \in Nodes |->
          [v \in 1 .. 2 |-> [gone |-> FALSE, content |-> [f \in Fields |-> v]]]]
     /\ history = [v \in 1 .. 2 |-> [n \in Nodes |-> wrote(v)]]
     /\ leased = {}
     /\ cursor = 2
     /\ batch = None
     /\ delivering = {}
     /\ inflight = {}
     /\ mailbox = {}
     /\ mirror = [n \in Nodes |-> None]
     /\ ready = FALSE
     /\ token = FALSE
     /\ task = [t \in Tasks |-> Idle]

LinkedSpec == LinkedInit /\ [][Next]_vars

WakesSpec == (LinkedInit \/ UnlinkedInit) /\ [][Next]_vars /\ Fairness
=============================================================================

------------------------------ MODULE MCStore -------------------------------
(* Instances of Store for model checking. *)
EXTENDS Store, TLC

CONSTANTS t1, t2

ThreadSymmetry == Permutations({t1, t2})
=============================================================================

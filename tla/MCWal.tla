------------------------------- MODULE MCWal --------------------------------
(* Instances of Wal for model checking. *)
EXTENDS Wal, TLC

CONSTANTS w1, w2

TwoWriters == {w1, w2}
WriterSymmetry == Permutations(TwoWriters)
=============================================================================

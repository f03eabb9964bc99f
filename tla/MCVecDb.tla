------------------------------ MODULE MCVecDb ------------------------------
(***************************************************************************)
(* Two threads, two ids; records without a vector and with one.            *)
(***************************************************************************)
EXTENDS VecDb, TLC

CONSTANTS a, b, x, y

SomeVals == {[dim |-> 0], [dim |-> 1]}

Symmetry == Permutations(Threads) \cup Permutations(Ids)
=============================================================================

---------------------------- MODULE MCObjectStore ----------------------------
(* ObjectStore on a small instance: two processes compete for two or three
   contents and two snapshot identifiers.                                   *)
EXTENDS ObjectStore, TLC

Symmetry == Permutations(Proc) \cup Permutations(Hash) \cup Permutations(Snap)
==============================================================================

------------------------------ MODULE MCJournal ------------------------------
(* Journal on small instances.  Blocks and contents are interchangeable.   *)
EXTENDS Journal, TLC

Symmetry == Permutations(Blocks) \cup Permutations(Vals)
=============================================================================

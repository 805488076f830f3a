------------------------------ MODULE MCBlueyFS ------------------------------
(* BlueyFS on small instances.  Names are interchangeable.                 *)
EXTENDS BlueyFS, TLC

Symmetry == Permutations(Names)
=============================================================================

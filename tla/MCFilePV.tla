------------------------------ MODULE MCFilePV ------------------------------
(* The private validator over two heights, two rounds, two contents and    *)
(* two timestamps: every pair of requests that can conflict occurs.  A     *)
(* violation needs two signatures, so runs that have handed out more than  *)
(* MaxReleased are not continued.                                          *)
EXTENDS FilePV, FiniteSets, TLC

CONSTANT MaxReleased

ReleasedBound == Cardinality(released) <= MaxReleased

Symmetry == Permutations(Contents) \cup Permutations(Times)
=============================================================================

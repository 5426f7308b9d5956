------------------------------- MODULE MCOsfs -------------------------------
(* Model values and bounds for the runs of Osfs. *)
EXTENDS OsfsRefinement, TLC

CONSTANTS p1, p2, fa, fb, long

Symmetry == Permutations(Procs)
FileSymmetry == Permutations(Procs) \cup Permutations(Names)
=============================================================================

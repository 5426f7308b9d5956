---------------------------- MODULE MCOsfsMounted ----------------------------
(* Model values for the run of OsfsReaddir. *)
EXTENDS OsfsReaddir

CONSTANTS p1, p2, fa, fb
=============================================================================

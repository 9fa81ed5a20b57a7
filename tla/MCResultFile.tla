---------------------------- MODULE MCResultFile ----------------------------
(* ResultFile on small instances for TLC.  The writers are interchangeable,  *)
(* and so are the entries.                                                   *)
EXTENDS ResultFile, TLC

Symmetry == Permutations(Writers) \cup Permutations(Entries)
=============================================================================

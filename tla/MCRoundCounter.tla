--------------------------- MODULE MCRoundCounter ---------------------------
(* RoundCounter on small instances for TLC.  The thread slots are            *)
(* interchangeable, but no symmetry is used: a run has a liveness property.  *)
EXTENDS RoundCounter, TLC
=============================================================================

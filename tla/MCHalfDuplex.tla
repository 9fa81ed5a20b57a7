---------------------------- MODULE MCHalfDuplex ----------------------------
(* HalfDuplex for TLC: the choosers of the two directions of a link.         *)
EXTENDS HalfDuplex, TLC

CONSTANTS a, b

MCChooser == (a :> "only_work_at_odd_round") @@ (b :> "only_work_at_even_round")
=============================================================================

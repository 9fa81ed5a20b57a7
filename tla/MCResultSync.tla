---------------------------- MODULE MCResultSync ----------------------------
(* ResultSync on small tables for TLC.                                       *)
EXTENDS ResultSync
=============================================================================

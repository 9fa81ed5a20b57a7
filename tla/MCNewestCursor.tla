--------------------------- MODULE MCNewestCursor ---------------------------
(* NewestCursor on small tables for TLC.                                     *)
EXTENDS NewestCursor
=============================================================================

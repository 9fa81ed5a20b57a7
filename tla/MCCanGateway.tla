--------------------------- MODULE MCCanGateway ----------------------------
(* TLC instances of CanGateway. *)
EXTENDS CanGateway

Entry(c, m) == [com |-> c, mode |-> m, rateOk |-> TRUE]

\* A sender and a listener that share a bus; two listeners on buses of which the
\* second's response table points to the first's array; a refused entry.
MCConfigs ==
    { <<Entry(5, "test"), Entry(5, "listen")>>,
      <<Entry(4, "listen"), Entry(7, "listen")>>,
      <<Entry(9, "listen"), Entry(5, "listen")>> }

MCFrames == [c \in Coms |-> IF c = 5 THEN 2 ELSE 1]
=============================================================================

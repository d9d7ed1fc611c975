--------------------------- MODULE MCStreamSources ---------------------------
(* A small instance of StreamSources for TLC. *)
EXTENDS StreamSources

CONSTANTS c1, r1, h1

OneCamera == {c1}
OneResponse == {r1}
OneCell == {h1}

===============================================================================

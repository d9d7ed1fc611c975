--------------------------- MODULE MCStreamManager ---------------------------
(* Small instances of StreamManager for TLC. *)
EXTENDS StreamManager

CONSTANTS c1, c2, r1, r2, h1, h2

OneCamera == {c1}
TwoCameras == {c1, c2}
TwoResponses == {r1, r2}
NoResponses == {}
OneCell == {h1}
TwoCells == {h1, h2}

===============================================================================

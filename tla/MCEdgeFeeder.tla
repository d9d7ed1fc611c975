---------------------------- MODULE MCEdgeFeeder ----------------------------
(* Small instances of EdgeFeeder for TLC. *)
EXTENDS EdgeFeeder

CONSTANTS v1, v2, a1, a2, a3

OneVehicle == {v1}
TwoVehicles == {v1, v2}
TwoAddresses == {a1, a2}

\* No texture at all, blurry, exactly at the threshold, sharp.
AllScores == {0, 1, 2, 3}
SharpScores == {3}

===============================================================================

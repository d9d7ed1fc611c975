----------------------------- MODULE MCWsAlerts -----------------------------
(* A small instance of WsAlerts for TLC. *)
EXTENDS WsAlerts

CONSTANTS s1, s2, m1, m2

TwoSockets == {s1, s2}
TwoMessages == {m1, m2}

=============================================================================

----------------------------- MODULE MCAlertPanel -----------------------------
(* A small instance of AlertPanel for TLC: two alerts of one second and a later one. *)
EXTENDS AlertPanel, TLC

CONSTANTS v1, a1, a2, a3

OneView == {v1}
ThreeAlerts == {a1, a2, a3}
Seconds == [a \in ThreeAlerts |-> IF a = a3 THEN 2 ELSE 1]

\* Nothing tells the alerts of one second apart.
Symmetry == Permutations({a1, a2})

===============================================================================

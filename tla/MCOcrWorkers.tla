---------------------------- MODULE MCOcrWorkers ----------------------------
(* A small instance of OcrWorkers for TLC. *)
EXTENDS OcrWorkers, TLC

CONSTANTS w1, w2, c1, p1, p2

TwoWorkers == {w1, w2}
OneCamera == {c1}
TwoPlates == {p1, p2}
StolenPlate == {p1}

\* Nothing tells the workers apart: no property, no fairness condition (its action is the
\* disjunction over the workers), and so every path of the quotient is one of the system.
WorkerSymmetry == Permutations(Workers)

===============================================================================

--------------------------- MODULE MCStreamQueue ---------------------------
(* Small instances of StreamQueue for TLC. *)
EXTENDS StreamQueue, TLC

CONSTANTS w1, w2

TwoWorkers == {w1, w2}
NoWorker == {}
Symmetry == Permutations(TwoWorkers)
=============================================================================

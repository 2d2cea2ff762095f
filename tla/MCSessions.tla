----------------------------- MODULE MCSessions -----------------------------
(* A user with three sessions, and two requests that log out. *)
EXTENDS Sessions, TLC
CONSTANTS ann, p1, p2
One == {ann}
TwoRequests == {p1, p2}
Symmetry == Permutations(TwoRequests)
=============================================================================

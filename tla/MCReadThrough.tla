--------------------------- MODULE MCReadThrough ---------------------------
(* ReadThrough with three requests at once. *)
EXTENDS ReadThrough
CONSTANTS p1, p2, p3
Three == {p1, p2, p3}
=============================================================================

---------------------------- MODULE MCPostLikes ----------------------------
(* A small instance of PostLikes for TLC: three requests of two users. *)
EXTENDS PostLikes
CONSTANTS c1, c2, c3, ann, bob
ThreeClients == {c1, c2, c3}
Duo == {ann, bob}
=============================================================================

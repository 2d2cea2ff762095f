--------------------------- MODULE MCSocialGraph ---------------------------
(* A small instance of SocialGraph for TLC: two users follow a third. *)
EXTENDS SocialGraph, TLC

CONSTANTS ann, bob, cat, c1, c2

Trio == {ann, bob, cat}
TwoFollowAnn == {<<bob, ann>>, <<cat, ann>>}
OneClient == {c1}
TwoClients == {c1, c2}
Symmetry == Permutations(TwoClients) \union Permutations({bob, cat})
=============================================================================

---------------------------- MODULE MCHomeFeed ----------------------------
(* Small instances of HomeFeed for TLC: one or two users follow an author. *)
EXTENDS HomeFeed, TLC

CONSTANTS ann, bob, cat, c1, c2, v1, v2

Trio == {ann, bob, cat}
TwoFollowAnn == {<<bob, ann>>, <<cat, ann>>}
Duo == {ann, bob}
BobFollowsAnn == {<<bob, ann>>}
TwoClients == {c1, c2}
OneClient == {c1}
TwoWorkers == {v1, v2}
OneWorker == {v1}
Symmetry == Permutations(Clients) \union Permutations(Workers)
                \union Permutations(Users \ Authors)
=============================================================================

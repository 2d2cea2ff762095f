----------------------------- MODULE MCFeedRead -----------------------------
(* FeedRead with four posts, two to a page and two ticks to the second.  The *)
(* two newest share a time; the oldest is two seconds or more older than the *)
(* end of any full page of others, so that the second page owes it.          *)
EXTENDS FeedRead
FourPosts == 1..4
Times == <<3, 7, 8, 8>>
Friends == {1, 3}
Stars == {2}
=============================================================================

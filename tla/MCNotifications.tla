--------------------------- MODULE MCNotifications ---------------------------
(* Notifications with two events and one socket that reconnects. *)
EXTENDS Notifications
CONSTANTS s1
OneSocket == {s1}
TwoKinds == <<"comment", "follow">>
=============================================================================

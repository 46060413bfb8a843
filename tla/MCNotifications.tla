--------------------------- MODULE MCNotifications ---------------------------
(* Instances of Notifications small enough for TLC: a day of three hours of   *)
(* which two are quiet, so that the quiet hours cross midnight as 23..8 does, *)
(* and two messages, one more than a batch holds.                             *)
EXTENDS Notifications
=============================================================================

------------------------- MODULE MCNotificationFlow -------------------------
(* Two sessions over a list of two alarms, on a bar of four tabs. *)
EXTENDS NotificationFlow
=============================================================================

----------------------------- MODULE MCAlarmFeed -----------------------------
(* AlarmFeed with short lists: two alarms, two batches of two per session. *)
EXTENDS AlarmFeed
=============================================================================

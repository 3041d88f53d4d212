----------------------------- MODULE MCMainPage -----------------------------
(* The main page with a bar of four tabs and two alarms to open. *)
EXTENDS MainPage
=============================================================================

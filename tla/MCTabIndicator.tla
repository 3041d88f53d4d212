-------------------------- MODULE MCTabIndicator --------------------------
(* TabIndicator with the application's own numbers of tabs and milliseconds. *)
EXTENDS TabIndicator
=============================================================================

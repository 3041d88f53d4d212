----------------------------- MODULE MCSession -----------------------------
(* Two accounts, two sign-ins under way at once. *)
EXTENDS Session
=============================================================================

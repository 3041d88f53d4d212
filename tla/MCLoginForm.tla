---------------------------- MODULE MCLoginForm ----------------------------
(* The login page with two sign-ins under way at once. *)
EXTENDS LoginForm
=============================================================================

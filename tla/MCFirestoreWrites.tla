-------------------------- MODULE MCFirestoreWrites ---------------------------
(***************************************************************************)
(* Three writes of two users over a pipeline of two.                       *)
(***************************************************************************)
EXTENDS FirestoreWrites
=============================================================================

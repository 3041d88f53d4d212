--------------------------- MODULE MCFirestoreReads ---------------------------
(***************************************************************************)
(* Two gets over a document that is written once more, with two streams    *)
(* that break and one restart of the network.                              *)
(***************************************************************************)
EXTENDS FirestoreReads
=============================================================================

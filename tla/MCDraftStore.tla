---------------------------- MODULE MCDraftStore ----------------------------
(* A small instance of DraftStore for TLC. *)
EXTENDS DraftStore
=============================================================================

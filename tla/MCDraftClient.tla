---------------------------- MODULE MCDraftClient ----------------------------
(* Small instances of DraftClient for TLC. *)
EXTENDS DraftClient
==============================================================================

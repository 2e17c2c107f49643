---------------------------- MODULE MCChunkRoute ----------------------------
(* A small instance of ChunkRoute for TLC. *)
EXTENDS ChunkRoute
=============================================================================

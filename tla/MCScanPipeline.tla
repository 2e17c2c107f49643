---------------------------- MODULE MCScanPipeline ----------------------------
(* Small instances of ScanPipeline for TLC. *)
EXTENDS ScanPipeline, TLC

Symmetry == Permutations(Files \ Large) \cup Permutations(Requests)
              \cup Permutations(Runs) \cup Permutations(Keys)
===============================================================================

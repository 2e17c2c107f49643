-------------------------- MODULE MCTransferLifecycle --------------------------
(* Small instances of TransferLifecycle for TLC. *)
EXTENDS TransferLifecycle, TLC

Symmetry == Permutations(Files) \cup Permutations(Requests)
              \cup Permutations(Owners) \cup Permutations(Runs)
=============================================================================

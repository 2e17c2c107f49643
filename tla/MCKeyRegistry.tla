---------------------------- MODULE MCKeyRegistry ----------------------------
(* A small instance of KeyRegistry for TLC: one tab with three handshakes,  *)
(* or two tabs with one each.                                               *)
EXTENDS KeyRegistry, TLC

CONSTANTS tab1, tab2

MCUses == {(tab1 :> 3) @@ (tab2 :> 0), (tab1 :> 1) @@ (tab2 :> 1)}
==============================================================================

------------------------------ MODULE MC_Rga ------------------------------
(* Small instances of Rga for TLC: the configurations give the constants. *)
EXTENDS Rga
=============================================================================

---------------------------- MODULE MCSyncWindow ----------------------------
(* An instance of SyncWindow for TLC. *)
EXTENDS SyncWindow, TLC

CONSTANTS x1, x2

TxnSymmetry == Permutations({x1, x2})
=============================================================================

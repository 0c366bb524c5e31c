--------------------------- MODULE MCConnections ---------------------------
(* Instances of Connections for TLC. *)
EXTENDS Connections, TLC

MCSymmetry == Permutations(Callbacks) \cup Permutations(States)
                \cup Permutations(Connections) \cup Permutations(BankAccounts)
=============================================================================

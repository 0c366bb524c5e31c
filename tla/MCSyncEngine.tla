---------------------------- MODULE MCSyncEngine ----------------------------
(* Instances of SyncEngine for TLC. *)
EXTENDS SyncEngine, TLC

CONSTANTS c1, c2, a1, a2, a3, t1, t2

\* One connection with two accounts.
MCOwnerSingle == (a1 :> c1) @@ (a2 :> c1)

\* One account per connection.
MCOwnerPair == (a1 :> c1) @@ (a3 :> c2)

TaskSymmetry == Permutations({t1, t2})
=============================================================================

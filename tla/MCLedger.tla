------------------------------ MODULE MCLedger ------------------------------
(* Instances of Ledger for TLC. *)
EXTENDS Ledger, TLC

CONSTANTS p1, p2, p3, i1, i2, i3, i4, grocer, cafe

MCRank == [p \in Purchases |-> CASE p = p1 -> 1 [] p = p2 -> 2 [] OTHER -> 3]

\* Purchases that can be told apart: p1 keeps its provider id when it settles,
\* p3 never has one.
MCLook      == (p1 :> grocer) @@ (p2 :> cafe) @@ (p3 :> cafe)
MCPendingId == (p1 :> i1) @@ (p2 :> i2) @@ (p3 :> None)
MCSettledId == (p1 :> i1) @@ (p2 :> i3) @@ (p3 :> None)

\* Two coffees, indistinguishable but for their ids, which change.
MCTwinLook      == (p1 :> cafe) @@ (p2 :> cafe)
MCTwinPendingId == (p1 :> i1) @@ (p2 :> i2)
MCTwinSettledId == (p1 :> i3) @@ (p2 :> i4)
=============================================================================

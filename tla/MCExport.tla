------------------------------ MODULE MCExport ------------------------------
(* Instances of Export for TLC. *)
EXTENDS Export, TLC

CONSTANTS c1, c2, a1, a2, r1, r2, r3, b1, b2, b3, wise, gbp, eur

\* One account per connection, of the same name: two rows in one, one in the
\* other.
MCConnectionOf == (a1 :> c1) @@ (a2 :> c2)
MCAccountName  == [a \in Accounts |-> wise]
MCAccountOf    == [r \in Rows |-> IF r = r3 THEN a2 ELSE a1]
MCPosition     == [r \in Rows |-> CASE r = r1 -> 1 [] r = r2 -> 2 [] OTHER -> 3]

\* The accounts of a bank that names its currency accounts identically.
MCCurrency     == (a1 :> gbp) @@ (a2 :> eur)

\* The user has an account of the name the bank uses.
MCUserNames    == {<<wise, None>>}

\* Only r1 changes after it was stored.
MCMaxVersion == [r \in Rows |-> IF r = r1 THEN 2 ELSE 1]

BookSymmetry == Permutations(Books)
=============================================================================

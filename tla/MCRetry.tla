------------------------------ MODULE MCRetry ------------------------------
(* An instance of Retry for TLC, with ten seconds for its unit of time. *)
EXTENDS Retry

\* Waits of 5, 30 and 120 seconds, rounded up.
MCDue == [k \in 0..3 |-> CASE k = 0 -> 0 [] k = 1 -> 1 [] k = 2 -> 4 [] OTHER -> 16]
=============================================================================

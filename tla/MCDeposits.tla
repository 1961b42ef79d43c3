----------------------------- MODULE MCDeposits -----------------------------
(* Small instances of Deposits. *)
EXTENDS Deposits, TLC

CONSTANTS a1, e1, e2, e3, e4, w1, m1, m2

\* e1 and e2 together or e3 alone pay the intent, e1 and e3 overpay it, and e4
\* came before it.
ExpectTwo == [a \in Addresses |-> 2]
Amounts == [e \in Events |-> IF e \in {e3, e4} THEN 2 ELSE 1]
OneEarly == [e \in Events |-> IF e = e4 THEN "before" ELSE "within"]
Payments == {{e1, e2}, {e1, e3}, {e4}}

OneAddress == [e \in Events |-> a1]
=============================================================================

--------------------------- MODULE MCBalanceLocks ---------------------------
EXTENDS BalanceLocks, TLC

CONSTANTS a1, a2, a3, p1, p2, d1

\* The deposit pays for either payout but not for both.
Amounts == [x \in Payouts \cup Deposits |-> IF x = p1 THEN 1 ELSE 2]

SessionSymmetry == Permutations(Sessions)
=============================================================================

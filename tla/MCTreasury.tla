------------------------------ MODULE MCTreasury ------------------------------
(* Small instances of Treasury. *)
EXTENDS Treasury, TLC

CONSTANTS d1, p1, s1, l1

\* The tokens of one deposit are swept to the hot wallet and pay for a payout, or
\* are lost on the way.
Amounts == [m \in Movements |-> 1]
HotWallet == 1
TwoWallets == {1, 2}
Sources == [m \in Movements |-> CASE m \in Payouts -> 1 [] m \in Sweeps \cup Losses -> 2 [] OTHER -> None]
Targets == [m \in Movements |-> CASE m \in Deposits -> 2 [] m \in Sweeps -> 1 [] OTHER -> None]
=============================================================================

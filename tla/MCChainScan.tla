----------------------------- MODULE MCChainScan -----------------------------
(* Small instances of ChainScan. *)
EXTENDS ChainScan, TLC

CONSTANTS q1, q2, q3, t1, t2, t3, t4, usdt, usdc, indexer

\* Two processes under one identifier, and a third with another contract.
SharedWorkerId == [p \in Processes |-> indexer]
TwoContracts == [p \in Processes |-> IF p = q3 THEN usdc ELSE usdt]

Tokens == [t \in Transfers |-> IF t = t2 THEN usdc ELSE usdt]
\* t4 was reverted.
Successful == Transfers \ {t4}
Heights == [t \in Transfers |-> IF t = t3 THEN 2 ELSE 1]
=============================================================================

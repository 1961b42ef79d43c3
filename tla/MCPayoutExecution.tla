------------------------- MODULE MCPayoutExecution -------------------------
(* Small instances of PayoutExecution. *)
EXTENDS PayoutExecution, TLC

CONSTANTS p1, p2, s1, s2, e1, e2, t1, t2, hotWorker

\* Every process runs under the same configured worker identifier: then only
\* the lease epoch tells their claims apart.
SharedWorkerId == [w \in Workers |-> hotWorker]

\* Different amounts, so that one payout's money cannot pass for another's.
Amounts == [p \in Payouts |-> IF p = p1 THEN 2 ELSE 3]

WorkerSymmetry == Permutations({s1, s2}) \cup Permutations({e1, e2})
=============================================================================

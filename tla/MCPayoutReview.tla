--------------------------- MODULE MCPayoutReview ---------------------------
EXTENDS PayoutReview, TLC

CONSTANTS p1, p2, p3, v1, v2, w1, w2

Call(key, reference, amount) ==
  [key |-> key, reference |-> reference, amount |-> amount]

\* A call, its repetition under another key, the same reference with another
\* amount, and another order: together they exceed the funds.
Calls == {Call("k1", "o1", 2), Call("k2", "o1", 2), Call("k1", "o1", 1),
          Call("k2", "o2", 2)}

\* One order under two keys, once with another amount: a merchant that lost the
\* first answer.
Repeated == {Call("k1", "o1", 2), Call("k2", "o1", 2), Call("k2", "o1", 1)}

Symmetry == Permutations(Payouts) \cup Permutations(Reviewers)
              \cup Permutations(Screeners)
=============================================================================

---------------------------- MODULE MCMerchantApi ----------------------------
(* Small instances of MerchantApi. *)
EXTENDS MerchantApi, TLC

CONSTANTS h1, h2, ours, theirs

\* The other merchant has addresses and makes no calls.
Owners == [k \in {"gk1"} |-> ours]
Request(apiKey, nonce, time, key, reference, terms) ==
  [apiKey |-> apiKey, nonce |-> nonce, time |-> time,
   key |-> key, reference |-> reference, terms |-> terms]

\* An order, the same order under another key, and another order under that key.
ThreeRequests == {
  Request("gk1", "n1", 1, "k1", "o1", "t1"),
  Request("gk1", "n2", 1, "k2", "o1", "t1"),
  Request("gk1", "n3", 1, "k2", "o2", "t2")}
TwoAddresses == {1, 2}
HandlerSymmetry == Permutations(Handlers)
=============================================================================

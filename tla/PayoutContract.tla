--------------------------- MODULE PayoutContract ---------------------------
(***************************************************************************)
(* What the gateway keeps for an approved payout, without workers, leases, *)
(* signer or polling: its tokens move on the chain at most once, and one   *)
(* atomic step ends it - as succeeded after the tokens moved, or as        *)
(* failed, after which they never move.  A payout whose tokens have moved  *)
(* can fail only if a look at the chain has overlooked it.                 *)
(***************************************************************************)
EXTENDS Sequences

CONSTANT Payouts

VARIABLES outcome,  \* what the API reports of each payout
          moved,    \* payouts whose tokens have left the hot wallet
          unseen,   \* those of them that a look at the chain did not show
          books,    \* kinds of ledger transactions posted for each payout
          told      \* events sent to the merchant for each payout

vars == <<outcome, moved, unseen, books, told>>

Init ==
  /\ outcome = [p \in Payouts |-> "pending"]
  /\ moved = {} /\ unseen = {}
  /\ books = [p \in Payouts |-> {"payout_freeze"}]
  /\ told = [p \in Payouts |-> <<>>]

\* Perhaps under the eyes of somebody who has looked already.
Transfer(p) ==
  /\ outcome[p] = "pending"
  /\ p \notin moved
  /\ moved' = moved \cup {p}
  /\ unseen' \in {unseen, unseen \cup {p}}
  /\ UNCHANGED <<outcome, books, told>>

Overlook(p) ==
  /\ p \in moved
  /\ unseen' = unseen \cup {p}
  /\ UNCHANGED <<outcome, moved, books, told>>

End(p, result, entry, event) ==
  /\ outcome[p] = "pending"
  /\ outcome' = [outcome EXCEPT ![p] = result]
  /\ books' = [books EXCEPT ![p] = {"payout_freeze", entry}]
  /\ told' = [told EXCEPT ![p] = <<event>>]
  /\ UNCHANGED <<moved, unseen>>

Succeed(p) ==
  /\ p \in moved
  /\ End(p, "succeeded", "payout_settlement", "payout.succeeded")

Fail(p) ==
  /\ p \in moved => p \in unseen
  /\ End(p, "failed", "payout_failure_release", "payout.failed")

Next == \E p \in Payouts : Transfer(p) \/ Overlook(p) \/ Succeed(p) \/ Fail(p)

Spec == Init /\ [][Next]_vars
=============================================================================

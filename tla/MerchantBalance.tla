-------------------------- MODULE MerchantBalance --------------------------
(***************************************************************************)
(* What the gateway promises about one merchant's money in one asset: each *)
(* movement is atomic, happens once, and never overdraws an account.       *)
(***************************************************************************)
EXTENDS Integers

CONSTANTS Payouts, Deposits, Amount

VARIABLES status,    \* of each payout
          credited,  \* deposits credited to the merchant
          available, frozen

vars == <<status, credited, available, frozen>>

Init ==
  /\ status = [p \in Payouts |-> "absent"]
  /\ credited = {}
  /\ available = 0
  /\ frozen = 0

Credit(d) ==
  /\ d \notin credited
  /\ credited' = credited \cup {d}
  /\ available' = available + Amount[d]
  /\ UNCHANGED <<status, frozen>>

Become(p, from, to) ==
  /\ status[p] = from
  /\ status' = [status EXCEPT ![p] = to]
  /\ UNCHANGED credited

Create(p) ==
  /\ Become(p, "absent", "pending_review")
  /\ available >= Amount[p]
  /\ available' = available - Amount[p]
  /\ frozen' = frozen + Amount[p]

Approve(p) ==
  /\ Become(p, "pending_review", "confirming")
  /\ UNCHANGED <<available, frozen>>

Unfreeze(p, from, to) ==
  /\ Become(p, from, to)
  /\ frozen >= Amount[p]
  /\ frozen' = frozen - Amount[p]
  /\ available' = available + Amount[p]

Settle(p) ==
  /\ Become(p, "confirming", "succeeded")
  /\ frozen >= Amount[p]
  /\ frozen' = frozen - Amount[p]
  /\ UNCHANGED available

Next ==
  \/ \E d \in Deposits : Credit(d)
  \/ \E p \in Payouts :
       \/ Create(p) \/ Approve(p) \/ Settle(p)
       \/ Unfreeze(p, "pending_review", "rejected")
       \/ Unfreeze(p, "confirming", "failed")

Spec == Init /\ [][Next]_vars
=============================================================================

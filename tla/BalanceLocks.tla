---------------------------- MODULE BalanceLocks ----------------------------
(***************************************************************************)
(* The database transactions that move a merchant's money, and the row     *)
(* locks that make each of them atomic.                                    *)
(*                                                                         *)
(* Every one of them runs under READ COMMITTED: it locks rows one after    *)
(* the other, sums up the account it is about to debit in a later          *)
(* statement, posts, and commits.  Nothing but the locks stops two of them *)
(* from spending one balance.  Other modules take these transactions for   *)
(* single steps; here their statements interleave.                         *)
(***************************************************************************)
EXTENDS Integers, Sequences, FiniteSets, FiniteSetsExt

CONSTANTS Sessions,  \* database connections in a transaction
          Payouts, Deposits, \* payouts and deposit intents of one merchant
          Amount,    \* amount of each payout and each deposit
          None

ASSUME SubjectsAssumption ==
  /\ Payouts \cap Deposits = {}
  /\ {None, "merchant", "available", "frozen", "custody"}
       \cap (Payouts \cup Deposits) = {}
ASSUME AmountAssumption == Amount \in [Payouts \cup Deposits -> Nat \ {0}]

VARIABLES status,   \* of each row of payouts
          journal,  \* posted ledger transactions: [type, subject]
          session   \* the transaction open on each connection

vars == <<status, journal, session>>

-----------------------------------------------------------------------------
(* The ledger *)

Entry(type, x) == [type |-> type, subject |-> x]
Debits == [payout_freeze |-> "available", payout_unfreeze |-> "frozen",
           payout_failure_release |-> "frozen", payout_settlement |-> "frozen",
           deposit |-> "custody"]
Credits == [payout_freeze |-> "frozen", payout_unfreeze |-> "available",
            payout_failure_release |-> "available",
            payout_settlement |-> "custody", deposit |-> "available"]

\* accountBalance of a credit-normal account, summed over posted entries.
EntryAmount(e) == Amount[e.subject]
Total(entries) == MapThenSumSet(EntryAmount, entries)
Balance(account) ==
  Total({e \in journal : Credits[e.type] = account})
    - Total({e \in journal : Debits[e.type] = account})

-----------------------------------------------------------------------------
(* Kinds of transactions: the rows they lock in this order, the account they *)
(* sum up, the entry they post, and the status they lead from and to.        *)

\* A statement that names two tables locks their rows in the order of its
\* FOR UPDATE OF clause.
Update(row) == [row |-> row, mode |-> "update"]   \* FOR UPDATE
Share(row) == [row |-> row, mode |-> "share"]     \* FOR SHARE

Kinds == {"create", "again", "reject", "settle", "release", "credit"}

\* Mutant of Plan: rejecting locks the accounts the other way round.
PlanSwapped(kind, x) ==
  CASE kind = "create"  -> <<Update("merchant"), Update("available"), Update("frozen")>>
    [] kind = "again"   -> <<Update("merchant"), Update(x)>>
    [] kind = "reject"  -> <<Update(x), Update("frozen"), Update("available")>>
    [] kind = "settle"  -> <<Update(x), Update("frozen"), Update("custody")>>
    [] kind = "release" -> <<Update(x), Update("frozen"), Update("available")>>
    [] kind = "credit"  -> <<Update(x), Share("custody"), Share("available")>>

Plan(kind, x) ==
  CASE kind = "create"  -> <<Update("merchant"), Update("available"), Update("frozen")>>
    [] kind = "again"   -> <<Update("merchant"), Update(x)>>
    [] kind = "reject"  -> <<Update(x), Update("available"), Update("frozen")>>
    [] kind = "settle"  -> <<Update(x), Update("frozen"), Update("custody")>>
    [] kind = "release" -> <<Update(x), Update("frozen"), Update("available")>>
    [] kind = "credit"  -> <<Update(x), Share("custody"), Share("available")>>

Posting == [create |-> "payout_freeze", reject |-> "payout_unfreeze",
            settle |-> "payout_settlement", release |-> "payout_failure_release",
            credit |-> "deposit"]

From == [create |-> "absent", reject |-> "pending_review",
         settle |-> "confirming", release |-> "confirming"]
To == [create |-> "pending_review", reject |-> "rejected",
       settle |-> "succeeded", release |-> "failed"]

Statuses == {"absent", "pending_review", "confirming"} \cup {"rejected", "succeeded", "failed"}

\* `step' counts the locks held; `read' is the balance once it is summed up.
NotRead == -1
Idle == [kind |-> "none", subject |-> None, step |-> 0, read |-> NotRead]

Locks(s) == Plan(session[s].kind, session[s].subject)
Open(s) == session[s].kind # "none"
Held(s) == IF Open(s) THEN {Locks(s)[i] : i \in 1 .. session[s].step} ELSE {}
Ready(s) == Open(s) /\ session[s].step = Len(Locks(s))
Waiting(s) == Open(s) /\ ~Ready(s)
Wanted(s) == Locks(s)[session[s].step + 1]
Checks(s) == session[s].kind \in DOMAIN From

\* Sessions step through their plans, and the balance of an account is a sum of
\* entries of its payouts and deposits.
TypeOK ==
  /\ status \in [Payouts -> Statuses]
  /\ journal \subseteq [type : DOMAIN Debits, subject : Payouts \cup Deposits]
  /\ DOMAIN session = Sessions
  /\ \A s \in Sessions :
       \/ session[s] = Idle
       \/ /\ session[s].kind \in Kinds
          /\ session[s].subject \in Payouts \cup Deposits
          /\ session[s].step \in 0 .. Len(Locks(s))
          /\ session[s].read # NotRead => Ready(s) /\ Checks(s)

Init ==
  /\ status = [p \in Payouts |-> "absent"]
  /\ journal = {}
  /\ session = [s \in Sessions |-> Idle]

-----------------------------------------------------------------------------
\* Mutant of Conflict: crediting a deposit takes no lock that updates wait for.
ConflictOfUpdates(a, b) == a.row = b.row /\ a.mode = "update" /\ b.mode = "update"
Conflict(a, b) == a.row = b.row /\ "update" \in {a.mode, b.mode}
WaitsFor(s) ==
  {u \in Sessions \ {s} :
     Waiting(s) /\ \E lock \in Held(u) : Conflict(lock, Wanted(s))}

\* Mutant of Expected: the status of a payout is checked before its lock.
ExpectedUnlocked(s) ==
  session[s].kind = "credit" => Entry("deposit", session[s].subject) \notin journal

\* What the statement with the first lock finds: findExisting, or a payout or
\* intent that is still where this transaction takes it from.
Expected(s) ==
  LET x == session[s].subject IN
  CASE session[s].kind = "again"  -> status[x] # "absent"
    [] session[s].kind = "credit" -> Entry("deposit", x) \notin journal
    [] OTHER                      -> status[x] = From[session[s].kind]

Begin(s, kind, x) ==
  /\ ~Open(s)
  /\ session' = [session EXCEPT ![s] = [Idle EXCEPT !.kind = kind, !.subject = x]]
  /\ UNCHANGED <<status, journal>>

Lock(s) ==
  /\ Waiting(s)
  /\ WaitsFor(s) = {}
  /\ session[s].step = 0 => Expected(s)
  /\ session' = [session EXCEPT ![s].step = @ + 1]
  /\ UNCHANGED <<status, journal>>

\* A statement of its own, after the locks.
ReadBalance(s) ==
  /\ Ready(s)
  /\ Checks(s)
  /\ session[s].read = NotRead
  /\ session' = [session EXCEPT ![s].read =
       Balance(Debits[Posting[session[s].kind]])]
  /\ UNCHANGED <<status, journal>>

Finish(s) == session' = [session EXCEPT ![s] = Idle]

Post(s) ==
  LET x == session[s].subject
      kind == session[s].kind
  IN
  /\ Checks(s)
  /\ session[s].read >= Amount[x]
  /\ journal' = journal \cup {Entry(Posting[kind], x)}
  /\ status' = [status EXCEPT ![x] = To[kind]]

Commit(s) ==
  /\ Ready(s)
  /\ \/ Post(s)
     \/ /\ session[s].kind = "credit"
        /\ journal' = journal \cup {Entry("deposit", session[s].subject)}
        /\ UNCHANGED status
     \/ session[s].kind = "again" /\ UNCHANGED <<status, journal>>
  /\ Finish(s)

\* Nothing left to do: the first statement finds another state than expected,
\* or the balance is short.
Refuse(s) ==
  /\ \/ Waiting(s) /\ session[s].step = 0 /\ WaitsFor(s) = {} /\ ~Expected(s)
     \/ /\ Ready(s) /\ Checks(s) /\ session[s].read # NotRead
        /\ session[s].read < Amount[session[s].subject]
  /\ Finish(s)
  /\ UNCHANGED <<status, journal>>

\* A crash, a timeout or an error in any statement: the locks are gone.
Rollback(s) ==
  /\ Open(s)
  /\ Finish(s)
  /\ UNCHANGED <<status, journal>>

\* PostgreSQL aborts one transaction of a cycle of waits.
Cycle(C) ==
  /\ C # {}
  /\ \A s \in C : /\ WaitsFor(s) \cap C # {}
                  /\ \E u \in C : s \in WaitsFor(u)

AbortDeadlocked(C) ==
  /\ Cycle(C)
  /\ \E s \in C : Rollback(s)

\* The review that approves, and the execution up to confirming, need the row.
Approve(p) ==
  /\ status[p] = "pending_review"
  /\ \A s \in Sessions : Update(p) \notin Held(s)
  /\ status' = [status EXCEPT ![p] = "confirming"]
  /\ UNCHANGED <<journal, session>>

-----------------------------------------------------------------------------
BeginAny(s) ==
  \/ \E kind \in Kinds \ {"credit"}, p \in Payouts : Begin(s, kind, p)
  \/ \E d \in Deposits : Begin(s, "credit", d)

LockStep(s) == Lock(s) \/ Refuse(s)
PostStep(s) == ReadBalance(s) \/ Commit(s)

Next ==
  \/ \E s \in Sessions : BeginAny(s) \/ LockStep(s) \/ PostStep(s) \/ Rollback(s)
  \/ \E C \in SUBSET Sessions : AbortDeadlocked(C)
  \/ \E p \in Payouts : Approve(p)

Spec == Init /\ [][Next]_vars

-----------------------------------------------------------------------------
(* Properties *)

\* A balance that a transaction has summed up is the balance until it commits:
\* what was checked is what is spent, whoever else posts.
CheckedBalanceStands ==
  \A s \in Sessions :
    session[s].read # NotRead =>
      session[s].read = Balance(Debits[Posting[session[s].kind]])

\* Only finalizing a payout closes a cycle of waits: it locks frozen before
\* available, or frozen before custody, where the others hold what comes later.
\* Creations, rejections and credits alone never wait for each other in a ring.
DeadlockNeedsFinalization ==
  \A C \in SUBSET Sessions :
    Cycle(C) => \E s \in C : session[s].kind \in {"settle", "release"}

\* Every movement of money is atomic, happens once and overdraws nothing.
Atomic == INSTANCE MerchantBalance WITH
  credited <- {d \in Deposits : Entry("deposit", d) \in journal},
  available <- Balance("available"),
  frozen <- Balance("frozen")

ImplementsMerchantBalance == Atomic!Spec
=============================================================================

------------------------------- MODULE Treasury -------------------------------
(***************************************************************************)
(* The money of the gateway as it is accounted for: the tokens of the      *)
(* custody wallets on the chain, the ledger, the snapshots that bind one   *)
(* to the other, the detectors that compare them, and the cases they open. *)
(*                                                                         *)
(* One asset and one merchant.  A movement is one transfer of tokens, in a *)
(* block of its own once it is solidified: a deposit, a payout, a sweep    *)
(* between two wallets, or a loss, which nothing in the gateway knows of.  *)
(* What leads a payout, a sweep or a credit to its end is in the modules   *)
(* PayoutReview, PayoutExecution, Sweeps and Deposits; here they move      *)
(* tokens and post to the ledger.  A transfer that is marked failed may    *)
(* have been executed by then, and missed (FailedTransferWasMissed,        *)
(* OutcomeIsTrue); it is not executed later.                               *)
(*                                                                         *)
(* The snapshot command asks one node, which may lag behind the nodes of   *)
(* the workers but does not go back.  Snapshots and reconciliation runs    *)
(* come from timers, and a run holds an advisory lock: one at a time.      *)
(*                                                                         *)
(* Heights count movements.  The blocks between them, which move the head  *)
(* every few seconds and nothing else, are the action EmptyBlock.          *)
(***************************************************************************)
EXTENDS Integers, Sequences, FiniteSets, FiniteSetsExt

CONSTANTS Deposits, Payouts, Sweeps, Losses,  \* movements
          Wallets,          \* custody wallets, by id
          Hot,              \* the hot wallet, registered from the start
          Amount,           \* of each movement
          Source, Target,   \* wallets of each movement, None outside
          None              \* SQL NULL

Transfers == Payouts \cup Sweeps
Movements == Deposits \cup Transfers \cup Losses

ASSUME MovementsAssumption ==
  /\ Amount \in [Movements -> Nat \ {0}]
  /\ Losses \cap Payouts = {}
  /\ Wallets \subseteq Nat /\ Hot \in Wallets
  /\ None \notin Wallets
  /\ None \notin {"payout_freeze", "payout_unfreeze", "payout_failure_release",
                 "payout_settlement"}
  /\ Source \in [Movements -> Wallets \cup {None}]
  /\ Target \in [Movements -> Wallets \cup {None}]
  /\ \A d \in Deposits : Source[d] = None /\ Target[d] # None
  /\ \A p \in Payouts : Source[p] = Hot /\ Target[p] = None
  /\ \A s \in Sweeps : Source[s] # None /\ Target[s] = Hot
  /\ \A l \in Losses : Source[l] # None /\ Target[l] = None

VARIABLES chain,     \* the solidified movements
          node,      \* height of the node that the snapshot command asks
          active,    \* custody_wallets with status active
          transfer,  \* payouts and sweep_executions
          credited,  \* deposit intents with a ledger transaction
          journal,   \* posted journal_transactions
          capture,   \* the running wallet snapshot command
          latest,    \* the wallet_balance_snapshot_runs row that is judged
          reconcile, \* a reconciliation found a shortfall and has not committed
          case       \* the reconciliation case of a wallet shortfall

vars == <<chain, node, active, transfer, credited, journal, capture, latest,
          reconcile, case>>
money == <<chain, transfer, credited, journal>>
control == <<capture, latest, reconcile, case>>

-----------------------------------------------------------------------------
Statuses == {"none", "pending_review", "rejected", "ready_for_broadcast",
             "confirming", "succeeded", "failed"}
Accounts == {"custody", "available", "frozen"}

Row == [status : Statuses, tried : BOOLEAN,
        freeze : {None, "payout_freeze"},
        release : {None, "payout_unfreeze", "payout_failure_release"},
        settlement : {None, "payout_settlement"}]
Posting == [type : {"deposit", "payout_freeze", "payout_unfreeze",
                    "payout_failure_release", "payout_settlement"},
            of : Movements, debit : Accounts, credit : Accounts, amount : Nat]
LedgerCheckpoint == [entries : Nat, balance : Int,
                     payouts : Nat, payoutAmount : Nat,
                     sweeps : Nat, sweepAmount : Nat]
Snapshot == [height : Nat, wallets : SUBSET Wallets, total : Int,
             ledger : LedgerCheckpoint,
             credited : SUBSET Deposits,
             settled : SUBSET Payouts, failed : SUBSET Payouts]
NoSnapshot == [height |-> 0, wallets |-> {}]
Capture == [at : {"idle", "before", "head", "balances", "end", "after", "save"},
            wallets : SUBSET Wallets, before : {None} \cup LedgerCheckpoint,
            height : Nat, moved : BOOLEAN, left : SUBSET Wallets, total : Int]
Idle == [at |-> "idle", wallets |-> {}, before |-> None,
         height |-> 0, moved |-> FALSE, left |-> {}, total |-> 0]
NewRow == [status |-> "none", tried |-> FALSE,
           freeze |-> None, release |-> None, settlement |-> None]

\* The rows keep their types; the lifecycle checks of payouts tie the ledger
\* references to the status.
TypeOK ==
  /\ chain \in Seq(Movements) /\ node \in 0 .. Len(chain)
  /\ Hot \in active /\ active \subseteq Wallets
  /\ transfer \in [Transfers -> Row]
  /\ \A p \in Payouts :
       /\ transfer[p].freeze # None <=> transfer[p].status # "none"
       /\ transfer[p].release # None <=> transfer[p].status \in {"rejected", "failed"}
       /\ transfer[p].settlement # None <=> transfer[p].status = "succeeded"
  /\ credited \subseteq Deposits
  /\ journal \subseteq Posting
  /\ capture \in Capture
  /\ latest \in {NoSnapshot} \cup Snapshot
  /\ reconcile \in BOOLEAN
  /\ case \in {"none", "open", "resolved"}

Init ==
  /\ chain = <<>> /\ node = 0
  /\ active = {Hot}
  /\ transfer = [t \in Transfers |-> NewRow]
  /\ credited = {} /\ journal = {}
  /\ capture = Idle
  /\ latest = NoSnapshot
  /\ reconcile = FALSE
  /\ case = "none"

-----------------------------------------------------------------------------
(* The chain and the ledger *)

Upto(h) == {chain[i] : i \in 1 .. h}
Solid == Upto(Len(chain))
Sum(ms) == MapThenSumSet(LAMBDA m : Amount[m], ms)

\* balanceOf a wallet at a height.
TokenBalance(w, h) ==
  Sum({m \in Upto(h) : Target[m] = w}) - Sum({m \in Upto(h) : Source[m] = w})

\* Balance in the direction of the account's normal side.
Ledger(account) ==
  LET total(ps) == MapThenSumSet(LAMBDA j : j.amount, ps)
      debits == total({j \in journal : j.debit = account})
      credits == total({j \in journal : j.credit = account})
  IN  IF account = "custody" THEN debits - credits ELSE credits - debits

Post(type, m, debit, credit) ==
  journal' = journal \cup {[type |-> type, of |-> m, debit |-> debit,
                            credit |-> credit, amount |-> Amount[m]]}

\* Broadcast, or perhaps broadcast: the attempt is counted before the call.
InFlight(ts) ==
  {t \in ts : \/ transfer[t].status = "confirming"
              \/ transfer[t].status = "ready_for_broadcast" /\ transfer[t].tried}

Checkpoint ==
  [entries |-> Cardinality({j \in journal : "custody" \in {j.debit, j.credit}}),
   balance |-> Ledger("custody"),
   payouts |-> Cardinality(InFlight(Payouts)), payoutAmount |-> Sum(InFlight(Payouts)),
   sweeps |-> Cardinality(InFlight(Sweeps)), sweepAmount |-> Sum(InFlight(Sweeps))]

-----------------------------------------------------------------------------
(* Movements *)

\* A deposit arrives, a transfer that a worker tried is executed, or tokens go.
Solidify(m) ==
  /\ m \notin Solid
  /\ m \in Transfers => m \in InFlight(Transfers)
  /\ Source[m] # None => TokenBalance(Source[m], Len(chain)) >= Amount[m]
  /\ chain' = Append(chain, m)
  /\ UNCHANGED <<node, active, transfer, credited, journal, control>>

NodeCatchesUp ==
  /\ node < Len(chain)
  /\ \E h \in node + 1 .. Len(chain) : node' = h
  /\ UNCHANGED <<money, active, control>>

\* A wallet of the operator, or a deposit address with the wallet that its
\* trigger adds; again, it changes nothing.
Register(w) ==
  /\ active' = active \cup {w}
  /\ UNCHANGED <<money, node, control>>

\* An exact payment to a deposit address of the merchant.
CreditDeposit(d) ==
  /\ d \in Solid /\ Target[d] \in active
  /\ d \notin credited
  /\ credited' = credited \cup {d}
  /\ Post("deposit", d, "custody", "available")
  /\ UNCHANGED <<chain, node, active, transfer, control>>

CreatePayout(p) ==
  /\ transfer[p].status = "none"
  /\ Ledger("available") >= Amount[p]
  /\ transfer' = [transfer EXCEPT ![p].status = "pending_review",
                                  ![p].freeze = "payout_freeze"]
  /\ Post("payout_freeze", p, "available", "frozen")
  /\ UNCHANGED <<chain, node, active, credited, control>>

\* Mutant of RejectPayout: its posting goes by the name of a failed payout's.
RejectAsFailed(p) ==
  /\ transfer[p].status = "pending_review"
  /\ transfer' = [transfer EXCEPT ![p].status = "rejected",
                                  ![p].release = "payout_failure_release"]
  /\ Post("payout_failure_release", p, "frozen", "available")
  /\ UNCHANGED <<chain, node, active, credited, control>>

RejectPayout(p) ==
  /\ transfer[p].status = "pending_review"
  /\ transfer' = [transfer EXCEPT ![p].status = "rejected",
                                  ![p].release = "payout_unfreeze"]
  /\ Post("payout_unfreeze", p, "frozen", "available")
  /\ UNCHANGED <<chain, node, active, credited, control>>

\* Approved and signed, or planned and signed: neither moves money.
BecomesReady(t) ==
  /\ transfer[t].status = IF t \in Payouts THEN "pending_review" ELSE "none"
  /\ t \in Sweeps => Source[t] \in active
  /\ transfer' = [transfer EXCEPT ![t].status = "ready_for_broadcast"]
  /\ UNCHANGED <<chain, node, active, credited, journal, control>>

\* broadcast_attempts + 1; from now on the transaction may be on its way.
ClaimBroadcast(t) ==
  /\ transfer[t].status = "ready_for_broadcast"
  /\ transfer' = [transfer EXCEPT ![t].tried = TRUE]
  /\ UNCHANGED <<chain, node, active, credited, journal, control>>

BeginConfirmation(t) ==
  /\ transfer[t].status = "ready_for_broadcast" /\ transfer[t].tried
  /\ transfer' = [transfer EXCEPT ![t].status = "confirming"]
  /\ UNCHANGED <<chain, node, active, credited, journal, control>>

SettlePayout(p) ==
  /\ transfer[p].status = "confirming" /\ p \in Solid
  /\ transfer' = [transfer EXCEPT ![p].status = "succeeded",
                                  ![p].settlement = "payout_settlement"]
  /\ Post("payout_settlement", p, "frozen", "custody")
  /\ UNCHANGED <<chain, node, active, credited, control>>

\* Also of a payout that is executed: the worker's two reads may have missed it.
FailPayout(p) ==
  /\ transfer[p].status = "confirming"
  /\ transfer' = [transfer EXCEPT ![p].status = "failed",
                                  ![p].release = "payout_failure_release"]
  /\ Post("payout_failure_release", p, "frozen", "available")
  /\ UNCHANGED <<chain, node, active, credited, control>>

\* A sweep stays inside: its end posts nothing.  It may have been missed, too.
FinishSweep(s, outcome) ==
  /\ transfer[s].status = "confirming"
  /\ outcome = "succeeded" => s \in Solid
  /\ transfer' = [transfer EXCEPT ![s].status = outcome]
  /\ UNCHANGED <<chain, node, active, credited, journal, control>>

-----------------------------------------------------------------------------
(* The wallet snapshot command *)

CaptureStep(at, next) ==
  /\ capture.at = at
  /\ capture' = next
  /\ UNCHANGED <<money, node, active, latest, reconcile, case>>

ActiveWallets == CaptureStep("idle", [Idle EXCEPT !.at = "before", !.wallets = active])

ReadBefore ==
  CaptureStep("before", [capture EXCEPT !.at = "head", !.before = Checkpoint])

ReadHead ==
  CaptureStep("head", [capture EXCEPT !.at = "balances", !.height = node,
                                      !.moved = FALSE, !.left = capture.wallets])

\* The node reaches one more solidified block, without a movement.
EmptyBlock ==
  /\ ~capture.moved
  /\ CaptureStep("balances", [capture EXCEPT !.moved = TRUE])

\* The node answers for the solidified block that it has reached.
BalanceOf(w) == TokenBalance(w, node)

ReadBalance ==
  /\ capture.left # {}
  /\ LET w == Min(capture.left) IN
     CaptureStep("balances", [capture EXCEPT !.left = @ \ {w},
                                             !.total = @ + BalanceOf(w)])

\* Mutant of ReadEnd: a head that moved does not matter.
ReadEndAnyway ==
  /\ capture.left = {}
  /\ CaptureStep("balances", [capture EXCEPT !.at = "after"])

ReadEnd ==
  /\ capture.left = {}
  /\ node = capture.height /\ ~capture.moved
  /\ CaptureStep("balances", [capture EXCEPT !.at = "after"])

ReadAfter ==
  /\ Checkpoint = capture.before
  /\ CaptureStep("after", [capture EXCEPT !.at = "save"])

\* Serializable, after one more look at the checkpoint and the wallets.
\* credited, settled and failed are history, for the properties.
SaveSnapshot ==
  /\ capture.at = "save"
  /\ Checkpoint = capture.before
  /\ active = capture.wallets
  /\ latest' = IF capture.height < latest.height THEN latest ELSE
       [height |-> capture.height, wallets |-> capture.wallets,
        total |-> capture.total, ledger |-> capture.before, credited |-> credited,
        settled |-> {p \in Payouts : transfer[p].status = "succeeded"},
        failed |-> {p \in Payouts : transfer[p].status = "failed"}]
  /\ capture' = Idle
  /\ UNCHANGED <<money, node, active, reconcile, case>>

\* ErrHeadChanged, ErrLedgerChanged, ErrWalletSetChanged.
Refuse ==
  /\ \/ /\ capture.at = "balances" /\ capture.left = {}
        /\ node # capture.height \/ capture.moved
     \/ capture.at \in {"after", "save"} /\ Checkpoint # capture.before
     \/ capture.at = "save" /\ active # capture.wallets
  /\ capture' = Idle
  /\ UNCHANGED <<money, node, active, latest, reconcile, case>>

\* A node error, the timeout or a crash.
CaptureFails ==
  /\ capture # Idle
  /\ capture' = Idle
  /\ UNCHANGED <<money, node, active, latest, reconcile, case>>

-----------------------------------------------------------------------------
(* Reconciliation *)

\* Mutant of WalletFindings: what may be on its way is not allowed for.
WalletFindingsStrict(s) ==
  IF s = NoSnapshot THEN {}
  ELSE IF s.ledger.balance > s.total THEN {"shortfall"}
  ELSE IF s.ledger.balance < s.total THEN {"excess"} ELSE {}

\* The ledger against the interval from what the wallets hold to that plus the
\* payouts that may not have been executed.
WalletFindings(s) ==
  IF s = NoSnapshot THEN {}
  ELSE IF s.ledger.balance > s.total + s.ledger.payoutAmount THEN {"shortfall"}
  ELSE IF s.ledger.balance < s.total THEN {"excess"} ELSE {}

Links(p) == {[kind |-> "freeze", type |-> transfer[p].freeze],
             [kind |-> "release", type |-> transfer[p].release],
             [kind |-> "settlement", type |-> transfer[p].settlement]}

ExpectedType(p, kind) ==
  CASE kind = "freeze" -> "payout_freeze"
    [] kind = "release" /\ transfer[p].status = "rejected" -> "payout_unfreeze"
    [] kind = "release" /\ transfer[p].status = "failed" -> "payout_failure_release"
    [] kind = "settlement" /\ transfer[p].status = "succeeded" -> "payout_settlement"
    [] OTHER -> None

\* The accounts that a link's transaction debits and credits.
ExpectedLines(kind) ==
  CASE kind = "freeze" -> <<"available", "frozen">>
    [] kind = "release" -> <<"frozen", "available">>
    [] kind = "settlement" -> <<"frozen", "custody">>

Linked(m, type) == {j \in journal : j.of = m /\ j.type = type}

DepositFindings ==
  {d \in credited :
     \/ Linked(d, "deposit") = {}
     \/ \E j \in Linked(d, "deposit") :
          <<j.debit, j.credit, j.amount>> # <<"custody", "available", Amount[d]>>}

PayoutReferenceFindings ==
  {p \in Payouts : \E link \in Links(p) :
     /\ link.type # None /\ ExpectedType(p, link.kind) # None
     /\ \/ link.type # ExpectedType(p, link.kind)
        \/ Linked(p, link.type) = {}}

PayoutSemanticFindings ==
  {p \in Payouts : \E link \in Links(p) :
     /\ link.type # None
     /\ {<<<<j.debit, j.credit>>, j.amount>> : j \in Linked(p, link.type)}
          # {<<ExpectedLines(link.kind), Amount[p]>>}}

LedgerFindings == DepositFindings \cup PayoutReferenceFindings \cup PayoutSemanticFindings

\* Under the lock, a repeatable read transaction: what it finds is of this
\* moment.  Only the critical case is followed, the others are kept alike; a run
\* that finds nothing writes no case.
BeginRun ==
  /\ ~reconcile
  /\ "shortfall" \in WalletFindings(latest)
  /\ reconcile' = TRUE
  /\ UNCHANGED <<money, node, active, capture, latest, case>>

\* Mutant of CommitRun: a case that an operator closed counts as known.
CommitRunOnce ==
  /\ reconcile
  /\ case' = IF case = "none" THEN "open" ELSE case
  /\ reconcile' = FALSE
  /\ UNCHANGED <<money, node, active, capture, latest>>

\* An open case is updated, a resolved one stays and a new one opens.
CommitRun ==
  /\ reconcile
  /\ case' = "open"
  /\ reconcile' = FALSE
  /\ UNCHANGED <<money, node, active, capture, latest>>

ResolveCase ==
  /\ case = "open"
  /\ case' = "resolved"
  /\ UNCHANGED <<money, node, active, capture, latest, reconcile>>

\* gateway-recovery-audit: the same detectors and the open critical cases.
AuditPasses ==
  /\ LedgerFindings = {}
  /\ latest # NoSnapshot
  /\ "shortfall" \notin WalletFindings(latest)
  /\ case # "open"

\* What the audit of a restored database counts as still to be done.
PendingWork ==
  {t \in Transfers :
     transfer[t].status \in {"pending_review", "ready_for_broadcast", "confirming"}}

-----------------------------------------------------------------------------
MoneyStep ==
  \/ \E m \in Movements : Solidify(m)
  \/ \E d \in Deposits : CreditDeposit(d)
  \/ \E p \in Payouts : CreatePayout(p) \/ RejectPayout(p) \/ SettlePayout(p) \/ FailPayout(p)
  \/ \E t \in Transfers : BecomesReady(t) \/ ClaimBroadcast(t) \/ BeginConfirmation(t)
  \/ \E s \in Sweeps, outcome \in {"succeeded", "failed"} : FinishSweep(s, outcome)
  \/ \E w \in Wallets : Register(w)

SnapshotStep ==
  \/ ActiveWallets \/ ReadBefore \/ ReadHead \/ ReadBalance \/ ReadEnd \/ ReadAfter
  \/ SaveSnapshot \/ Refuse

Next ==
  \/ MoneyStep
  \/ NodeCatchesUp \/ EmptyBlock
  \/ SnapshotStep
  \/ CaptureFails
  \/ BeginRun \/ CommitRun
  \/ ResolveCase

\* The node follows the chain, the timer of the runs goes on, and a payout that
\* was broadcast is confirmed or fails.  The captures have none: a head that
\* moves under every one of them refuses them all.
Fairness ==
  /\ WF_vars(NodeCatchesUp)
  /\ WF_vars(BeginRun \/ CommitRun)
  /\ WF_vars(\E p \in Payouts : BeginConfirmation(p) \/ SettlePayout(p) \/ FailPayout(p))

Spec == Init /\ [][Next]_vars
FairSpec == Spec /\ Fairness

-----------------------------------------------------------------------------
(* Properties *)

Lost(h, ws) == {l \in Losses \cap Upto(h) : Source[l] \in ws}
Uncredited(h, ws, known) == {d \in (Deposits \cap Upto(h)) \ known : Target[d] \in ws}
Missing == Sum(Lost(latest.height, latest.wallets))
Pending == Sum(Uncredited(latest.height, latest.wallets, latest.credited))
Unsettled == (Payouts \cap Upto(latest.height)) \ latest.settled
Misjudged == Unsettled \cap latest.failed   \* executed, and released as failed
Ahead == (latest.credited \cup latest.settled) \ Upto(latest.height)

\* A snapshot is one cut through chain and ledger: the difference of its two
\* sums is exactly the deposits not credited yet, the payouts not settled yet,
\* what was lost, and what the node asked had not seen; no movement between two
\* wallets is counted twice or missed, and every executed payout that the
\* ledger has neither settled nor released as failed is in flight.
SnapshotAddsUp ==
  latest # NoSnapshot =>
    /\ latest.total - latest.ledger.balance
         = Pending - Sum(Unsettled) - Missing
           - Sum(Ahead \cap Deposits) + Sum(Ahead \cap Payouts)
    /\ Sum(Unsettled \ latest.failed) <= latest.ledger.payoutAmount

\* A shortfall is reported only if tokens were lost, an executed payout was
\* released as failed, or the node was behind a credited deposit; an excess only
\* if a deposit is not credited yet or the node was behind a settled payout; and
\* an audit passes only if all that was lost or paid out unnoticed is covered by
\* deposits still to be credited and payouts still in flight.
VerdictIsTrue ==
  latest # NoSnapshot =>
    /\ "shortfall" \in WalletFindings(latest) =>
         Missing > 0 \/ Misjudged # {} \/ Ahead \cap Deposits # {}
    /\ "excess" \in WalletFindings(latest) => Pending > 0 \/ Ahead \cap Payouts # {}
    /\ AuditPasses =>
         Missing + Sum(Misjudged)
           <= Pending + latest.ledger.payoutAmount + Sum(Ahead \cap Payouts)

\* In every state the gateway reaches, the detectors of the ledger are silent:
\* every reference of a payout or deposit leads to the posting they expect of it.
\* And what the ledger holds back is what the audit counts as pending payouts: no
\* money is frozen for work that nobody will do.
LedgerIsQuiet ==
  /\ LedgerFindings = {}
  /\ Ledger("frozen") = Sum(PendingWork \cap Payouts)

\* As long as snapshots are saved again and again, tokens lost for good, beyond
\* what deposits to be credited make up for, are a case again and again, also
\* after an operator has closed one.  (That they are saved is not certain: a
\* capture is refused whenever the head moves while the wallets are read.)
LossIsReported ==
  []<><<SaveSnapshot>>_vars =>
    (<>[](Sum(Lost(Len(chain), active)) > Sum(Uncredited(Len(chain), active, credited)))
       => []<>(case = "open"))
=============================================================================

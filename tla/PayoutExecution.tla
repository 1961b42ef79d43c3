-------------------------- MODULE PayoutExecution --------------------------
(***************************************************************************)
(* Execution of approved payouts: signing, broadcast and confirmation.     *)
(*                                                                         *)
(* Several signing and execution workers claim rows of the table payouts   *)
(* under leases, call the isolated signer and the TRON nodes outside any   *)
(* database transaction, and write the result back under a fence: the      *)
(* status, lease owner and lease epoch they were given by their claim.     *)
(*                                                                         *)
(* Time is abstracted to what the guards compare: `live' says that         *)
(* execution_lease_until lies ahead, `due' that next_confirmation_at does  *)
(* not, and `window' where the expiration of a transaction lies.  The      *)
(* lease epoch is abstracted to `holder', the worker whose claim carries   *)
(* the current epoch: a worker runs one claim at a time, so its epoch is   *)
(* current exactly when it is the holder of the payout it works on.        *)
(*                                                                         *)
(* A read goes to one of several TRON nodes, each of which may be behind   *)
(* the solidified chain, and a confirmation round reads twice.  `missed'   *)
(* is history, for the properties: the transactions that were solidified   *)
(* and that a round did not see before it asked for the head.              *)
(***************************************************************************)
EXTENDS Naturals, FiniteSets, FiniteSetsExt, Sequences

CONSTANTS Payouts,           \* payouts of one merchant in one asset
          SigningWorkers,    \* processes running SigningWorker
          ExecutionWorkers,  \* processes running ExecutionWorker
          WorkerId,          \* configured identifier of each process
          TxIds,             \* identifiers of TRON transactions
          Amount,            \* amount of each payout
          None, NoTx         \* SQL NULLs

Workers == SigningWorkers \cup ExecutionWorkers

ASSUME WorkersAssumption ==
  /\ SigningWorkers \cap ExecutionWorkers = {}
  /\ None \notin Workers \cup Payouts
ASSUME WorkerIdAssumption ==
  /\ DOMAIN WorkerId = Workers
  /\ \A w \in Workers : WorkerId[w] # None
ASSUME TxAssumption == NoTx \notin TxIds
ASSUME AmountAssumption == Amount \in [Payouts -> Nat \ {0}]

VARIABLES payout,   \* the rows of payouts
          journal,  \* posted ledger transactions, by reference type and payout
          outbox,   \* terminal events of each payout, in the order of insertion
          signed,   \* signer_requests: the one transaction signed per payout
          chain,    \* the TRON chain, external to this code
          job,      \* what each worker process is doing
          missed    \* history: see BehindTransaction and Solidify

vars == <<payout, journal, outbox, signed, chain, job, missed>>

-----------------------------------------------------------------------------
Statuses == {"approved", "ready_for_broadcast", "confirming",
             "succeeded", "failed"}
Terminal == {"succeeded", "failed"}
InFlight == Statuses \ Terminal

Freeze(p)     == [type |-> "payout_freeze", payout |-> p]
Settlement(p) == [type |-> "payout_settlement", payout |-> p]
Unfreeze(p)   == [type |-> "payout_failure_release", payout |-> p]
Entries == [type : {"payout_freeze", "payout_settlement",
                    "payout_failure_release"}, payout : Payouts]

\* Balance of the merchant's frozen account, summed over posted entries.
EntryAmount(e) == Amount[e.payout]
Posted(type) == MapThenSumSet(EntryAmount, {e \in journal : e.type = type})
FrozenBalance ==
  Posted("payout_freeze")
    - (Posted("payout_settlement") + Posted("payout_failure_release"))

SigningSteps == {"sign", "signed", "unsigned"}
ExecutionSteps == {"broadcast", "sent", "query", "head", "settle", "fail",
                   "rebroadcast", "release"}

Idle == [at |-> "idle", payout |-> None, tx |-> NoTx]

\* Where the work of a claim stands: its payout and its transaction.
At(w, step) == job[w].at = step
Goto(w, step) == job' = [job EXCEPT ![w].at = step]
Done(w) == job' = [job EXCEPT ![w] = Idle]

\* The CHECK constraints of payouts: a lease is owner and time together, and
\* the status decides whether there is a transaction and whether a lease may be.
LifecycleCheck(row) ==
  /\ row.live => row.owner # None
  /\ row.owner # None => row.holder # None /\ row.status \in InFlight
  /\ row.tx = NoTx <=> row.status = "approved"
  /\ row.due => row.status \in {"confirming"} \cup Terminal

\* A claim in hand names its payout, and its transaction once there is one.
JobCheck(j) ==
  /\ j.payout = None <=> j.at = "idle"
  /\ j.tx = NoTx <=> j.at \in {"idle", "sign", "unsigned"}

Row == [status : Statuses, owner : {None} \cup {WorkerId[w] : w \in Workers},
        live : BOOLEAN, holder : {None} \cup Workers,
        tx : {NoTx} \cup TxIds, due : BOOLEAN]
Tx  == [sent : BOOLEAN, place : {"none", "block", "solid"},
        ok : BOOLEAN, window : {"fresh", "stale", "final"}]
Job == [at : {"idle"} \cup SigningSteps \cup ExecutionSteps,
        payout : {None} \cup Payouts, tx : {NoTx} \cup TxIds]

RowsOK == payout \in [Payouts -> {row \in Row : LifecycleCheck(row)}]
BooksOK == /\ journal \subseteq Entries
           /\ outbox \in [Payouts -> Seq({"payout.succeeded", "payout.failed"})]
ChainOK == /\ signed \in [Payouts -> {NoTx} \cup TxIds]
           /\ chain \in [TxIds -> Tx]
           /\ missed \subseteq TxIds
JobsOK == job \in [Workers -> {j \in Job : JobCheck(j)}]

\* The rows satisfy their CHECK constraints and every worker's claim is whole.
TypeOK == RowsOK /\ BooksOK /\ ChainOK /\ JobsOK

Init ==
  /\ payout = [p \in Payouts |->
       [status |-> "approved", owner |-> None, live |-> FALSE,
        holder |-> None, tx |-> NoTx, due |-> FALSE]]
  /\ journal = {Freeze(p) : p \in Payouts}
  /\ outbox = [p \in Payouts |-> <<>>]
  /\ signed = [p \in Payouts |-> NoTx]
  /\ chain = [t \in TxIds |-> [sent |-> FALSE, place |-> "none",
                               ok |-> FALSE, window |-> "fresh"]]
  /\ job = [w \in Workers |-> Idle]
  /\ missed = {}

-----------------------------------------------------------------------------
(* Leases *)

\* Mutant of LeaseFree: an expired lease is never taken over.
LeaseFreeOnlyIfUnowned(p) == payout[p].owner = None
LeaseFree(p) == payout[p].owner = None \/ ~payout[p].live

\* The claim's UPDATE: a lease with the next epoch for the caller.
Lease(w, p) ==
  payout' = [payout EXCEPT ![p].owner = WorkerId[w], ![p].live = TRUE,
                           ![p].holder = w]

\* Mutant of Unleased: execution_lease_until is not cleared.
UnleasedKeepsTime(row) == [row EXCEPT !.owner = None]
Unleased(row) == [row EXCEPT !.owner = None, !.live = FALSE]

\* Mutant of Fenced: the lease epoch is not compared.
FencedWithoutEpoch(w, status) ==
  LET row == payout[job[w].payout] IN
  row.status = status /\ row.owner = WorkerId[w]

\* WHERE id, status, execution_lease_owner and execution_lease_epoch match.
Fenced(w, status) ==
  LET row == payout[job[w].payout] IN
  /\ row.status = status
  /\ row.owner = WorkerId[w]
  /\ row.holder = w

\* ... AND execution_lease_until > clock_timestamp()
FencedLive(w, status) == Fenced(w, status) /\ payout[job[w].payout].live

-----------------------------------------------------------------------------
(* Signing worker *)

ClaimSigning(w, p) ==
  /\ At(w, "idle")
  /\ payout[p].status = "approved"
  /\ LeaseFree(p)
  /\ Lease(w, p)
  /\ job' = [job EXCEPT ![w] = [Idle EXCEPT !.at = "sign", !.payout = p]]
  /\ UNCHANGED <<journal, outbox, signed, chain, missed>>

\* The signer resolves the payout's identifier to the transaction it stored
\* first; only without one it builds and signs another.
Resolve(p, t) ==
  \/ signed[p] = t
  \/ /\ signed[p] = NoTx
     /\ \A q \in Payouts : signed[q] # t

\* The client accepts the answer only with 15 seconds of lifetime left.
SignTransfer(w) ==
  /\ At(w, "sign")
  /\ LET p == job[w].payout IN
     \E t \in TxIds :
       /\ Resolve(p, t)
       /\ signed' = [signed EXCEPT ![p] = t]
       /\ job' = IF chain[t].window = "fresh"
                 THEN [job EXCEPT ![w].at = "signed", ![w].tx = t]
                 ELSE [job EXCEPT ![w].at = "unsigned"]
  /\ UNCHANGED <<payout, journal, outbox, chain, missed>>

\* The call fails before anything is stored, or its answer is lost.
SignerError(w) ==
  /\ At(w, "sign")
  /\ LET p == job[w].payout IN
     \/ UNCHANGED signed
     \/ \E t \in TxIds : Resolve(p, t) /\ signed' = [signed EXCEPT ![p] = t]
  /\ Goto(w, "unsigned")
  /\ UNCHANGED <<payout, journal, outbox, chain, missed>>

CompleteSigning(w) ==
  /\ At(w, "signed")
  /\ FencedLive(w, "approved")
  /\ payout' = [payout EXCEPT ![job[w].payout] =
       [Unleased(@) EXCEPT !.status = "ready_for_broadcast", !.tx = job[w].tx]]
  /\ Done(w)
  /\ UNCHANGED <<journal, outbox, signed, chain, missed>>

\* An expired lease may still be released: until is not compared.
ReleaseSigning(w) ==
  /\ At(w, "unsigned")
  /\ Fenced(w, "approved")
  /\ payout' = [payout EXCEPT ![job[w].payout] = Unleased(@)]
  /\ Done(w)
  /\ UNCHANGED <<journal, outbox, signed, chain, missed>>

-----------------------------------------------------------------------------
(* Execution worker: broadcast *)

ClaimBroadcast(w, p) ==
  /\ At(w, "idle")
  /\ payout[p].status = "ready_for_broadcast"
  /\ LeaseFree(p)
  /\ Lease(w, p)
  /\ job' = [job EXCEPT ![w] =
       [Idle EXCEPT !.at = "broadcast", !.payout = p, !.tx = payout[p].tx]]
  /\ UNCHANGED <<journal, outbox, signed, chain, missed>>

\* Whatever the nodes answer, one of them may or may not have taken it.
Send(t) == \E reached \in BOOLEAN :
  chain' = [chain EXCEPT ![t].sent = @ \/ reached]

Broadcast(w) ==
  /\ At(w, "broadcast")
  /\ Send(job[w].tx)
  /\ Goto(w, "sent")
  /\ UNCHANGED <<payout, journal, outbox, signed, missed>>

\* Recorded as accepted or unknown: either way confirmation decides.
BeginConfirmation(w) ==
  /\ At(w, "sent")
  /\ FencedLive(w, "ready_for_broadcast")
  /\ payout' = [payout EXCEPT ![job[w].payout] =
       [Unleased(@) EXCEPT !.status = "confirming", !.due = TRUE]]
  /\ Done(w)
  /\ UNCHANGED <<journal, outbox, signed, chain, missed>>

-----------------------------------------------------------------------------
(* Execution worker: confirmation *)

ClaimConfirmation(w, p) ==
  /\ At(w, "idle")
  /\ payout[p].status = "confirming"
  /\ payout[p].due
  /\ LeaseFree(p)
  /\ Lease(w, p)
  /\ job' = [job EXCEPT ![w] =
       [Idle EXCEPT !.at = "query", !.payout = p, !.tx = payout[p].tx]]
  /\ UNCHANGED <<journal, outbox, signed, chain, missed>>

\* Mutant of QueryTransaction: a block that is not solidified will do.
QueryUnsolidified(w) ==
  /\ At(w, "query")
  /\ LET tx == chain[job[w].tx] IN
     Goto(w, CASE tx.place = "none" -> "head"
               [] tx.place # "none" /\ tx.ok -> "settle"
               [] OTHER -> "fail")
  /\ UNCHANGED <<payout, journal, outbox, signed, chain, missed>>

\* reader.Transaction: solidified with a receipt, or not found.
QueryTransaction(w) ==
  /\ At(w, "query")
  /\ LET tx == chain[job[w].tx] IN
     Goto(w, CASE tx.place # "solid" -> "head"
               [] tx.place = "solid" /\ tx.ok -> "settle"
               [] OTHER -> "fail")
  /\ UNCHANGED <<payout, journal, outbox, signed, chain, missed>>

\* The node that answers has not seen the block yet: not found.
BehindTransaction(w) ==
  /\ At(w, "query")
  /\ chain[job[w].tx].place = "solid"
  /\ missed' = missed \cup {job[w].tx}
  /\ Goto(w, "head")
  /\ UNCHANGED <<payout, journal, outbox, signed, chain>>

\* Mutant of ReadHead: compares the expiration with the latest head.
ReadLatestHead(w) ==
  /\ At(w, "head")
  /\ Goto(w, IF chain[job[w].tx].window # "fresh" THEN "fail" ELSE "rebroadcast")
  /\ UNCHANGED <<payout, journal, outbox, signed, chain, missed>>

\* reader.SolidifiedHead, a second request: it sees the chain as it is now.
ReadHead(w) ==
  /\ At(w, "head")
  /\ Goto(w, IF chain[job[w].tx].window = "final" THEN "fail" ELSE "rebroadcast")
  /\ UNCHANGED <<payout, journal, outbox, signed, chain, missed>>

\* The node that answers is behind the expiration.
BehindHead(w) ==
  /\ At(w, "head")
  /\ Goto(w, "rebroadcast")
  /\ UNCHANGED <<payout, journal, outbox, signed, chain, missed>>

\* A read fails, or a solidified transaction has no receipt yet.
NodeError(w) ==
  /\ At(w, "query") \/ At(w, "head")
  /\ Goto(w, "release")
  /\ UNCHANGED <<payout, journal, outbox, signed, chain, missed>>

Rebroadcast(w) ==
  /\ At(w, "rebroadcast")
  /\ Send(job[w].tx)
  /\ Goto(w, "release")
  /\ UNCHANGED <<payout, journal, outbox, signed, missed>>

ReleaseConfirmation(w) ==
  /\ At(w, "release")
  /\ Fenced(w, "confirming")
  /\ payout' = [payout EXCEPT ![job[w].payout] =
       [Unleased(@) EXCEPT !.due = FALSE]]
  /\ Done(w)
  /\ UNCHANGED <<journal, outbox, signed, chain, missed>>

\* finalizeConfirmation: one transaction posts the journal entry, moves the
\* payout to its terminal status and enqueues the event.
CanFinalize(w) ==
  /\ FencedLive(w, "confirming")
  /\ FrozenBalance >= Amount[job[w].payout]

\* Mutant of Finalize: the event is enqueued outside the fenced transaction.
FinalizeTellsAnyway(w, status, entry, topic) ==
  LET p == job[w].payout IN
  /\ IF CanFinalize(w)
     THEN /\ journal' = journal \cup {entry}
          /\ payout' = [payout EXCEPT ![p] = [Unleased(@) EXCEPT !.status = status]]
     ELSE UNCHANGED <<journal, payout>>
  /\ outbox' = [outbox EXCEPT ![p] = Append(@, topic)]
  /\ Done(w)
  /\ UNCHANGED <<signed, chain, missed>>

Finalize(w, status, entry, topic) ==
  LET p == job[w].payout IN
  /\ CanFinalize(w)
  /\ journal' = journal \cup {entry}
  /\ payout' = [payout EXCEPT ![p] = [Unleased(@) EXCEPT !.status = status]]
  /\ outbox' = [outbox EXCEPT ![p] = Append(@, topic)]
  /\ Done(w)
  /\ UNCHANGED <<signed, chain, missed>>

CompleteConfirmationSuccess(w) ==
  /\ At(w, "settle")
  /\ Finalize(w, "succeeded", Settlement(job[w].payout), "payout.succeeded")

CompleteConfirmationFailure(w) ==
  /\ At(w, "fail")
  /\ Finalize(w, "failed", Unfreeze(job[w].payout), "payout.failed")

-----------------------------------------------------------------------------
(* Lost leases, crashes and time *)

\* The write matches no row (or the balance is short): nothing is committed.
LeaseLost(w) ==
  /\ \/ At(w, "signed") /\ ~FencedLive(w, "approved")
     \/ At(w, "unsigned") /\ ~Fenced(w, "approved")
     \/ At(w, "sent") /\ ~FencedLive(w, "ready_for_broadcast")
     \/ At(w, "release") /\ ~Fenced(w, "confirming")
     \/ (At(w, "settle") \/ At(w, "fail")) /\ ~CanFinalize(w)
  /\ Done(w)
  /\ UNCHANGED <<payout, journal, outbox, signed, chain, missed>>

\* A crash, an operation timeout or a failed commit: the claim is forgotten,
\* the lease stays on the row.
Crash(w) ==
  /\ ~At(w, "idle")
  /\ Done(w)
  /\ UNCHANGED <<payout, journal, outbox, signed, chain, missed>>

LeaseExpires(p) ==
  /\ payout[p].live
  /\ payout' = [payout EXCEPT ![p].live = FALSE]
  /\ UNCHANGED <<journal, outbox, signed, chain, job, missed>>

BecomesDue(p) ==
  /\ payout[p].status = "confirming"
  /\ ~payout[p].due
  /\ payout' = [payout EXCEPT ![p].due = TRUE]
  /\ UNCHANGED <<journal, outbox, signed, chain, job, missed>>

-----------------------------------------------------------------------------
(* The TRON chain.  A transaction can enter a block until its expiration; a  *)
(* block is final once solidified, and a solidified head at or after the     *)
(* expiration leaves no unsolidified block that could hold it.               *)

Include(t) ==
  /\ chain[t].sent
  /\ chain[t].place = "none"
  /\ chain[t].window # "final"
  /\ \E ok \in BOOLEAN :
       chain' = [chain EXCEPT ![t].place = "block", ![t].ok = ok]
  /\ UNCHANGED <<payout, journal, outbox, signed, job, missed>>

\* A fork is abandoned before it is solidified.
Orphan(t) ==
  /\ chain[t].place = "block"
  /\ chain' = [chain EXCEPT ![t].place = "none", ![t].ok = FALSE]
  /\ UNCHANGED <<payout, journal, outbox, signed, job, missed>>

\* Rounds that stand between their two reads miss it.
Solidify(t) ==
  /\ chain[t].place = "block"
  /\ chain' = [chain EXCEPT ![t].place = "solid"]
  /\ missed' = missed \cup {u \in {t} : \E w \in Workers : At(w, "head") /\ job[w].tx = u}
  /\ UNCHANGED <<payout, journal, outbox, signed, job>>

\* Less than 15 seconds of lifetime are left.
GoesStale(t) ==
  /\ \E p \in Payouts : signed[p] = t
  /\ chain[t].window = "fresh"
  /\ chain' = [chain EXCEPT ![t].window = "stale"]
  /\ UNCHANGED <<payout, journal, outbox, signed, job, missed>>

\* The solidified head reaches the expiration.
HeadPassesExpiry(t) ==
  /\ chain[t].window = "stale"
  /\ chain[t].place # "block"
  /\ chain' = [chain EXCEPT ![t].window = "final"]
  /\ UNCHANGED <<payout, journal, outbox, signed, job, missed>>

-----------------------------------------------------------------------------
SigningStep(w) ==
  \/ SignTransfer(w) \/ CompleteSigning(w) \/ ReleaseSigning(w)

ExecutionStep(w) ==
  \/ Broadcast(w) \/ BeginConfirmation(w)
  \/ QueryTransaction(w) \/ ReadHead(w) \/ Rebroadcast(w)
  \/ ReleaseConfirmation(w)
  \/ CompleteConfirmationSuccess(w) \/ CompleteConfirmationFailure(w)

\* What a node may do to a round, and need not.
NodeStep(w) == NodeError(w) \/ BehindTransaction(w) \/ BehindHead(w)

ClaimExecution(w, p) == ClaimBroadcast(w, p) \/ ClaimConfirmation(w, p)

WorkerStep(w) ==
  \/ w \in SigningWorkers /\ SigningStep(w)
  \/ w \in ExecutionWorkers /\ ExecutionStep(w)
  \/ LeaseLost(w)

ChainStep(t) ==
  \/ Include(t) \/ Orphan(t) \/ Solidify(t)
  \/ GoesStale(t) \/ HeadPassesExpiry(t)

Next ==
  \/ \E w \in SigningWorkers, p \in Payouts : ClaimSigning(w, p)
  \/ \E w \in SigningWorkers : SigningStep(w) \/ SignerError(w)
  \/ \E w \in ExecutionWorkers, p \in Payouts : ClaimExecution(w, p)
  \/ \E w \in ExecutionWorkers : ExecutionStep(w) \/ NodeStep(w)
  \/ \E w \in Workers : LeaseLost(w) \/ Crash(w)
  \/ \E p \in Payouts : LeaseExpires(p) \/ BecomesDue(p)
  \/ \E t \in TxIds : ChainStep(t)

Spec == Init /\ [][Next]_vars

(***************************************************************************)
(* Fairness.  Runner.Run keeps calling a worker, which ends its current    *)
(* claim; the claims order rows by age, so a claimable row is claimed;     *)
(* leases run out and retries fall due; blocks solidify and time passes.   *)
(* Nothing is assumed of the nodes taking a broadcast.                     *)
(***************************************************************************)
Fairness ==
  /\ \A w \in Workers : WF_vars(WorkerStep(w))
  /\ \A p \in Payouts :
       /\ WF_vars(\E w \in SigningWorkers : ClaimSigning(w, p))
       /\ WF_vars(\E w \in ExecutionWorkers : ClaimExecution(w, p))
       /\ WF_vars(LeaseExpires(p))
       /\ WF_vars(BecomesDue(p))
  /\ \A t \in TxIds :
       /\ WF_vars(Solidify(t))
       /\ WF_vars(GoesStale(t))
       /\ WF_vars(HeadPassesExpiry(t))

FairSpec == Spec /\ Fairness

(***************************************************************************)
(* A fault that the liveness properties allow to happen any finite number  *)
(* of times: a crash, an error of the signer or of a read, a head that is  *)
(* behind, a fork, and a lease that runs out under a worker that still     *)
(* uses it (the worker's OperationTimeout is shorter than its              *)
(* LeaseDuration).  A step a faultless worker would have taken too is no   *)
(* fault.                                                                  *)
(***************************************************************************)
Fault ==
  \/ \E w \in Workers :
       (Crash(w) \/ SignerError(w) \/ NodeError(w) \/ BehindHead(w)) /\ ~WorkerStep(w)
  \/ \E p \in Payouts : LeaseExpires(p) /\ job[payout[p].holder].payout = p
  \/ \E t \in TxIds : Orphan(t)

EventuallyHealthy == <>[][~Fault]_vars

-----------------------------------------------------------------------------
(* Safety *)

\* What the journal and the outbox say of a payout, next to its row.
Story(p) ==
  /\ Freeze(p) \in journal
  /\ Settlement(p) \in journal <=> payout[p].status = "succeeded"
  /\ Unfreeze(p) \in journal <=> payout[p].status = "failed"
  /\ payout[p].status = "succeeded" => outbox[p] = <<"payout.succeeded">>
  /\ payout[p].status = "failed" => outbox[p] = <<"payout.failed">>
  /\ payout[p].status \in InFlight => outbox[p] = <<>>

\* payouts, the journal and the outbox tell one story: exactly the succeeded
\* payouts are settled and exactly the failed ones released, and the merchant
\* is told of that outcome once, whatever workers raced, crashed or retried.
TablesAgree == \A p \in Payouts : Story(p)

\* A succeeded payout has its transfer in a solidified block, executed.
Transferred(p) ==
  /\ signed[p] # NoTx
  /\ chain[signed[p]].place = "solid"
  /\ chain[signed[p]].ok

SucceededIsTransferred ==
  \A p \in Payouts : payout[p].status = "succeeded" => Transferred(p)

\* The money of a failed payout is the merchant's again, although its tokens
\* went out: only if the transaction was missed, solidified before the round that
\* failed it asked for the head and not seen by it.  Nothing that a round could
\* see is released, and nothing that it failed is executed later, whatever is
\* sent again, taken over or read from a node that is behind.
FailedTransferWasMissed ==
  \A p \in Payouts :
    payout[p].status = "failed" /\ Transferred(p) => signed[p] \in missed

\* What the log line and the README say of a failed payout ("safely expired"):
\* its transfer has not been executed, and cannot be executed any more.
FailedNeverTransferred ==
  \A p \in Payouts : payout[p].status = "failed" => ~Transferred(p)

\* While a lease is live only its holder changes the row, finishing its claim;
\* otherwise the lease just runs out or the row falls due.  No status changes
\* without a live lease.
FencedRow(p) ==
  LET w == payout[p].holder IN
  payout'[p] # payout[p] =>
    \/ payout'[p] = [payout[p] EXCEPT !.live = FALSE]
    \/ payout'[p] = [payout[p] EXCEPT !.due = TRUE]
    \/ payout[p].live /\ job[w].payout = p /\ job'[w] = Idle
    \/ ~payout[p].live /\ payout'[p].status = payout[p].status

OnlyHolderWrites == [][\A p \in Payouts : FencedRow(p)]_vars

(* Refinement: polling, leases and retries hide behind one atomic end. *)

Result(p) == IF payout[p].status \in Terminal THEN payout[p].status ELSE "pending"
Kinds(p) == {e.type : e \in {f \in journal : f.payout = p}}
Moved == {p \in Payouts : Transferred(p)}
Unseen == {p \in Moved : signed[p] \in missed}

Contract == INSTANCE PayoutContract WITH
  outcome <- [p \in Payouts |-> Result(p)],
  moved <- Moved,
  unseen <- Unseen,
  books <- [p \in Payouts |-> Kinds(p)],
  told <- outbox

\* A payout ends once, with its journal entry and its event in the same step;
\* its tokens move before it succeeds, never after it failed, and before it
\* failed only unseen.
ImplementsContract == Contract!Spec

(* Liveness *)

\* Once signed, a payout ends: as long as faults cease at some time, every
\* transaction is settled or its payout released.
SignedPayoutEnds ==
  EventuallyHealthy =>
    \A p \in Payouts :
      payout[p].status \in {"ready_for_broadcast", "confirming"}
        ~> payout[p].status \in Terminal

\* A failed signing attempt can be retried: once faults cease an approved
\* payout does not stay approved.
ApprovedPayoutIsSigned ==
  EventuallyHealthy =>
    \A p \in Payouts : payout[p].status = "approved"
                         ~> payout[p].status # "approved"
=============================================================================

---------------------------- MODULE PayoutReview ----------------------------
(***************************************************************************)
(* From a merchant's request to an approved or rejected payout: creation,  *)
(* screening of the destination address, and the operator's review.        *)
(*                                                                         *)
(* A creation holds the merchant's row from its first statement, so two    *)
(* creations of one merchant never overlap and each is one step; its       *)
(* locks on the accounts are the subject of BalanceLocks.  A review is two *)
(* steps: it fixes its CURRENT_TIMESTAMP and reads the screening columns   *)
(* in a snapshot, then waits for the lock of the payout; everything after  *)
(* the lock commits at once.  A job that a screening worker has updated    *)
(* since the review began carries a later updated_at, and its trigger      *)
(* refuses to set it back: the review is `overtaken'.                      *)
(*                                                                         *)
(* `live' says that the lease_until of a screening job lies ahead, `valid' *)
(* that the valid_until of a result does.  The lease epoch is `holder',    *)
(* the worker whose claim carries the current epoch.                       *)
(***************************************************************************)
EXTENDS Naturals, FiniteSets, FiniteSetsExt

CONSTANTS Payouts,    \* identifiers a creation may draw
          Requests,   \* calls a merchant may make: [key, reference, amount]
          Reviewers,  \* operators running gateway-admin
          Screeners,  \* processes running the screening worker
          Funds,      \* what deposits credited to the merchant
          None        \* SQL NULL

ASSUME RequestsAssumption ==
  \A r \in Requests : DOMAIN r = {"key", "reference", "amount"}
                        /\ r.amount \in Nat \ {0}
ASSUME FundsAssumption == Funds \in Nat
ASSUME NoneAssumption ==
  None \notin Payouts \cup Requests \cup Reviewers \cup Screeners

VARIABLES payout,     \* the rows of payouts
          screening,  \* the rows of payout_screening_jobs
          results,    \* the decisions in payout_screening_results
          journal,    \* posted freezes and unfreezes
          audits,     \* payout_review_audits
          outbox,     \* payouts with a payout.rejected event
          worker,     \* what each screening worker is doing
          review,     \* the open review of each operator
          replies     \* payouts and reviews the callers were told of

vars == <<payout, screening, results, journal, audits, outbox,
          worker, review, replies>>
books == <<journal, audits, outbox>>

-----------------------------------------------------------------------------
Decisions == {"allow", "deny", "review"}
Verdicts == {"approve", "reject"}
Target(verdict) == IF verdict = "approve" THEN "approved" ELSE "rejected"

Result == [decision : Decisions, valid : BOOLEAN]
NoResult == [decision |-> "none", valid |-> FALSE]

Row == [status : {"absent", "pending_review", "approved", "rejected"},
        request : {None} \cup Requests, reviewer : {None} \cup Reviewers]
ScreeningJob == [status : {"absent", "pending", "processing", "completed",
                           "closed"},
                 holder : {None} \cup Screeners, live : BOOLEAN,
                 result : {NoResult} \cup Result]
Screen == [at : {"idle", "screen", "complete", "release"},
           payout : {None} \cup Payouts, decision : {"none"} \cup Decisions]
ReviewTx == [at : {"idle", "locking"}, payout : {None} \cup Payouts,
             verdict : {"none"} \cup Verdicts, allowed : BOOLEAN,
             overtaken : BOOLEAN]

IdleWorker == [at |-> "idle", payout |-> None, decision |-> "none"]
IdleReview == [at |-> "idle", payout |-> None, verdict |-> "none",
               allowed |-> FALSE, overtaken |-> FALSE]

Audit(p, v, verdict) == [payout |-> p, reviewer |-> v, verdict |-> verdict]
Answer(r, p) == [request |-> r, payout |-> p]
Freeze(p) == [type |-> "payout_freeze", payout |-> p]
Unfreeze(p) == [type |-> "payout_unfreeze", payout |-> p]

\* The rows keep their CHECK constraints: only a job in processing has a lease,
\* and a completed one has a result.
TypeOK ==
  /\ payout \in [Payouts -> Row]
  /\ screening \in [Payouts -> ScreeningJob]
  /\ \A p \in Payouts :
       /\ screening[p].live => screening[p].status = "processing"
       /\ screening[p].status = "completed" => screening[p].result # NoResult
  /\ results \in [Payouts -> SUBSET Decisions]
  /\ journal \subseteq {Freeze(p) : p \in Payouts} \cup {Unfreeze(p) : p \in Payouts}
  /\ audits \subseteq [payout : Payouts, reviewer : Reviewers, verdict : Verdicts]
  /\ outbox \subseteq Payouts
  /\ worker \in [Screeners -> Screen]
  /\ review \in [Reviewers -> ReviewTx]
  /\ replies \subseteq [request : Requests, payout : Payouts]
       \cup [payout : Payouts, reviewer : Reviewers, verdict : Verdicts]

Init ==
  /\ payout = [p \in Payouts |->
       [status |-> "absent", request |-> None, reviewer |-> None]]
  /\ screening = [p \in Payouts |->
       [status |-> "absent", holder |-> None, live |-> FALSE,
        result |-> NoResult]]
  /\ results = [p \in Payouts |-> {}]
  /\ journal = {} /\ audits = {} /\ outbox = {} /\ replies = {}
  /\ worker = [w \in Screeners |-> IdleWorker]
  /\ review = [v \in Reviewers |-> IdleReview]

-----------------------------------------------------------------------------
(* The merchant's API *)

EntryAmount(e) == payout[e.payout].request.amount
Posted(type) == MapThenSumSet(EntryAmount, {e \in journal : e.type = type})
FrozenBalance == Posted("payout_freeze") - Posted("payout_unfreeze")
AvailableBalance == Funds - FrozenBalance

\* The fingerprint covers the body of a request and not its idempotency key.
Hash(r) == <<r.reference, r.amount>>

Existing(r) ==
  {q \in Payouts : /\ payout[q].status # "absent"
                   /\ \/ payout[q].request.key = r.key
                      \/ payout[q].request.reference = r.reference}

\* Mutant of FindExisting: the request hash is not compared.
FindByKeyOnly(r, p) == Existing(r) = {p}

\* The same key or reference with another body, or two payouts: a conflict.
FindExisting(r, p) ==
  /\ Existing(r) = {p}
  /\ Hash(payout[p].request) = Hash(r)

Create(r, p) ==
  /\ Existing(r) = {}
  /\ payout[p].status = "absent"
  /\ AvailableBalance >= r.amount
  /\ journal' = journal \cup {Freeze(p)}
  /\ payout' = [payout EXCEPT ![p].status = "pending_review", ![p].request = r]
  /\ screening' = [screening EXCEPT ![p].status = "pending"]
  /\ replies' = replies \cup {Answer(r, p)}
  /\ UNCHANGED <<results, audits, outbox, worker, review>>

CreateAgain(r, p) ==
  /\ FindExisting(r, p)
  /\ replies' = replies \cup {Answer(r, p)}
  /\ UNCHANGED <<payout, screening, results, books, worker, review>>

\* The handler draws an identifier; an order it knows keeps the one it has.
CreatePayout(r) == \E p \in Payouts : Create(r, p) \/ CreateAgain(r, p)

-----------------------------------------------------------------------------
(* The screening worker *)

\* Mutant of Claimable: a job whose lease ran out is not taken over.
ClaimableUnlessLeased(job) ==
  \/ job.status = "pending"
  \/ job.status = "completed" /\ ~job.result.valid

Claimable(job) ==
  \/ job.status = "pending"
  \/ job.status = "processing" /\ ~job.live
  \/ job.status = "completed" /\ ~job.result.valid

\* The worker sets updated_at of the job to clock_timestamp().
Overtake(p) ==
  review' = [v \in Reviewers |->
    [review[v] EXCEPT !.overtaken = @ \/ review[v].payout = p]]

Claim(w, p) ==
  /\ worker[w].at = "idle"
  /\ payout[p].status = "pending_review"
  /\ Claimable(screening[p])
  /\ screening' = [screening EXCEPT ![p].status = "processing",
                                    ![p].holder = w, ![p].live = TRUE]
  /\ worker' = [worker EXCEPT ![w] =
       [IdleWorker EXCEPT !.at = "screen", !.payout = p]]
  /\ Overtake(p)
  /\ UNCHANGED <<payout, results, books, replies>>

\* The provider answers with any decision: it may change from call to call.
ProviderAnswers(w) ==
  /\ worker[w].at = "screen"
  /\ \E d \in Decisions :
       worker' = [worker EXCEPT ![w].at = "complete", ![w].decision = d]
  /\ UNCHANGED <<payout, screening, results, books, review, replies>>

ProviderFails(w) ==
  /\ worker[w].at = "screen"
  /\ worker' = [worker EXCEPT ![w].at = "release"]
  /\ UNCHANGED <<payout, screening, results, books, review, replies>>

Fenced(w) == LET job == screening[worker[w].payout] IN
             job.status = "processing" /\ job.holder = w
FencedLive(w) == Fenced(w) /\ screening[worker[w].payout].live

\* Complete accepts only a result whose validity lies ahead.
Complete(w) ==
  LET p == worker[w].payout
      d == worker[w].decision
  IN
  /\ worker[w].at = "complete"
  /\ FencedLive(w)
  /\ results' = [results EXCEPT ![p] = @ \cup {d}]
  /\ screening' = [screening EXCEPT ![p].status = "completed", ![p].live = FALSE,
                                    ![p].result = [decision |-> d, valid |-> TRUE]]
  /\ worker' = [worker EXCEPT ![w] = IdleWorker]
  /\ Overtake(p)
  /\ UNCHANGED <<payout, books, replies>>

\* The lease time is not compared: an expired lease may still be released.
Release(w) ==
  /\ worker[w].at = "release"
  /\ Fenced(w)
  /\ screening' = [screening EXCEPT ![worker[w].payout].status = "pending",
                                    ![worker[w].payout].live = FALSE]
  /\ worker' = [worker EXCEPT ![w] = IdleWorker]
  /\ Overtake(worker[w].payout)
  /\ UNCHANGED <<payout, results, books, replies>>

LeaseLost(w) ==
  /\ \/ worker[w].at = "complete" /\ ~FencedLive(w)
     \/ worker[w].at = "release" /\ ~Fenced(w)
  /\ worker' = [worker EXCEPT ![w] = IdleWorker]
  /\ UNCHANGED <<payout, screening, results, books, review, replies>>

\* Also an answer that validateResult refuses: the worker stops with its claim.
Crash(w) ==
  /\ worker[w].at # "idle"
  /\ worker' = [worker EXCEPT ![w] = IdleWorker]
  /\ UNCHANGED <<payout, screening, results, books, review, replies>>

LeaseExpires(p) ==
  /\ screening[p].live
  /\ screening' = [screening EXCEPT ![p].live = FALSE]
  /\ UNCHANGED <<payout, results, books, worker, review, replies>>

ResultExpires(p) ==
  /\ screening[p].result.valid
  /\ screening' = [screening EXCEPT ![p].result.valid = FALSE]
  /\ UNCHANGED <<payout, results, books, worker, review, replies>>

-----------------------------------------------------------------------------
(* The operator's review *)

ScreeningAllowed(p) ==
  /\ screening[p].status = "completed"
  /\ screening[p].result.decision = "allow"
  /\ screening[p].result.valid

\* What the operators are shown: payouts that only a person can decide.
ListActionRequired ==
  {p \in Payouts : /\ payout[p].status = "pending_review"
                   /\ screening[p].status = "completed"
                   /\ screening[p].result.valid
                   /\ screening[p].result.decision \in {"deny", "review"}}

\* The statement that locks the payout, up to the wait for the lock.
BeginReview(v, p, verdict) ==
  /\ review[v].at = "idle"
  /\ payout[p].status # "absent"
  /\ review' = [review EXCEPT ![v] =
       [at |-> "locking", payout |-> p, verdict |-> verdict,
        allowed |-> ScreeningAllowed(p), overtaken |-> FALSE]]
  /\ UNCHANGED <<payout, screening, results, books, worker, replies>>

\* Mutant of MayDecide: the status is that of the snapshot, before the lock.
MayDecideUnlocked(v) ==
  /\ review[v].at = "locking"
  /\ payout[review[v].payout].status # "absent"
  /\ review[v].verdict = "approve" => review[v].allowed

\* Mutant of JobAsBegun: the trigger takes any updated_at.
JobAsNow(v) == TRUE

\* protect_payout_screening_job: the closed job's updated_at, the start of the
\* review's transaction, is not before the one it replaces.
JobAsBegun(v) == ~review[v].overtaken

\* The lock yields the payout's newest row but the snapshot's screening.
MayDecide(v) ==
  /\ review[v].at = "locking"
  /\ payout[review[v].payout].status = "pending_review"
  /\ review[v].verdict = "approve" => review[v].allowed
  /\ review[v].verdict = "reject" =>
       FrozenBalance >= payout[review[v].payout].request.amount

\* The job is closed whatever it is doing: its lease, if any, ends here.
Closed(job) == [job EXCEPT !.status = "closed", !.live = FALSE]

EnqueueRejected(p) == outbox' = outbox \cup {p}

Decide(v) ==
  LET p == review[v].payout
      audit == Audit(p, v, review[v].verdict)
  IN
  /\ MayDecide(v)
  /\ JobAsBegun(v)
  /\ payout' = [payout EXCEPT ![p].status = Target(review[v].verdict),
                              ![p].reviewer = v]
  /\ screening' = [screening EXCEPT ![p] = Closed(@)]
  /\ audits' = audits \cup {audit}
  /\ IF review[v].verdict = "reject"
     THEN journal' = journal \cup {Unfreeze(p)} /\ EnqueueRejected(p)
     ELSE UNCHANGED <<journal, outbox>>
  /\ replies' = replies \cup {audit}
  /\ review' = [review EXCEPT ![v] = IdleReview]
  /\ UNCHANGED <<results, worker>>

\* A repeated command of the same operator for the same decision.
DecidedBefore(v) ==
  LET row == payout[review[v].payout] IN
  /\ row.status = Target(review[v].verdict)
  /\ row.reviewer = v

DecideAgain(v) ==
  /\ review[v].at = "locking"
  /\ DecidedBefore(v)
  /\ replies' = replies \cup
       {Audit(review[v].payout, v, review[v].verdict)}
  /\ review' = [review EXCEPT ![v] = IdleReview]
  /\ UNCHANGED <<payout, screening, results, books, worker>>

\* A conflict, a missing screening result, an error, a crash: a rollback.
Rollback(v) ==
  /\ review[v].at = "locking"
  /\ review' = [review EXCEPT ![v] = IdleReview]
  /\ UNCHANGED <<payout, screening, results, books, worker, replies>>

-----------------------------------------------------------------------------
WorkerStep(w) ==
  \/ ProviderAnswers(w) \/ Complete(w) \/ Release(w) \/ LeaseLost(w)

Next ==
  \/ \E r \in Requests : CreatePayout(r)
  \/ \E w \in Screeners, p \in Payouts : Claim(w, p)
  \/ \E w \in Screeners : WorkerStep(w) \/ ProviderFails(w) \/ Crash(w)
  \/ \E p \in Payouts : LeaseExpires(p) \/ ResultExpires(p)
  \/ \E v \in Reviewers, p \in Payouts, verdict \in Verdicts :
       BeginReview(v, p, verdict)
  \/ \E v \in Reviewers : Decide(v) \/ DecideAgain(v) \/ Rollback(v)

Spec == Init /\ [][Next]_vars

(* Runner.Run polls without end, and a lease runs out.  The claim takes the    *)
(* job updated longest ago and makes it the newest, so a job that is claimable *)
(* time and again is claimed.  Nothing is assumed of merchants and operators.  *)
FairSpec ==
  /\ Spec
  /\ \A w \in Screeners : WF_vars(WorkerStep(w))
  /\ \A p \in Payouts : /\ SF_vars(\E w \in Screeners : Claim(w, p))
                        /\ WF_vars(LeaseExpires(p))

Fault ==
  \/ \E w \in Screeners : (Crash(w) \/ ProviderFails(w)) /\ ~WorkerStep(w)
  \/ \E p \in Payouts : LeaseExpires(p) /\ worker[screening[p].holder].payout = p

EventuallyHealthy == <>[][~Fault]_vars

-----------------------------------------------------------------------------
(* Safety *)

\* One decision, told by every table: a pending payout has an open screening job
\* and no audit; a decided one has exactly one audit, of the operator on its row,
\* a closed job, and, if and only if rejected, its money back and its event.
DecidedOnce ==
  \A p \in Payouts :
    LET own == {a \in audits : a.payout = p}
        row == payout[p]
    IN
    /\ row.status = "absent" <=> Freeze(p) \notin journal
    /\ row.status \in {"absent", "pending_review"} => own = {}
    /\ row.status \in {"approved", "rejected"} =>
         own = {Audit(p, row.reviewer,
                      IF row.status = "approved" THEN "approve" ELSE "reject")}
    /\ screening[p].status = "closed" <=> row.status \in {"approved", "rejected"}
    /\ row.status = "rejected" <=> Unfreeze(p) \in journal
    /\ row.status = "rejected" <=> p \in outbox

\* Every answer is a payout of the order and amount asked for, and one order has
\* one payout, however often and under whatever keys it is requested.
OnePayoutPerOrder ==
  \A r, s \in Requests, p, q \in Payouts :
    /\ Answer(r, p) \in replies => Hash(payout[p].request) = Hash(r)
    /\ Answer(r, p) \in replies /\ Answer(s, q) \in replies =>
         (r.reference = s.reference => p = q)

\* An idempotency key answers with one payout: with another request it conflicts.
OnePayoutPerKey ==
  \A r, s \in Requests, p, q \in Payouts :
    /\ Answer(r, p) \in replies
    /\ Answer(s, q) \in replies
    /\ r.key = s.key
    => p = q

\* A deny or a review fails closed, also when it replaces an allow while a review
\* waits for its lock: the last result of an approved payout is an allow.
ApprovedIsNotDenied ==
  \A p \in Payouts :
    payout[p].status = "approved" => screening[p].result.decision = "allow"

(* Liveness *)

\* Once faults cease a pending payout comes to a point where an operator can
\* approve it or is shown it, or it is decided: none waits unseen behind a job
\* whose worker crashed or whose result ran out.
ScreeningEnds ==
  EventuallyHealthy =>
    \A p \in Payouts :
      payout[p].status = "pending_review"
        ~> \/ ScreeningAllowed(p)
           \/ p \in ListActionRequired
           \/ payout[p].status \in {"approved", "rejected"}
=============================================================================

-------------------------- MODULE PayoutReviewProofs --------------------------
(***************************************************************************)
(* Theorems about PayoutReview, for any number of payouts, requests,       *)
(* operators and screening workers, and any amounts.  What a merchant can  *)
(* afford plays no part in them.                                           *)
(***************************************************************************)
EXTENDS PayoutReview, TLAPS

-----------------------------------------------------------------------------
(* Rows of the journal, the audits and the answers *)

LEMMA JournalRows ==
  ASSUME NEW p, NEW q
  PROVE  /\ Freeze(p) = Freeze(q) => p = q
         /\ Unfreeze(p) = Unfreeze(q) => p = q
         /\ Freeze(p) # Unfreeze(q)
BY DEF Freeze, Unfreeze

LEMMA AuditRow ==
  ASSUME NEW p \in Payouts, NEW v \in Reviewers, NEW d \in Verdicts
  PROVE  /\ Audit(p, v, d).payout = p
         /\ Audit(p, v, d) \in [payout : Payouts, reviewer : Reviewers, verdict : Verdicts]
BY DEF Audit

\* An answer to a merchant is none to an operator.
LEMMA AnswerRow ==
  ASSUME NEW r, NEW p, NEW s, NEW q, NEW v, NEW d
  PROVE  /\ Answer(r, p) = Answer(s, q) => r = s /\ p = q
         /\ Answer(r, p) # Audit(q, v, d)
<1>1. DOMAIN Answer(r, p) = {"request", "payout"}
  BY DEF Answer
<1>2. DOMAIN Audit(q, v, d) = {"payout", "reviewer", "verdict"}
  BY DEF Audit
<1>3. "verdict" \notin {"request", "payout"}
  OBVIOUS
<1> QED
  BY <1>1, <1>2, <1>3 DEF Answer

-----------------------------------------------------------------------------
(* The inductive invariant *)

\* A screening worker that is under way has a payout, and what it is about to
\* store is a decision.
WorkersBusy ==
  \A w \in Screeners :
    /\ worker[w].at # "idle" => worker[w].payout \in Payouts
    /\ worker[w].at = "complete" => worker[w].decision \in Decisions

ReviewsOpen ==
  \A v \in Reviewers :
    review[v].at = "locking" =>
      review[v].payout \in Payouts /\ review[v].verdict \in Verdicts

\* What a review saw as allowed is the last result until the job is written.
AllowedStands ==
  \A v \in Reviewers :
    review[v].at = "locking" /\ review[v].allowed /\ ~review[v].overtaken =>
      screening[review[v].payout].result.decision = "allow"

\* An answered payout is there, and its order has no other.
Known ==
  \A r \in Requests, p \in Payouts :
    Answer(r, p) \in replies =>
      payout[p].status # "absent" /\ Hash(payout[p].request) = Hash(r)

Distinct ==
  \A p, q \in Payouts :
    /\ payout[p].status # "absent"
    /\ payout[q].status # "absent"
    /\ payout[p].request.reference = payout[q].request.reference
    => p = q

\* A payout and its screening job are made together.
HasJob ==
  \A p \in Payouts : payout[p].status = "absent" <=> screening[p].status = "absent"

Processes == WorkersBusy /\ ReviewsOpen /\ AllowedStands
Orders == Known /\ Distinct /\ HasJob

IInv == TypeOK /\ Processes /\ DecidedOnce /\ ApprovedIsNotDenied /\ Orders

LEMMA InitIInv == Init => IInv
<1> SUFFICES ASSUME Init PROVE IInv
  OBVIOUS
<1>1. TypeOK
  BY DEF Init, TypeOK, Row, ScreeningJob, Screen, ReviewTx, NoResult, IdleWorker, IdleReview
<1>2. Processes
  BY DEF Init, Processes, WorkersBusy, ReviewsOpen, AllowedStands, IdleWorker, IdleReview
<1>3. DecidedOnce
  BY DEF Init, DecidedOnce
<1>4. ApprovedIsNotDenied /\ Orders
  BY DEF Init, ApprovedIsNotDenied, Orders, Known, Distinct, HasJob
<1> QED
  BY <1>1, <1>2, <1>3, <1>4 DEF IInv

-----------------------------------------------------------------------------
(* Steps of the screening workers and of time *)

\* A step that concerns no table.
LEMMA WorkerKeeps ==
  ASSUME IInv, UNCHANGED <<payout, screening, results, books, review, replies>>,
         worker' \in [Screeners -> Screen], WorkersBusy'
  PROVE  IInv'
<1>1. TypeOK'
  BY DEF IInv, TypeOK, books
<1>2. Processes'
  BY DEF IInv, Processes, ReviewsOpen, AllowedStands
<1>3. DecidedOnce' /\ ApprovedIsNotDenied' /\ Orders'
  BY DEF IInv, DecidedOnce, ApprovedIsNotDenied, Orders, Known, Distinct, HasJob, books, Hash
<1> QED
  BY <1>1, <1>2, <1>3 DEF IInv

\* What a write of the job changes in the open reviews.
LEMMA OvertakeKeeps ==
  ASSUME TypeOK, NEW p \in Payouts, review' = review \/ Overtake(p)
  PROVE  /\ review' \in [Reviewers -> ReviewTx]
         /\ \A v \in Reviewers :
              /\ review'[v].at = review[v].at /\ review'[v].payout = review[v].payout
              /\ review'[v].verdict = review[v].verdict
              /\ review'[v].allowed = review[v].allowed
              /\ ~review'[v].overtaken => ~review[v].overtaken
              /\ Overtake(p) /\ review[v].payout = p => review'[v].overtaken
<1>1. CASE review' = review /\ ~Overtake(p)
  BY <1>1 DEF TypeOK
<1>2. CASE Overtake(p)
  <2> DEFINE late(v) == review[v].overtaken \/ review[v].payout = p
             rev(v) == [review[v] EXCEPT !.overtaken = late(v)]
  <2>1. \A v \in Reviewers : review[v] \in ReviewTx /\ late(v) \in BOOLEAN
    BY DEF TypeOK
  <2>2. review' = [v \in Reviewers |-> rev(v)]
    BY <1>2 DEF Overtake
  <2> HIDE DEF late
  <2>3. \A v \in Reviewers :
          /\ rev(v) \in ReviewTx
          /\ rev(v).at = review[v].at /\ rev(v).payout = review[v].payout
          /\ rev(v).verdict = review[v].verdict /\ rev(v).allowed = review[v].allowed
          /\ rev(v).overtaken = late(v)
    BY <2>1 DEF ReviewTx
  <2> HIDE DEF rev
  <2>4. review' \in [Reviewers -> ReviewTx]
    BY <2>2, <2>3
  <2>5. \A v \in Reviewers :
          /\ review'[v].at = review[v].at /\ review'[v].payout = review[v].payout
          /\ review'[v].verdict = review[v].verdict
          /\ review'[v].allowed = review[v].allowed
          /\ review'[v].overtaken = late(v)
    BY <2>2, <2>3
  <2> QED
    BY <2>4, <2>5 DEF late
<1> QED
  BY <1>1, <1>2

\* A step that writes one screening job.  A job with another decision than before
\* was processing, and the reviews that saw the old one are overtaken.
LEMMA ScreeningKeeps ==
  ASSUME IInv, UNCHANGED <<payout, books, replies>>,
         NEW p \in Payouts, NEW j \in ScreeningJob,
         screening' = [screening EXCEPT ![p] = j],
         j.live => j.status = "processing",
         j.status = "completed" => j.result # NoResult,
         j.status = "closed" <=> screening[p].status = "closed",
         j.status = "absent" <=> screening[p].status = "absent",
         \/ j.result.decision = screening[p].result.decision
         \/ screening[p].status = "processing" /\ Overtake(p),
         review' = review \/ Overtake(p),
         results' \in [Payouts -> SUBSET Decisions],
         worker' \in [Screeners -> Screen], WorkersBusy'
  PROVE  IInv'
<1>1. \A q \in Payouts : screening'[q] = IF q = p THEN j ELSE screening[q]
  BY DEF IInv, TypeOK
<1>2. review' \in [Reviewers -> ReviewTx]
  BY OvertakeKeeps DEF IInv
<1>3. \A v \in Reviewers :
        /\ review'[v].at = review[v].at /\ review'[v].payout = review[v].payout
        /\ review'[v].verdict = review[v].verdict
        /\ review'[v].allowed = review[v].allowed
        /\ ~review'[v].overtaken => ~review[v].overtaken
        /\ Overtake(p) /\ review[v].payout = p => review'[v].overtaken
  BY OvertakeKeeps DEF IInv
<1>4. TypeOK'
  <2>1. screening' \in [Payouts -> ScreeningJob]
    BY DEF IInv, TypeOK
  <2>2. \A q \in Payouts :
          /\ screening'[q].live => screening'[q].status = "processing"
          /\ screening'[q].status = "completed" => screening'[q].result # NoResult
    BY <1>1 DEF IInv, TypeOK
  <2> QED
    BY <2>1, <2>2, <1>2 DEF IInv, TypeOK, books
<1>5. ReviewsOpen'
  BY <1>3 DEF IInv, Processes, ReviewsOpen
<1>6. AllowedStands'
  <2> SUFFICES ASSUME NEW v \in Reviewers, review'[v].at = "locking",
                      review'[v].allowed, ~review'[v].overtaken
               PROVE  screening'[review'[v].payout].result.decision = "allow"
    BY DEF AllowedStands
  <2>1. /\ review[v].payout \in Payouts
        /\ screening[review[v].payout].result.decision = "allow"
    BY <1>3 DEF IInv, Processes, ReviewsOpen, AllowedStands
  <2>2. CASE review[v].payout = p
    BY <2>1, <2>2, <1>1, <1>3
  <2>3. CASE review[v].payout # p
    BY <2>1, <2>3, <1>1, <1>3
  <2> QED
    BY <2>2, <2>3
<1>7. DecidedOnce'
  <2>1. \A q \in Payouts : screening'[q].status = "closed" <=> screening[q].status = "closed"
    BY <1>1
  <2> QED
    BY <2>1 DEF IInv, DecidedOnce, books
<1>8. ApprovedIsNotDenied'
  <2> SUFFICES ASSUME NEW q \in Payouts, payout[q].status = "approved"
               PROVE  screening'[q].result.decision = "allow"
    BY DEF ApprovedIsNotDenied
  <2>1. screening[q].status = "closed" /\ screening[q].result.decision = "allow"
    BY DEF IInv, DecidedOnce, ApprovedIsNotDenied
  <2> QED
    BY <2>1, <1>1
<1>9. Orders'
  <2>1. Known' /\ Distinct'
    BY DEF IInv, Orders, Known, Distinct, Hash
  <2>2. HasJob'
    BY <1>1 DEF IInv, Orders, HasJob
  <2> QED
    BY <2>1, <2>2 DEF Orders
<1> QED
  BY <1>4, <1>5, <1>6, <1>7, <1>8, <1>9 DEF IInv, Processes

LEMMA WorkerDone ==
  ASSUME IInv, NEW w \in Screeners, worker' = [worker EXCEPT ![w] = IdleWorker]
  PROVE  worker' \in [Screeners -> Screen] /\ WorkersBusy'
<1>1. IdleWorker \in Screen
  BY DEF IdleWorker, Screen
<1>2. worker' \in [Screeners -> Screen]
  BY <1>1 DEF IInv, TypeOK
<1>3. \A x \in Screeners : worker'[x] = IF x = w THEN IdleWorker ELSE worker[x]
  BY DEF IInv, TypeOK
<1> QED
  BY <1>2, <1>3 DEF IInv, Processes, WorkersBusy, IdleWorker

\* A fenced write is about a job in processing, and of a payout.
LEMMA FencedJob ==
  ASSUME IInv, NEW w \in Screeners, worker[w].at # "idle"
  PROVE  /\ worker[w] \in Screen /\ worker[w].payout \in Payouts
         /\ screening[worker[w].payout] \in ScreeningJob
         /\ Fenced(w) => screening[worker[w].payout].status = "processing"
BY DEF IInv, TypeOK, Processes, WorkersBusy, Fenced

LEMMA ClaimKeeps ==
  ASSUME IInv, NEW w \in Screeners, NEW p \in Payouts, Claim(w, p) PROVE IInv'
<1> DEFINE j == [screening[p] EXCEPT !.status = "processing", !.holder = w, !.live = TRUE]
           x == [IdleWorker EXCEPT !.at = "screen", !.payout = p]
<1>1. screening[p] \in ScreeningJob
  BY DEF IInv, TypeOK
<1>2. /\ j \in ScreeningJob /\ j.status = "processing"
      /\ j.result = screening[p].result
  BY <1>1 DEF ScreeningJob
<1>3. x \in Screen /\ x.at = "screen" /\ x.payout = p
  BY DEF IdleWorker, Screen
<1>4. screening' = [screening EXCEPT ![p] = j]
  BY DEF Claim
<1>5. worker' = [worker EXCEPT ![w] = x]
  BY DEF Claim
<1>6. screening[p].status # "closed" /\ screening[p].status # "absent"
  BY <1>1 DEF Claim, Claimable, IInv, DecidedOnce
<1> HIDE DEF j, x
<1>7. worker' \in [Screeners -> Screen] /\ WorkersBusy'
  <2>1. worker' \in [Screeners -> Screen]
    BY <1>3, <1>5 DEF IInv, TypeOK
  <2>2. \A y \in Screeners : worker'[y] = IF y = w THEN x ELSE worker[y]
    BY <1>5 DEF IInv, TypeOK
  <2> QED
    BY <2>1, <2>2, <1>3 DEF IInv, Processes, WorkersBusy
<1>8. Overtake(p) /\ UNCHANGED <<payout, books, replies>> /\ UNCHANGED results
  BY DEF Claim
<1>9. results' \in [Payouts -> SUBSET Decisions]
  BY <1>8 DEF IInv, TypeOK
<1> QED
  BY <1>2, <1>4, <1>6, <1>7, <1>8, <1>9, ScreeningKeeps

LEMMA CompleteKeeps ==
  ASSUME IInv, NEW w \in Screeners, Complete(w) PROVE IInv'
<1> DEFINE p == worker[w].payout
           d == worker[w].decision
           j == [screening[p] EXCEPT !.status = "completed", !.live = FALSE,
                                     !.result = [decision |-> d, valid |-> TRUE]]
<1>1. /\ p \in Payouts /\ screening[p] \in ScreeningJob
      /\ screening[p].status = "processing"
  BY FencedJob DEF Complete, FencedLive
<1>2. d \in Decisions
  BY DEF Complete, IInv, Processes, WorkersBusy
<1>3. /\ j \in ScreeningJob /\ j.status = "completed" /\ j.live = FALSE
      /\ j.result = [decision |-> d, valid |-> TRUE]
  BY <1>1, <1>2 DEF ScreeningJob, Result
<1>4. j.result # NoResult
  BY <1>3 DEF NoResult
<1>5. screening' = [screening EXCEPT ![p] = j]
  BY DEF Complete
<1> HIDE DEF j
<1>6. worker' \in [Screeners -> Screen] /\ WorkersBusy'
  BY WorkerDone DEF Complete
<1>7. Overtake(p) /\ UNCHANGED <<payout, books, replies>>
  BY DEF Complete
<1>8. results' \in [Payouts -> SUBSET Decisions]
  BY <1>1, <1>2 DEF Complete, IInv, TypeOK
<1> HIDE DEF p
<1> QED
  BY <1>1, <1>3, <1>4, <1>5, <1>6, <1>7, <1>8, ScreeningKeeps

LEMMA ReleaseKeeps ==
  ASSUME IInv, NEW w \in Screeners, Release(w) PROVE IInv'
<1> DEFINE p == worker[w].payout
           j == [screening[p] EXCEPT !.status = "pending", !.live = FALSE]
<1>1. /\ p \in Payouts /\ screening[p] \in ScreeningJob
      /\ screening[p].status = "processing"
  BY FencedJob DEF Release
<1>2. /\ j \in ScreeningJob /\ j.status = "pending" /\ j.live = FALSE
      /\ j.result = screening[p].result
  BY <1>1 DEF ScreeningJob
<1>3. screening' = [screening EXCEPT ![p] = j]
  BY DEF Release
<1> HIDE DEF j
<1>4. worker' \in [Screeners -> Screen] /\ WorkersBusy'
  BY WorkerDone DEF Release
<1>5. Overtake(p) /\ UNCHANGED <<payout, books, replies>> /\ UNCHANGED results
  BY DEF Release
<1>6. results' \in [Payouts -> SUBSET Decisions]
  BY <1>5 DEF IInv, TypeOK
<1> HIDE DEF p
<1> QED
  BY <1>1, <1>2, <1>3, <1>4, <1>5, <1>6, ScreeningKeeps

LEMMA ExpiryKeeps ==
  ASSUME IInv, NEW p \in Payouts, LeaseExpires(p) \/ ResultExpires(p) PROVE IInv'
<1>1. screening[p] \in ScreeningJob
  BY DEF IInv, TypeOK
<1>2. /\ UNCHANGED <<payout, books, replies>> /\ UNCHANGED <<review, worker, results>>
      /\ results' \in [Payouts -> SUBSET Decisions]
      /\ worker' \in [Screeners -> Screen] /\ WorkersBusy'
  BY DEF LeaseExpires, ResultExpires, IInv, TypeOK, Processes, WorkersBusy
<1>3. CASE LeaseExpires(p)
  <2> DEFINE j == [screening[p] EXCEPT !.live = FALSE]
  <2>1. /\ j \in ScreeningJob /\ j.status = screening[p].status
        /\ j.result = screening[p].result /\ j.live = FALSE
    BY <1>1 DEF ScreeningJob
  <2>2. screening' = [screening EXCEPT ![p] = j]
    BY <1>3 DEF LeaseExpires
  <2>3. j.status = "completed" => j.result # NoResult
    BY <2>1 DEF IInv, TypeOK
  <2> HIDE DEF j
  <2> QED
    BY <1>2, <2>1, <2>2, <2>3, ScreeningKeeps
<1>4. CASE ResultExpires(p)
  <2> DEFINE y == [screening[p].result EXCEPT !.valid = FALSE]
             j == [screening[p] EXCEPT !.result = y]
  <2>1. screening[p].result \in Result
    BY <1>1, <1>4 DEF ScreeningJob, ResultExpires, NoResult
  <2>2. /\ y \in Result /\ y.decision = screening[p].result.decision
        /\ y # NoResult
    BY <2>1 DEF Result, NoResult, Decisions
  <2>3. screening' = [screening EXCEPT ![p] = j]
    BY <1>4 DEF ResultExpires
  <2> HIDE DEF y
  <2>4. /\ j \in ScreeningJob /\ j.status = screening[p].status
        /\ j.live = screening[p].live /\ j.result = y
    BY <1>1, <2>2 DEF ScreeningJob
  <2>5. j.live => j.status = "processing"
    BY <2>4 DEF IInv, TypeOK
  <2> HIDE DEF j
  <2> QED
    BY <1>2, <2>2, <2>3, <2>4, <2>5, ScreeningKeeps
<1> QED
  BY <1>3, <1>4

LEMMA ScreenerKeeps ==
  ASSUME IInv, NEW w \in Screeners,
         ProviderAnswers(w) \/ ProviderFails(w) \/ LeaseLost(w) \/ Crash(w)
  PROVE  IInv'
<1>1. UNCHANGED <<payout, screening, results, books, review, replies>>
  BY DEF ProviderAnswers, ProviderFails, LeaseLost, Crash
<1>2. CASE LeaseLost(w) \/ Crash(w)
  BY <1>1, <1>2, WorkerDone, WorkerKeeps DEF LeaseLost, Crash
<1>3. ASSUME NEW at \in {"complete", "release"}, NEW d \in {"none"} \cup Decisions,
             worker[w].at = "screen", at = "complete" => d \in Decisions,
             worker' = [worker EXCEPT ![w].at = at, ![w].decision = d]
      PROVE  IInv'
  <2> DEFINE x == [worker[w] EXCEPT !.at = at, !.decision = d]
  <2>1. worker[w] \in Screen /\ worker[w].payout \in Payouts
    BY <1>3, FencedJob
  <2>2. /\ x \in Screen /\ x.at = at /\ x.decision = d
        /\ x.payout = worker[w].payout
    BY <2>1 DEF Screen
  <2>3. worker' = [worker EXCEPT ![w] = x]
    BY <1>3
  <2> HIDE DEF x
  <2>4. worker' \in [Screeners -> Screen]
    BY <2>2, <2>3 DEF IInv, TypeOK
  <2>5. \A y \in Screeners : worker'[y] = IF y = w THEN x ELSE worker[y]
    BY <2>3 DEF IInv, TypeOK
  <2>6. WorkersBusy'
    BY <1>3, <2>1, <2>2, <2>5 DEF IInv, Processes, WorkersBusy
  <2> QED
    BY <1>1, <2>4, <2>6, WorkerKeeps
<1>4. CASE ProviderAnswers(w)
  BY <1>3, <1>4 DEF ProviderAnswers
<1>5. CASE ProviderFails(w)
  <2>1. worker[w] \in Screen
    BY DEF IInv, TypeOK
  <2>2. worker' = [worker EXCEPT ![w].at = "release", ![w].decision = worker[w].decision]
    BY <1>5, <2>1 DEF ProviderFails, IInv, TypeOK, Screen
  <2>3. worker[w].decision \in {"none"} \cup Decisions
    BY <2>1 DEF Screen
  <2> QED
    BY <1>3, <1>5, <2>2, <2>3 DEF ProviderFails
<1> QED
  BY <1>2, <1>4, <1>5

-----------------------------------------------------------------------------
(* Steps of the operators *)

\* A step that writes no row but may tell an operator of a decision.
LEMMA ReviewKeeps ==
  ASSUME IInv, UNCHANGED <<payout, screening, results, books, worker>>,
         NEW v \in Reviewers, NEW x \in ReviewTx, review' = [review EXCEPT ![v] = x],
         x.at = "locking" =>
           /\ x.payout \in Payouts /\ x.verdict \in Verdicts
           /\ x.allowed => screening[x.payout].result.decision = "allow",
         NEW told \in SUBSET [payout : Payouts, reviewer : Reviewers, verdict : Verdicts],
         replies' = replies \cup told
  PROVE  IInv'
<1>1. \A y \in Reviewers : review'[y] = IF y = v THEN x ELSE review[y]
  BY DEF IInv, TypeOK
<1>2. TypeOK'
  <2>1. review' \in [Reviewers -> ReviewTx]
    BY DEF IInv, TypeOK
  <2>2. replies' \subseteq [request : Requests, payout : Payouts]
          \cup [payout : Payouts, reviewer : Reviewers, verdict : Verdicts]
    BY DEF IInv, TypeOK
  <2> QED
    BY <2>1, <2>2 DEF IInv, TypeOK, books
<1>3. Processes'
  <2>1. WorkersBusy'
    BY DEF IInv, Processes, WorkersBusy
  <2>2. ReviewsOpen'
    BY <1>1 DEF IInv, Processes, ReviewsOpen
  <2>3. AllowedStands'
    BY <1>1 DEF IInv, Processes, AllowedStands
  <2> QED
    BY <2>1, <2>2, <2>3 DEF Processes
<1>4. DecidedOnce' /\ ApprovedIsNotDenied'
  BY DEF IInv, DecidedOnce, ApprovedIsNotDenied, books
<1>5. \A r, p : Answer(r, p) \in replies' => Answer(r, p) \in replies
  <2> SUFFICES ASSUME NEW r, NEW p PROVE Answer(r, p) \notin told
    OBVIOUS
  <2>1. DOMAIN Answer(r, p) = {"request", "payout"}
    BY DEF Answer
  <2>2. \A a \in told : "verdict" \in DOMAIN a
    OBVIOUS
  <2>3. "verdict" \notin {"request", "payout"}
    OBVIOUS
  <2> QED
    BY <2>1, <2>2, <2>3
<1>6. Orders'
  BY <1>5 DEF IInv, Orders, Known, Distinct, HasJob, Hash
<1> QED
  BY <1>2, <1>3, <1>4, <1>6 DEF IInv

LEMMA BeginReviewKeeps ==
  ASSUME IInv, NEW v \in Reviewers, NEW p \in Payouts, NEW verdict \in Verdicts,
         BeginReview(v, p, verdict)
  PROVE  IInv'
<1> DEFINE x == [at |-> "locking", payout |-> p, verdict |-> verdict,
                 allowed |-> ScreeningAllowed(p), overtaken |-> FALSE]
<1>1. screening[p] \in ScreeningJob
  BY DEF IInv, TypeOK
<1>2. ScreeningAllowed(p) \in BOOLEAN
  BY <1>1 DEF ScreeningAllowed
<1>3. /\ x \in ReviewTx /\ x.payout = p /\ x.verdict = verdict
      /\ x.allowed = ScreeningAllowed(p)
  BY <1>2 DEF ReviewTx
<1>4. x.allowed => screening[p].result.decision = "allow"
  BY <1>3 DEF ScreeningAllowed
<1>5. review' = [review EXCEPT ![v] = x]
  BY DEF BeginReview
<1>6. UNCHANGED <<payout, screening, results, books, worker>> /\ replies' = replies \cup {}
  BY DEF BeginReview
<1> HIDE DEF x
<1> QED
  BY <1>3, <1>4, <1>5, <1>6, ReviewKeeps

LEMMA ReviewOver == IdleReview \in ReviewTx /\ IdleReview.at = "idle"
BY DEF IdleReview, ReviewTx

LEMMA RollbackKeeps ==
  ASSUME IInv, NEW v \in Reviewers, Rollback(v) PROVE IInv'
<1>1. /\ UNCHANGED <<payout, screening, results, books, worker>>
      /\ replies' = replies \cup {} /\ review' = [review EXCEPT ![v] = IdleReview]
  BY DEF Rollback
<1> QED
  BY <1>1, ReviewOver, ReviewKeeps

LEMMA DecideAgainKeeps ==
  ASSUME IInv, NEW v \in Reviewers, DecideAgain(v) PROVE IInv'
<1> DEFINE a == Audit(review[v].payout, v, review[v].verdict)
<1>1. review[v].payout \in Payouts /\ review[v].verdict \in Verdicts
  BY DEF DecideAgain, IInv, Processes, ReviewsOpen
<1>2. {a} \in SUBSET [payout : Payouts, reviewer : Reviewers, verdict : Verdicts]
  BY <1>1, AuditRow
<1>3. /\ UNCHANGED <<payout, screening, results, books, worker>>
      /\ replies' = replies \cup {a} /\ review' = [review EXCEPT ![v] = IdleReview]
  BY DEF DecideAgain
<1> QED
  BY <1>2, <1>3, ReviewOver, ReviewKeeps

\* The one step that ends a pending payout: it was not decided before, and it
\* leaves the same decision in every table.
LEMMA DecideKeeps ==
  ASSUME IInv, NEW v \in Reviewers, Decide(v) PROVE IInv'
<1> DEFINE p == review[v].payout
           d == review[v].verdict
           a == Audit(p, v, d)
           row == [payout[p] EXCEPT !.status = Target(d), !.reviewer = v]
           j == [screening[p] EXCEPT !.status = "closed", !.live = FALSE]
<1>1. p \in Payouts /\ d \in Verdicts
  BY DEF Decide, MayDecide, IInv, Processes, ReviewsOpen
<1>2. payout[p] \in Row /\ payout[p].status = "pending_review" /\ screening[p] \in ScreeningJob
  BY <1>1 DEF Decide, MayDecide, IInv, TypeOK
<1>3. /\ row \in Row /\ row.status = Target(d) /\ row.reviewer = v
      /\ row.request = payout[p].request
      /\ Target(d) = IF d = "approve" THEN "approved" ELSE "rejected"
  BY <1>1, <1>2 DEF Row, Target, Verdicts
<1>4. /\ j \in ScreeningJob /\ j.status = "closed" /\ j.live = FALSE
      /\ j.result = screening[p].result
  BY <1>2 DEF ScreeningJob
<1>5. d = "approve" => screening[p].result.decision = "allow"
  BY DEF Decide, MayDecide, JobAsBegun, IInv, Processes, AllowedStands
<1>6. payout' = [payout EXCEPT ![p] = row] /\ screening' = [screening EXCEPT ![p] = j]
  BY DEF Decide, Closed
<1>7. /\ audits' = audits \cup {a} /\ replies' = replies \cup {a}
      /\ review' = [review EXCEPT ![v] = IdleReview]
      /\ UNCHANGED <<results, worker>>
  BY DEF Decide
<1>8. /\ d = "approve" => journal' = journal /\ outbox' = outbox
      /\ d = "reject" => journal' = journal \cup {Unfreeze(p)} /\ outbox' = outbox \cup {p}
  BY DEF Decide, EnqueueRejected
<1>9. a.payout = p /\ a \in [payout : Payouts, reviewer : Reviewers, verdict : Verdicts]
  BY <1>1, AuditRow
<1>10. /\ \A q \in Payouts : payout'[q] = IF q = p THEN row ELSE payout[q]
       /\ \A q \in Payouts : screening'[q] = IF q = p THEN j ELSE screening[q]
       /\ \A y \in Reviewers : review'[y] = IF y = v THEN IdleReview ELSE review[y]
  BY <1>6, <1>7 DEF IInv, TypeOK
<1>11. d = "approve" \/ d = "reject"
  BY <1>1 DEF Verdicts
<1>12. /\ {q \in audits' : q.payout = p} = {a}
       /\ \A q \in Payouts \ {p} :
            {b \in audits' : b.payout = q} = {b \in audits : b.payout = q}
  <2>1. {b \in audits : b.payout = p} = {}
    BY <1>1, <1>2 DEF IInv, DecidedOnce
  <2> HIDE DEF a, p
  <2> QED
    BY <2>1, <1>7, <1>9
<1> HIDE DEF p, d, row, j
<1>13. TypeOK'
  <2>1. payout' \in [Payouts -> Row] /\ screening' \in [Payouts -> ScreeningJob]
    BY <1>3, <1>4, <1>6 DEF IInv, TypeOK
  <2>2. review' \in [Reviewers -> ReviewTx]
    BY <1>7, ReviewOver DEF IInv, TypeOK
  <2>3. \A q \in Payouts :
          /\ screening'[q].live => screening'[q].status = "processing"
          /\ screening'[q].status = "completed" => screening'[q].result # NoResult
    BY <1>4, <1>10 DEF IInv, TypeOK
  <2>4. /\ journal' \subseteq {Freeze(q) : q \in Payouts} \cup {Unfreeze(q) : q \in Payouts}
        /\ outbox' \subseteq Payouts
    BY <1>1, <1>8, <1>11 DEF IInv, TypeOK
  <2>5. /\ audits' \subseteq [payout : Payouts, reviewer : Reviewers, verdict : Verdicts]
        /\ replies' \subseteq [request : Requests, payout : Payouts]
             \cup [payout : Payouts, reviewer : Reviewers, verdict : Verdicts]
    BY <1>7, <1>9 DEF IInv, TypeOK
  <2> QED
    BY <2>1, <2>2, <2>3, <2>4, <2>5, <1>7 DEF IInv, TypeOK
<1>14. Processes'
  <2>1. WorkersBusy'
    BY <1>7 DEF IInv, Processes, WorkersBusy
  <2>2. ReviewsOpen'
    BY <1>10, ReviewOver DEF IInv, Processes, ReviewsOpen
  <2>3. AllowedStands'
    <3> SUFFICES ASSUME NEW y \in Reviewers, review'[y].at = "locking",
                        review'[y].allowed, ~review'[y].overtaken
                 PROVE  screening'[review'[y].payout].result.decision = "allow"
      BY DEF AllowedStands
    <3>1. y # v /\ review'[y] = review[y]
      BY <1>10, ReviewOver
    <3>2. /\ review[y].payout \in Payouts
          /\ screening[review[y].payout].result.decision = "allow"
      BY <3>1 DEF IInv, Processes, ReviewsOpen, AllowedStands
    <3> QED
      BY <3>1, <3>2, <1>4, <1>10
  <2> QED
    BY <2>1, <2>2, <2>3 DEF Processes
<1>15. DecidedOnce'
  <2> SUFFICES ASSUME NEW q \in Payouts
               PROVE  LET own == {b \in audits' : b.payout = q}
                          r == payout'[q]
                      IN
                      /\ r.status = "absent" <=> Freeze(q) \notin journal'
                      /\ r.status \in {"absent", "pending_review"} => own = {}
                      /\ r.status \in {"approved", "rejected"} =>
                           own = {Audit(q, r.reviewer,
                                        IF r.status = "approved" THEN "approve"
                                        ELSE "reject")}
                      /\ screening'[q].status = "closed" <=>
                           r.status \in {"approved", "rejected"}
                      /\ r.status = "rejected" <=> Unfreeze(q) \in journal'
                      /\ r.status = "rejected" <=> q \in outbox'
    BY DEF DecidedOnce
  <2>1. /\ Freeze(q) \in journal' <=> Freeze(q) \in journal
        /\ q # p => (Unfreeze(q) \in journal' <=> Unfreeze(q) \in journal)
        /\ q # p => (q \in outbox' <=> q \in outbox)
    BY <1>8, <1>11, JournalRows
  <2>2. CASE q # p
    BY <2>1, <2>2, <1>10, <1>12 DEF IInv, DecidedOnce
  <2>3. CASE q = p
    <3>1. /\ Freeze(p) \in journal /\ Unfreeze(p) \notin journal /\ p \notin outbox
      BY <1>1, <1>2 DEF IInv, DecidedOnce
    <3>2. payout'[q] = row /\ screening'[q] = j /\ {b \in audits' : b.payout = q} = {a}
      BY <2>3, <1>1, <1>10, <1>12
    <3>3. a = Audit(q, row.reviewer, IF row.status = "approved" THEN "approve" ELSE "reject")
      BY <2>3, <1>3, <1>11
    <3>4. d = "reject" <=> Unfreeze(p) \in journal' /\ p \in outbox'
      BY <3>1, <1>8, <1>11
    <3>5. d = "approve" => Unfreeze(p) \notin journal' /\ p \notin outbox'
      BY <3>1, <1>8
    <3> HIDE DEF a
    <3> QED
      BY <2>1, <2>3, <3>1, <3>2, <3>3, <3>4, <3>5, <1>3, <1>4, <1>11
  <2> QED
    BY <2>2, <2>3
<1>16. ApprovedIsNotDenied'
  <2> SUFFICES ASSUME NEW q \in Payouts, payout'[q].status = "approved"
               PROVE  screening'[q].result.decision = "allow"
    BY DEF ApprovedIsNotDenied
  <2>1. CASE q # p
    BY <2>1, <1>10 DEF IInv, ApprovedIsNotDenied
  <2>2. CASE q = p
    BY <2>2, <1>1, <1>3, <1>4, <1>5, <1>10, <1>11
  <2> QED
    BY <2>1, <2>2
<1>17. Orders'
  <2>1. \A q \in Payouts :
          /\ payout'[q].request = payout[q].request
          /\ payout'[q].status = "absent" <=> payout[q].status = "absent"
    BY <1>2, <1>3, <1>10
  <2>2. \A r, q : Answer(r, q) \in replies' => Answer(r, q) \in replies
    BY <1>7, AnswerRow
  <2>3. Known'
    BY <2>1, <2>2 DEF IInv, Orders, Known, Hash
  <2>4. Distinct'
    BY <2>1 DEF IInv, Orders, Distinct
  <2>5. HasJob'
    BY <1>2, <1>3, <1>4, <1>10 DEF IInv, Orders, HasJob
  <2> QED
    BY <2>3, <2>4, <2>5 DEF Orders
<1> QED
  BY <1>13, <1>14, <1>15, <1>16, <1>17 DEF IInv

-----------------------------------------------------------------------------
(* Steps of the merchant *)

LEMMA CreateKeeps ==
  ASSUME IInv, NEW r \in Requests, NEW p \in Payouts, Create(r, p) PROVE IInv'
<1> DEFINE row == [payout[p] EXCEPT !.status = "pending_review", !.request = r]
           j == [screening[p] EXCEPT !.status = "pending"]
<1>1. /\ payout[p] \in Row /\ payout[p].status = "absent"
      /\ screening[p] \in ScreeningJob /\ screening[p].status = "absent"
  BY DEF Create, IInv, TypeOK, Orders, HasJob
<1>2. row \in Row /\ row.status = "pending_review" /\ row.request = r
  BY <1>1 DEF Row
<1>3. /\ j \in ScreeningJob /\ j.status = "pending" /\ j.result = screening[p].result
      /\ j.live = screening[p].live
  BY <1>1 DEF ScreeningJob
<1>4. /\ payout' = [payout EXCEPT ![p] = row] /\ screening' = [screening EXCEPT ![p] = j]
      /\ journal' = journal \cup {Freeze(p)} /\ replies' = replies \cup {Answer(r, p)}
      /\ UNCHANGED <<results, audits, outbox, worker, review>>
  BY DEF Create
<1>5. \A q \in Payouts :
        payout[q].status # "absent" => payout[q].request.reference # r.reference
  BY DEF Create, Existing
<1> HIDE DEF row, j
<1>6. /\ \A q \in Payouts : payout'[q] = IF q = p THEN row ELSE payout[q]
      /\ \A q \in Payouts : screening'[q] = IF q = p THEN j ELSE screening[q]
  BY <1>4 DEF IInv, TypeOK
<1>7. ~j.live
  BY <1>1, <1>3 DEF IInv, TypeOK
<1>8. TypeOK'
  <2>1. payout' \in [Payouts -> Row] /\ screening' \in [Payouts -> ScreeningJob]
    BY <1>2, <1>3, <1>4 DEF IInv, TypeOK
  <2>2. \A q \in Payouts :
          /\ screening'[q].live => screening'[q].status = "processing"
          /\ screening'[q].status = "completed" => screening'[q].result # NoResult
    BY <1>3, <1>6, <1>7 DEF IInv, TypeOK
  <2>3. journal' \subseteq {Freeze(q) : q \in Payouts} \cup {Unfreeze(q) : q \in Payouts}
    BY <1>4 DEF IInv, TypeOK
  <2>4. Answer(r, p) \in [request : Requests, payout : Payouts]
    BY DEF Answer
  <2> QED
    BY <2>1, <2>2, <2>3, <2>4, <1>4 DEF IInv, TypeOK
<1>9. Processes'
  <2>1. WorkersBusy' /\ ReviewsOpen'
    BY <1>4 DEF IInv, Processes, WorkersBusy, ReviewsOpen
  <2>2. AllowedStands'
    BY <1>3, <1>4, <1>6 DEF IInv, Processes, ReviewsOpen, AllowedStands
  <2> QED
    BY <2>1, <2>2 DEF Processes
<1>10. DecidedOnce'
  <2>1. \A q \in Payouts :
          /\ q # p => (Freeze(q) \in journal' <=> Freeze(q) \in journal)
          /\ Unfreeze(q) \in journal' <=> Unfreeze(q) \in journal
    BY <1>4, JournalRows
  <2>2. Freeze(p) \in journal'
    BY <1>4
  <2> SUFFICES ASSUME NEW q \in Payouts
               PROVE  LET own == {b \in audits' : b.payout = q}
                          x == payout'[q]
                      IN
                      /\ x.status = "absent" <=> Freeze(q) \notin journal'
                      /\ x.status \in {"absent", "pending_review"} => own = {}
                      /\ x.status \in {"approved", "rejected"} =>
                           own = {Audit(q, x.reviewer,
                                        IF x.status = "approved" THEN "approve"
                                        ELSE "reject")}
                      /\ screening'[q].status = "closed" <=>
                           x.status \in {"approved", "rejected"}
                      /\ x.status = "rejected" <=> Unfreeze(q) \in journal'
                      /\ x.status = "rejected" <=> q \in outbox'
    BY DEF DecidedOnce
  <2>3. CASE q # p
    BY <2>1, <2>3, <1>4, <1>6 DEF IInv, DecidedOnce
  <2>4. CASE q = p
    BY <2>1, <2>2, <2>4, <1>1, <1>2, <1>3, <1>4, <1>6 DEF IInv, DecidedOnce
  <2> QED
    BY <2>3, <2>4
<1>11. ApprovedIsNotDenied'
  BY <1>2, <1>6 DEF IInv, ApprovedIsNotDenied
<1>12. Orders'
  <2>1. HasJob'
    BY <1>2, <1>3, <1>6 DEF IInv, Orders, HasJob
  <2>2. Distinct'
    BY <1>1, <1>2, <1>5, <1>6 DEF IInv, Orders, Distinct
  <2>3. Known'
    <3> SUFFICES ASSUME NEW s \in Requests, NEW q \in Payouts, Answer(s, q) \in replies'
                 PROVE  payout'[q].status # "absent" /\ Hash(payout'[q].request) = Hash(s)
      BY DEF Known, Hash
    <3>1. CASE Answer(s, q) \in replies
      BY <3>1, <1>1, <1>6 DEF IInv, Orders, Known
    <3>2. CASE Answer(s, q) = Answer(r, p)
      BY <3>2, <1>2, <1>6, AnswerRow
    <3> QED
      BY <3>1, <3>2, <1>4
  <2> QED
    BY <2>1, <2>2, <2>3 DEF Orders
<1> QED
  BY <1>8, <1>9, <1>10, <1>11, <1>12 DEF IInv

LEMMA CreateAgainKeeps ==
  ASSUME IInv, NEW r \in Requests, NEW p \in Payouts, CreateAgain(r, p) PROVE IInv'
<1>1. /\ UNCHANGED <<payout, screening, results, books, worker, review>>
      /\ replies' = replies \cup {Answer(r, p)}
  BY DEF CreateAgain
<1>2. payout[p].status # "absent" /\ Hash(payout[p].request) = Hash(r)
  BY DEF CreateAgain, FindExisting, Existing
<1>3. TypeOK'
  <2>1. Answer(r, p) \in [request : Requests, payout : Payouts]
    BY DEF Answer
  <2> QED
    BY <2>1, <1>1 DEF IInv, TypeOK, books
<1>4. Processes' /\ DecidedOnce' /\ ApprovedIsNotDenied'
  BY <1>1 DEF IInv, Processes, WorkersBusy, ReviewsOpen, AllowedStands, DecidedOnce,
              ApprovedIsNotDenied, books
<1>5. Known'
  <2> SUFFICES ASSUME NEW s \in Requests, NEW q \in Payouts, Answer(s, q) \in replies'
               PROVE  payout[q].status # "absent" /\ Hash(payout[q].request) = Hash(s)
    BY <1>1 DEF Known, Hash
  <2>1. CASE Answer(s, q) \in replies
    BY <2>1 DEF IInv, Orders, Known
  <2>2. CASE Answer(s, q) = Answer(r, p)
    BY <2>2, <1>2, AnswerRow
  <2> QED
    BY <2>1, <2>2, <1>1
<1>6. Orders'
  BY <1>1, <1>5 DEF IInv, Orders, Distinct, HasJob
<1> QED
  BY <1>3, <1>4, <1>6 DEF IInv

-----------------------------------------------------------------------------
(* The theorems *)

LEMMA StepIInv == ASSUME IInv, [Next]_vars PROVE IInv'
<1>1. ASSUME NEW r \in Requests, CreatePayout(r) PROVE IInv'
  BY <1>1, CreateKeeps, CreateAgainKeeps DEF CreatePayout
<1>2. ASSUME NEW w \in Screeners, NEW p \in Payouts, Claim(w, p) PROVE IInv'
  BY <1>2, ClaimKeeps
<1>3. ASSUME NEW w \in Screeners, WorkerStep(w) \/ ProviderFails(w) \/ Crash(w) PROVE IInv'
  BY <1>3, CompleteKeeps, ReleaseKeeps, ScreenerKeeps DEF WorkerStep
<1>4. ASSUME NEW p \in Payouts, LeaseExpires(p) \/ ResultExpires(p) PROVE IInv'
  BY <1>4, ExpiryKeeps
<1>5. ASSUME NEW v \in Reviewers, NEW p \in Payouts, NEW verdict \in Verdicts,
             BeginReview(v, p, verdict)
      PROVE  IInv'
  BY <1>5, BeginReviewKeeps
<1>6. ASSUME NEW v \in Reviewers, Decide(v) \/ DecideAgain(v) \/ Rollback(v) PROVE IInv'
  BY <1>6, DecideKeeps, DecideAgainKeeps, RollbackKeeps
<1>7. CASE UNCHANGED vars
  BY <1>7 DEF vars, IInv, TypeOK, Processes, WorkersBusy, ReviewsOpen, AllowedStands,
              DecidedOnce, ApprovedIsNotDenied, Orders, Known, Distinct, HasJob, Hash
<1> QED
  BY <1>1, <1>2, <1>3, <1>4, <1>5, <1>6, <1>7 DEF Next

LEMMA Invariance == Spec => []IInv
BY InitIInv, StepIInv, PTL DEF Spec

\* Rows, jobs, audits and journal keep their types and CHECK constraints.
THEOREM TypeCorrect == Spec => []TypeOK
<1>1. IInv => TypeOK
  BY DEF IInv
<1> QED
  BY <1>1, Invariance, PTL

\* Of any number of racing reviews one decides a payout, and every table tells the
\* same decision of the same operator.
THEOREM DecidedOnceAlways == Spec => []DecidedOnce
<1>1. IInv => DecidedOnce
  BY DEF IInv
<1> QED
  BY <1>1, Invariance, PTL

\* However the screening workers race with a review that waits for its lock, what
\* is approved was allowed by the last result.
THEOREM ApprovedIsNotDeniedAlways == Spec => []ApprovedIsNotDenied
<1>1. IInv => ApprovedIsNotDenied
  BY DEF IInv
<1> QED
  BY <1>1, Invariance, PTL

\* Whatever requests are repeated under whatever keys, an order has one payout,
\* and a caller is never answered with one of another order or amount.
THEOREM OnePayoutPerOrderAlways == Spec => []OnePayoutPerOrder
<1>1. IInv => OnePayoutPerOrder
  <2> SUFFICES ASSUME IInv, NEW r \in Requests, NEW s \in Requests,
                      NEW p \in Payouts, NEW q \in Payouts
               PROVE  /\ Answer(r, p) \in replies => Hash(payout[p].request) = Hash(r)
                      /\ Answer(r, p) \in replies /\ Answer(s, q) \in replies =>
                           (r.reference = s.reference => p = q)
    BY DEF OnePayoutPerOrder
  <2>1. Answer(r, p) \in replies =>
          payout[p].status # "absent" /\ Hash(payout[p].request) = Hash(r)
    BY DEF IInv, Orders, Known
  <2>2. Answer(s, q) \in replies =>
          payout[q].status # "absent" /\ Hash(payout[q].request) = Hash(s)
    BY DEF IInv, Orders, Known
  <2>3. ASSUME Answer(r, p) \in replies, Answer(s, q) \in replies,
               r.reference = s.reference
        PROVE  p = q
    BY <2>1, <2>2, <2>3 DEF IInv, Orders, Distinct, Hash
  <2> QED
    BY <2>1, <2>3
<1> QED
  BY <1>1, Invariance, PTL

=============================================================================

--------------------------- MODULE DepositsProofs ---------------------------
(***************************************************************************)
(* Theorems about Deposits, for any transfers, intents, amounts and        *)
(* workers.  IInv says what a match rests on; Books, on top of it, how the *)
(* sums, the postings and the status of an intent belong together.         *)
(***************************************************************************)
EXTENDS Deposits, SumTheorems

-----------------------------------------------------------------------------
(* The inductive invariant *)

\* As much of TypeOK as the properties need.
Shape ==
  /\ job \in [Events -> ScreeningJob]
  /\ results \in [Events -> SUBSET Decisions]
  /\ matches \in [Events -> Match]
  /\ worker \in [Screeners -> {None} \cup Events]
  /\ matcher \in [Matchers -> MatchTx]

\* What a job says of a sender is a result that was stored.
Screened ==
  \A e \in Events : job[e].result.decision \in {"none"} \cup results[e]

\* A transfer that a deposit worker has locked is still to be settled, as its job
\* says, and no other worker has locked it.
Locks ==
  \A m \in Matchers : matcher[m].event # None =>
    /\ matches[matcher[m].event] = NoMatch
    /\ job[matcher[m].event].status = "completed"
    /\ job[matcher[m].event].result.decision = matcher[m].decision
    /\ \A n \in Matchers : n # m => matcher[n].event # matcher[m].event

\* The job of a settled transfer is closed, and says why the transfer was held back.
Settled ==
  \A e \in Events : matches[e] # NoMatch =>
    /\ job[e].status = "closed"
    /\ matches[e] = Review("screening") => job[e].result.decision = "deny"

Clean ==
  \A e \in Events : matches[e] \in {Matched, Review("overpaid")} =>
    Time[e] = "within" /\ "allow" \in results[e]

IInv == Shape /\ Screened /\ Locks /\ Settled /\ Clean

LEMMA Matching ==
  /\ NoMatch \in Match /\ Matched \in Match
  /\ Matched \notin {NoMatch, Review("screening"), Review("overpaid")}
  /\ \A reason \in {"screening", "no_intent", "inactive", "outside", "overpaid",
                    "unpostable"} :
       /\ Review(reason) \in Match /\ Review(reason) # NoMatch
       /\ Review(reason) = Review("screening") => reason = "screening"
       /\ Review(reason) = Review("overpaid") => reason = "overpaid"
BY DEF NoMatch, Matched, Review, Match

LEMMA InitIInv == Init => IInv
<1> SUFFICES ASSUME Init PROVE IInv
  OBVIOUS
<1>1. Shape
  BY Matching DEF Init, Shape, ScreeningJob, MatchTx, Idle
<1>2. Screened /\ Locks
  BY DEF Init, Screened, Locks, NoResult, Idle
<1>3. Settled /\ Clean
  BY Matching DEF Init, Settled, Clean
<1> QED
  BY <1>1, <1>2, <1>3 DEF IInv

-----------------------------------------------------------------------------
(* What a step may change *)

\* A step of the screening changes no job that a deposit worker relies on.
LEMMA ScreeningKeeps ==
  ASSUME IInv, UNCHANGED <<matches, matcher>>,
         worker' \in [Screeners -> {None} \cup Events],
         job' \in [Events -> ScreeningJob],
         results' \in [Events -> SUBSET Decisions],
         \A e \in Events :
           /\ results[e] \subseteq results'[e]
           /\ job'[e].result.decision \in {"none"} \cup results'[e]
           /\ \/ /\ job'[e].status = job[e].status
                 /\ job'[e].result.decision = job[e].result.decision
              \/ matches[e] = NoMatch /\ ~Locked(e)
  PROVE  IInv'
<1>1. Shape' /\ Screened'
  BY DEF IInv, Shape, Screened
<1>2. Locks'
  <2>1. \A m \in Matchers : matcher[m].event # None =>
          matcher[m].event \in Events /\ Locked(matcher[m].event)
    BY DEF IInv, Shape, MatchTx, Locked
  <2> QED
    BY <2>1 DEF IInv, Locks
<1>3. Settled'
  BY DEF IInv, Settled
<1>4. Clean'
  BY DEF IInv, Clean
<1> QED
  BY <1>1, <1>2, <1>3, <1>4 DEF IInv

LEMMA OneJobKeeps ==
  ASSUME IInv, UNCHANGED <<matches, matcher>>,
         worker' \in [Screeners -> {None} \cup Events],
         NEW e \in Events, NEW j \in ScreeningJob,
         job' = [job EXCEPT ![e] = j],
         results' \in [Events -> SUBSET Decisions],
         \A d \in Events : results[d] \subseteq results'[d],
         j.result.decision \in {"none"} \cup results'[e],
         \/ j.status = job[e].status /\ j.result.decision = job[e].result.decision
         \/ matches[e] = NoMatch /\ ~Locked(e)
  PROVE  IInv'
<1>1. \A d \in Events : job'[d] = IF d = e THEN j ELSE job[d]
  BY DEF IInv, Shape
<1>2. job' \in [Events -> ScreeningJob]
  BY DEF IInv, Shape
<1>3. \A d \in Events :
        /\ job'[d].result.decision \in {"none"} \cup results'[d]
        /\ \/ /\ job'[d].status = job[d].status
              /\ job'[d].result.decision = job[d].result.decision
           \/ matches[d] = NoMatch /\ ~Locked(d)
  BY <1>1 DEF IInv, Screened
<1> QED
  BY <1>2, <1>3, ScreeningKeeps

\* A job that is being screened is neither locked nor closed.
LEMMA Processing ==
  ASSUME IInv, NEW e \in Events, job[e].status = "processing"
  PROVE  matches[e] = NoMatch /\ ~Locked(e)
BY NoneAssumption DEF IInv, Locks, Settled, Locked, Shape, MatchTx

-----------------------------------------------------------------------------
(* The screening worker *)

LEMMA ClaimKeeps ==
  ASSUME IInv, NEW w \in Screeners, NEW e \in Events, Claim(w, e) PROVE IInv'
<1>1. PICK found \in IF Undiscovered = {} THEN {{}} ELSE {{d} : d \in Undiscovered} :
        LET jobs == [x \in Events |-> IF x \in found
                      THEN [job[x] EXCEPT !.status = "pending"] ELSE job[x]]
        IN /\ Claimable(jobs[e])
           /\ job' = [jobs EXCEPT ![e].status = "processing", ![e].holder = w,
                                  ![e].live = TRUE]
  BY DEF Claim
<1>2. \A d \in found : matches[d] = NoMatch /\ job[d].status = "absent"
  BY <1>1 DEF Undiscovered
<1>3. PICK jobs : jobs = [x \in Events |-> IF x \in found
                     THEN [job[x] EXCEPT !.status = "pending"] ELSE job[x]]
  OBVIOUS
<1>4. \A d \in Events :
        /\ job[d] \in ScreeningJob /\ jobs[d] \in ScreeningJob
        /\ jobs[d].result = job[d].result
        /\ d \notin found => jobs[d] = job[d]
  <2> SUFFICES ASSUME NEW d \in Events
               PROVE  /\ job[d] \in ScreeningJob /\ jobs[d] \in ScreeningJob
                      /\ jobs[d].result = job[d].result
                      /\ d \notin found => jobs[d] = job[d]
    OBVIOUS
  <2>1. job[d] \in ScreeningJob
    BY DEF IInv, Shape
  <2>2. jobs[d] = IF d \in found THEN [job[d] EXCEPT !.status = "pending"] ELSE job[d]
    BY <1>3
  <2> QED
    BY <2>1, <2>2 DEF ScreeningJob
<1>5. PICK j : j = [jobs[e] EXCEPT !.status = "processing", !.holder = w, !.live = TRUE]
  OBVIOUS
<1>6. j \in ScreeningJob /\ j.result = job[e].result
  BY <1>4, <1>5 DEF ScreeningJob
<1>7. job' = [jobs EXCEPT ![e] = j]
  BY <1>1, <1>3, <1>5
<1>8. \A d \in Events : job'[d] = IF d = e THEN j ELSE jobs[d]
  BY <1>3, <1>7
<1>9. job' \in [Events -> ScreeningJob]
  BY <1>3, <1>4, <1>6, <1>7
<1>10. \A d \in Events : job'[d].result = job[d].result
  BY <1>4, <1>6, <1>8
<1>11. \A d \in Events :
         \/ job'[d].status = job[d].status
         \/ matches[d] = NoMatch /\ ~Locked(d)
  <2>1. \A d \in found : d \in Events => ~Locked(d)
    BY <1>2, NoneAssumption DEF IInv, Locks, Locked
  <2>2. matches[e] = NoMatch /\ ~Locked(e)
    BY DEF Claim
  <2> QED
    BY <1>2, <1>4, <1>8, <2>1, <2>2
<1>12. /\ UNCHANGED <<matches, matcher, results>>
       /\ worker' \in [Screeners -> {None} \cup Events]
  BY DEF Claim, books, IInv, Shape
<1>13. results' \in [Events -> SUBSET Decisions]
  BY <1>12 DEF IInv, Shape
<1>14. \A d \in Events :
         /\ results[d] \subseteq results'[d]
         /\ job'[d].result.decision \in {"none"} \cup results'[d]
  BY <1>10, <1>12 DEF IInv, Screened
<1> QED
  BY <1>9, <1>10, <1>11, <1>12, <1>13, <1>14, ScreeningKeeps

LEMMA CompleteKeeps ==
  ASSUME IInv, NEW w \in Screeners, Complete(w) PROVE IInv'
<1>1. PICK e : e = worker[w]
  OBVIOUS
<1>2. e \in Events /\ job[e] \in ScreeningJob /\ job[e].status = "processing"
  BY <1>1 DEF Complete, FencedLive, Fenced, IInv, Shape
<1>3. PICK d \in Decisions :
        /\ results' = [results EXCEPT ![e] = @ \cup {d}]
        /\ job' = [job EXCEPT ![e].status = "completed", ![e].live = FALSE,
                     ![e].holder = None, ![e].result = [decision |-> d, valid |-> TRUE]]
  BY <1>1 DEF Complete
<1>4. PICK j : j = [job[e] EXCEPT !.status = "completed", !.live = FALSE,
                      !.holder = None, !.result = [decision |-> d, valid |-> TRUE]]
  OBVIOUS
<1>5. j \in ScreeningJob /\ j.result.decision = d
  BY <1>2, <1>4 DEF ScreeningJob
<1>6. job' = [job EXCEPT ![e] = j]
  BY <1>3, <1>4
<1>7. results' \in [Events -> SUBSET Decisions]
  BY <1>2, <1>3 DEF IInv, Shape
<1>8. /\ \A x \in Events : results[x] \subseteq results'[x]
      /\ d \in results'[e]
  BY <1>2, <1>3 DEF IInv, Shape
<1>9. /\ UNCHANGED <<matches, matcher>>
      /\ worker' \in [Screeners -> {None} \cup Events]
  BY DEF Complete, books, IInv, Shape
<1> QED
  BY <1>2, <1>5, <1>6, <1>7, <1>8, <1>9, Processing, OneJobKeeps

\* A step that stores no result leaves what the job says of the sender.
LEMMA NoResultKeeps ==
  ASSUME IInv, UNCHANGED <<matches, matcher, results>>,
         worker' \in [Screeners -> {None} \cup Events],
         NEW e \in Events, NEW j \in ScreeningJob,
         job' = [job EXCEPT ![e] = j],
         j.result.decision = job[e].result.decision,
         j.status = job[e].status \/ job[e].status = "processing"
  PROVE  IInv'
<1>1. /\ results' \in [Events -> SUBSET Decisions]
      /\ j.result.decision \in {"none"} \cup results'[e]
  BY DEF IInv, Shape, Screened
<1> QED
  BY <1>1, Processing, OneJobKeeps

LEMMA ReleaseKeeps ==
  ASSUME IInv, NEW w \in Screeners, Release(w) PROVE IInv'
<1>1. /\ UNCHANGED <<matches, matcher, results>>
      /\ worker' \in [Screeners -> {None} \cup Events]
  BY DEF Release, books, IInv, Shape
<1>2. \A d \in Events : job[d] \in ScreeningJob
  BY DEF IInv, Shape
<1>3. PICK d : d = worker[w]
  OBVIOUS
<1>4. d \in Events /\ job[d].status = "processing"
  BY <1>3 DEF Release, Fenced, IInv, Shape
<1>5. PICK j : j = [job[d] EXCEPT !.status = "pending", !.live = FALSE, !.holder = None]
  OBVIOUS
<1>6. j \in ScreeningJob /\ j.result = job[d].result
  BY <1>2, <1>4, <1>5 DEF ScreeningJob
<1>7. job' = [job EXCEPT ![d] = j]
  BY <1>3, <1>5 DEF Release
<1> QED
  BY <1>1, <1>4, <1>6, <1>7, NoResultKeeps

LEMMA ExpiryKeeps ==
  ASSUME IInv, NEW e \in Events, LeaseExpires(e) \/ ResultExpires(e) PROVE IInv'
<1>1. /\ UNCHANGED <<matches, matcher, results>>
      /\ worker' \in [Screeners -> {None} \cup Events]
  BY DEF LeaseExpires, ResultExpires, books, IInv, Shape
<1>2. job[e] \in ScreeningJob
  BY DEF IInv, Shape
<1>3. CASE LeaseExpires(e)
  <2>1. PICK j : j = [job[e] EXCEPT !.live = FALSE]
    OBVIOUS
  <2>2. j \in ScreeningJob /\ j.result = job[e].result /\ j.status = job[e].status
    BY <1>2, <2>1 DEF ScreeningJob
  <2>3. job' = [job EXCEPT ![e] = j]
    BY <1>3, <2>1 DEF LeaseExpires
  <2> QED
    BY <1>1, <2>2, <2>3, NoResultKeeps
<1>4. CASE ResultExpires(e)
  <2>1. PICK y : y = [job[e].result EXCEPT !.valid = FALSE]
    OBVIOUS
  <2>2. PICK j : j = [job[e] EXCEPT !.result = y]
    OBVIOUS
  <2>3. job[e].result \in [decision : Decisions, valid : BOOLEAN]
    BY <1>2, <1>4 DEF ResultExpires, ScreeningJob, NoResult
  <2>4. /\ y \in [decision : Decisions, valid : BOOLEAN]
        /\ y.decision = job[e].result.decision
    BY <2>1, <2>3
  <2>5. j \in ScreeningJob /\ j.result = y /\ j.status = job[e].status
    BY <1>2, <2>2, <2>4 DEF ScreeningJob
  <2>6. job' = [job EXCEPT ![e] = j]
    BY <1>4, <2>1, <2>2 DEF ResultExpires
  <2> QED
    BY <1>1, <2>4, <2>5, <2>6, NoResultKeeps
<1> QED
  BY <1>3, <1>4

LEMMA WorkerKeeps ==
  ASSUME IInv, NEW w \in Screeners, LeaseLost(w) \/ Crash(w) PROVE IInv'
<1>1. /\ UNCHANGED <<job, results, matches, matcher>>
      /\ worker' \in [Screeners -> {None} \cup Events]
  BY DEF LeaseLost, Crash, books, IInv, Shape
<1> QED
  BY <1>1, ScreeningKeeps DEF IInv, Shape, Screened

-----------------------------------------------------------------------------
(* The deposit worker *)

LEMMA MatcherDone ==
  ASSUME IInv, NEW m \in Matchers, matcher' = [matcher EXCEPT ![m] = Idle]
  PROVE  /\ matcher' \in [Matchers -> MatchTx]
         /\ matcher'[m].event = None
         /\ \A n \in Matchers : n # m => matcher'[n] = matcher[n]
BY DEF IInv, Shape, MatchTx, Idle

LEMMA RollbackKeeps ==
  ASSUME IInv, NEW m \in Matchers, Rollback(m) PROVE IInv'
<1>1. UNCHANGED <<job, results, matches, worker>>
  BY DEF Rollback, books
<1>2. /\ matcher' \in [Matchers -> MatchTx] /\ matcher'[m].event = None
      /\ \A n \in Matchers : n # m => matcher'[n] = matcher[n]
  BY MatcherDone DEF Rollback
<1>3. Locks'
  BY <1>1, <1>2 DEF IInv, Locks
<1> QED
  BY <1>1, <1>2, <1>3 DEF IInv, Shape, Screened, Settled, Clean

LEMMA PickKeeps ==
  ASSUME IInv, NEW m \in Matchers, NEW e \in Events, Pick(m, e) PROVE IInv'
<1>1. PICK active \in BOOLEAN : matcher' = [matcher EXCEPT ![m] =
        [event |-> e, decision |-> job[e].result.decision, active |-> active]]
  BY DEF Pick
<1>2. PICK x : x = [event |-> e, decision |-> job[e].result.decision, active |-> active]
  OBVIOUS
<1>3. x \in MatchTx /\ x.event = e /\ x.decision = job[e].result.decision
  BY <1>2 DEF IInv, Shape, ScreeningJob, NoResult, MatchTx
<1>4. /\ matcher' \in [Matchers -> MatchTx]
      /\ \A n \in Matchers : matcher'[n] = IF n = m THEN x ELSE matcher[n]
  BY <1>1, <1>2, <1>3 DEF IInv, Shape
<1>5. UNCHANGED <<job, results, matches, worker>>
  BY DEF Pick, books
<1>6. /\ matches[e] = NoMatch /\ job[e].status = "completed"
      /\ \A n \in Matchers : matcher[n].event # e
  BY DEF Pick, Ready, Locked
<1>7. Locks'
  BY <1>3, <1>4, <1>5, <1>6 DEF IInv, Locks
<1> QED
  BY <1>4, <1>5, <1>7 DEF IInv, Shape, Screened, Settled, Clean

LEMMA SettleKeeps ==
  ASSUME IInv, NEW m \in Matchers, matcher[m].event # None,
         NEW match \in Match, Settle(m, match), match # NoMatch,
         match = Review("screening") => matcher[m].decision = "deny",
         match \in {Matched, Review("overpaid")} =>
           matcher[m].decision = "allow" /\ Time[matcher[m].event] = "within"
  PROVE  IInv'
<1>1. PICK e : e = matcher[m].event
  OBVIOUS
<1>2. /\ e \in Events /\ matches[e] = NoMatch
      /\ job[e].result.decision = matcher[m].decision
      /\ \A n \in Matchers : n # m => matcher[n].event # e
  BY <1>1 DEF IInv, Shape, MatchTx, Locks
<1>3. PICK j : j = [job[e] EXCEPT !.status = "closed"]
  OBVIOUS
<1>4. /\ j \in ScreeningJob /\ j.status = "closed"
      /\ j.result = job[e].result
  BY <1>2, <1>3 DEF IInv, Shape, ScreeningJob
<1>5. /\ job' = [job EXCEPT ![e] = j] /\ matches' = [matches EXCEPT ![e] = match]
      /\ matcher' = [matcher EXCEPT ![m] = Idle] /\ UNCHANGED <<results, worker>>
  BY <1>1, <1>3 DEF Settle
<1>6. \A d \in Events :
        /\ job'[d] = IF d = e THEN j ELSE job[d]
        /\ matches'[d] = IF d = e THEN match ELSE matches[d]
  BY <1>5 DEF IInv, Shape
<1>7. /\ matcher' \in [Matchers -> MatchTx] /\ matcher'[m].event = None
      /\ \A n \in Matchers : n # m => matcher'[n] = matcher[n]
  BY <1>5, MatcherDone
<1>8. Shape'
  BY <1>4, <1>5, <1>7 DEF IInv, Shape
<1>9. Screened'
  BY <1>4, <1>5, <1>6 DEF IInv, Screened
<1>10. Locks'
  <2>1. \A n \in Matchers : n # m /\ matcher[n].event # None =>
          matcher[n].event \in Events /\ matcher[n].event # e
    BY <1>2 DEF IInv, Shape, MatchTx
  <2> QED
    BY <1>6, <1>7, <2>1 DEF IInv, Locks
<1>11. Settled'
  BY <1>2, <1>4, <1>6 DEF IInv, Settled
<1>12. Clean'
  <2>1. matcher[m].decision = "allow" => "allow" \in results[e]
    BY <1>2 DEF IInv, Screened
  <2> QED
    BY <1>1, <1>5, <1>6, <2>1 DEF IInv, Clean
<1> QED
  BY <1>8, <1>9, <1>10, <1>11, <1>12 DEF IInv

LEMMA MatchNextKeeps ==
  ASSUME IInv, NEW m \in Matchers, MatchNext(m) PROVE IInv'
<1>1. matcher[m].event # None
  BY DEF MatchNext
<1>2. CASE Quarantine(m)
  BY <1>1, <1>2, Matching, SettleKeeps DEF Quarantine, SetAside
<1>3. CASE Refuse(m) \/ Unpostable(m)
  <2>1. PICK reason \in {"no_intent", "inactive", "outside", "unpostable"} :
          Settle(m, Review(reason))
    BY <1>3 DEF Refuse, Unpostable, SetAside
  <2>2. /\ Review(reason) \in Match
        /\ Review(reason) \notin {NoMatch, Matched, Review("screening"), Review("overpaid")}
    BY Matching DEF Review, Matched
  <2> QED
    BY <1>1, <2>1, <2>2, SettleKeeps
<1>4. ASSUME Acceptable(m)
      PROVE  matcher[m].decision = "allow" /\ Time[matcher[m].event] = "within"
  BY <1>4 DEF Acceptable, InWindow
<1>5. CASE PartialPayment(m) \/ ExactPayment(m)
  <2>1. Acceptable(m) /\ Settle(m, Matched)
    BY <1>5 DEF PartialPayment, ExactPayment
  <2> QED
    BY <1>1, <1>4, <2>1, Matching, SettleKeeps
<1>6. CASE Overpayment(m)
  <2>1. Acceptable(m) /\ Settle(m, Review("overpaid"))
    BY <1>6 DEF Overpayment
  <2> QED
    BY <1>1, <1>4, <2>1, Matching, SettleKeeps
<1> QED
  BY <1>2, <1>3, <1>5, <1>6 DEF MatchNext

-----------------------------------------------------------------------------
(* The theorems *)

LEMMA NextIInv == IInv /\ [Next]_vars => IInv'
<1> SUFFICES ASSUME IInv, [Next]_vars PROVE IInv'
  OBVIOUS
<1>1. ASSUME UNCHANGED <<job, results, matches, worker, matcher>> PROVE IInv'
  BY <1>1 DEF IInv, Shape, Screened, Locks, Settled, Clean
<1>2. ASSUME NEW e \in Events, Index(e) \/ LeaseExpires(e) \/ ResultExpires(e)
      PROVE  IInv'
  BY <1>1, <1>2, ExpiryKeeps DEF Index, books
<1>3. ASSUME NEW w \in Screeners, NEW e \in Events, Claim(w, e) PROVE IInv'
  BY <1>3, ClaimKeeps
<1>4. ASSUME NEW w \in Screeners, WorkerStep(w) \/ Release(w) \/ Crash(w)
      PROVE  IInv'
  BY <1>4, CompleteKeeps, ReleaseKeeps, WorkerKeeps DEF WorkerStep
<1>5. ASSUME NEW m \in Matchers, NEW e \in Events, Pick(m, e) PROVE IInv'
  BY <1>5, PickKeeps
<1>6. ASSUME NEW m \in Matchers, MatchNext(m) \/ Rollback(m) PROVE IInv'
  BY <1>6, MatchNextKeeps, RollbackKeeps
<1>7. ASSUME NEW a \in Addresses, CreateIntent(a) \/ BecomesDue(a) PROVE IInv'
  BY <1>1, <1>7 DEF CreateIntent, BecomesDue
<1>8. CASE ExpireDue \/ UNCHANGED vars
  BY <1>1, <1>8 DEF ExpireDue, vars
<1> QED
  BY <1>2, <1>3, <1>4, <1>5, <1>6, <1>7, <1>8 DEF Next

LEMMA Invariant == Spec => []IInv
BY InitIInv, NextIInv, PTL DEF Spec

\* No money counts for an intent unless it was sent in time by an allowed sender,
\* and none that counts is shown to the operators as held back.
THEOREM OnlyCleanMoneyCountsAlways == Spec => []OnlyCleanMoneyCounts
<1>1. IInv => OnlyCleanMoneyCounts
  BY Matching DEF IInv, Clean, OnlyCleanMoneyCounts, ListInboundActionRequired
<1> QED
  BY <1>1, Invariant, PTL

\* Neither another deposit worker nor a late screening touches a settled transfer.
LEMMA SettledStays ==
  ASSUME IInv, Next, NEW e \in Events, matches[e] # NoMatch
  PROVE  matches'[e] = matches[e] /\ results'[e] = results[e]
<1>1. job[e].status = "closed" /\ ~Locked(e)
  BY NoneAssumption DEF IInv, Settled, Locks, Locked
<1>2. ASSUME NEW w \in Screeners, Complete(w) PROVE worker[w] # e
  BY <1>1, <1>2 DEF Complete, FencedLive, Fenced
<1>3. ASSUME NEW w \in Screeners, Complete(w)
      PROVE  matches'[e] = matches[e] /\ results'[e] = results[e]
  BY <1>2, <1>3 DEF Complete, books, IInv, Shape
<1>4. ASSUME NEW m \in Matchers, MatchNext(m)
      PROVE  matches'[e] = matches[e] /\ results'[e] = results[e]
  <2>1. PICK match : Settle(m, match)
    BY <1>4 DEF MatchNext, Quarantine, Refuse, PartialPayment, Overpayment,
                Unpostable, ExactPayment, SetAside
  <2>2. matcher[m].event # e
    BY <1>1 DEF Locked
  <2> QED
    BY <2>1, <2>2 DEF Settle, IInv, Shape
<1>5. ASSUME UNCHANGED <<matches, results>>
      PROVE  matches'[e] = matches[e] /\ results'[e] = results[e]
  BY <1>5
<1>6. ASSUME NEW d \in Events,
             \/ Index(d) \/ LeaseExpires(d) \/ ResultExpires(d)
             \/ \E w \in Screeners : Claim(w, d)
             \/ \E m \in Matchers : Pick(m, d)
      PROVE  UNCHANGED <<matches, results>>
  BY <1>6 DEF Index, LeaseExpires, ResultExpires, Claim, Pick, books
<1>7. ASSUME NEW w \in Screeners, LeaseLost(w) \/ Release(w) \/ Crash(w)
      PROVE  UNCHANGED <<matches, results>>
  BY <1>7 DEF LeaseLost, Release, Crash, books
<1>8. ASSUME NEW m \in Matchers, Rollback(m) PROVE UNCHANGED <<matches, results>>
  BY <1>8 DEF Rollback, books
<1>9. ASSUME NEW a \in Addresses, CreateIntent(a) \/ BecomesDue(a)
      PROVE  UNCHANGED <<matches, results>>
  BY <1>9 DEF CreateIntent, BecomesDue
<1>10. ExpireDue => UNCHANGED <<matches, results>>
  BY DEF ExpireDue
<1> QED
  BY <1>3, <1>4, <1>5, <1>6, <1>7, <1>8, <1>9, <1>10 DEF Next, WorkerStep

\* A settlement is final: it keeps its reason, and money held back for its sender
\* stays on the operators' list.
THEOREM SettledOnceAlways == Spec => SettledOnce
<1>1. ASSUME IInv, IInv', [Next]_vars
      PROVE  [\A e \in Events :
                matches[e] # NoMatch =>
                  /\ matches'[e] = matches[e]
                  /\ results'[e] = results[e]
                  /\ job'[e].status = "closed"
                  /\ matches[e] = Review("screening") =>
                       e \in ListInboundActionRequired']_vars
  <2> SUFFICES ASSUME Next, NEW e \in Events, matches[e] # NoMatch
               PROVE  /\ matches'[e] = matches[e]
                      /\ results'[e] = results[e]
                      /\ job'[e].status = "closed"
                      /\ matches[e] = Review("screening") =>
                           e \in ListInboundActionRequired'
    BY <1>1
  <2>1. matches'[e] = matches[e] /\ results'[e] = results[e]
    BY <1>1, SettledStays
  <2>2. /\ job'[e].status = "closed"
        /\ matches'[e] = Review("screening") => job'[e].result.decision = "deny"
    BY <1>1, <2>1 DEF IInv, Settled, NoMatch
  <2> QED
    BY <2>1, <2>2 DEF ListInboundActionRequired
<1> QED
  BY <1>1, Invariant, PTL DEF Spec, SettledOnce

-----------------------------------------------------------------------------
(***************************************************************************)
(* The money.  CreditedOnce is not inductive: that an intent paid exactly  *)
(* is credited rests on what it has received being matched money until     *)
(* then, and on the sum being what it has received.                        *)
(***************************************************************************)

\* The transfers that count for an intent, and those that pay it.
Counted(a) == {e \in Events : /\ To[e] = a
                              /\ \/ matches[e] = Matched
                                 \/ matches[e] = Review("overpaid")}
Paying(a) == {e \in Events : To[e] = a /\ matches[e] = Matched}
Posted(a) == {p \in journal : p.intent = a}

\* An intent is credited in the tables: by one posting of its amount and one event.
Credited(a) ==
  /\ intent[a].credited
  /\ Posted(a) = {Posting(a, Expected[a])}
  /\ outbox[a] = 1
Uncredited(a) == ~intent[a].credited /\ Posted(a) = {} /\ outbox[a] = 0

\* All that was received was matched until it was enough.
Money(a) ==
  /\ Summable(Amount, Counted(a)) /\ Summable(Amount, Paying(a))
  /\ intent[a].received = SumOf(Amount, Counted(a))
  /\ intent[a].received < Expected[a] => Counted(a) = Paying(a)
  /\ IF SumOf(Amount, Paying(a)) = Expected[a] THEN Credited(a) ELSE Uncredited(a)

Books ==
  /\ intent \in [Addresses -> Intent]
  /\ outbox \in [Addresses -> Nat]
  /\ journal \subseteq [intent : Addresses, amount : Nat]
  /\ \A a \in Addresses : AmountCheck(a) /\ Money(a)

LEMMA InitBooks == Init => Books
<1> SUFFICES ASSUME Init PROVE Books
  OBVIOUS
<1>1. \A a \in Addresses : Counted(a) = {} /\ Paying(a) = {} /\ Posted(a) = {}
  BY Matching DEF Init, Counted, Paying, Posted
<1>2. Summable(Amount, {}) /\ SumOf(Amount, {}) = 0
  BY SumEmpty, FS_EmptySet DEF Summable
<1>3. ASSUME NEW a \in Addresses PROVE AmountCheck(a) /\ Money(a)
  <2>1. Expected[a] \in Nat \ {0}
    BY IntentAssumption
  <2>2. intent[a].received = 0 /\ ~intent[a].credited /\ intent[a].status = "absent"
        /\ outbox[a] = 0
    BY DEF Init
  <2>3. AmountCheck(a)
    BY <2>1, <2>2 DEF AmountCheck
  <2> QED
    BY <1>1, <1>2, <2>1, <2>2, <2>3 DEF Money, Uncredited
<1>4. /\ intent \in [Addresses -> Intent] /\ outbox \in [Addresses -> Nat]
      /\ journal \subseteq [intent : Addresses, amount : Nat]
  BY DEF Init, Intent
<1> QED
  BY <1>3, <1>4 DEF Books

\* A step that leaves what an intent counts and was posted leaves its money.
LEMMA MoneyStays ==
  ASSUME Books, NEW a \in Addresses,
         UNCHANGED <<Counted(a), Paying(a), Posted(a)>>,
         outbox'[a] = outbox[a],
         intent'[a].received = intent[a].received,
         intent'[a].credited = intent[a].credited
  PROVE  Money(a)'
<1>1. Money(a)
  BY DEF Books
<1>2. SumOf(Amount, Counted(a)') = SumOf(Amount, Counted(a))
      /\ SumOf(Amount, Paying(a)') = SumOf(Amount, Paying(a))
  BY Zenon
<1> QED
  BY <1>1, <1>2 DEF Money, Credited, Uncredited

\* Status and due date of an intent are no part of its money.
LEMMA StatusKeeps ==
  ASSUME Books, UNCHANGED <<matches, journal, outbox>>,
         intent' \in [Addresses -> Intent],
         \A a \in Addresses :
           /\ intent'[a].received = intent[a].received
           /\ intent'[a].credited = intent[a].credited
           /\ AmountCheck(a)'
  PROVE  Books'
<1>1. ASSUME NEW a \in Addresses PROVE Money(a)'
  <2>1. UNCHANGED <<Counted(a), Paying(a), Posted(a)>>
    BY DEF Counted, Paying, Posted
  <2> QED
    BY <2>1, MoneyStays
<1> QED
  BY <1>1 DEF Books

LEMMA IntentStatusKeeps ==
  ASSUME Books, NEW a \in Addresses, CreateIntent(a) \/ BecomesDue(a)
  PROVE  Books'
<1>1. \A b \in Addresses : intent[b] \in Intent /\ AmountCheck(b)
  BY DEF Books
<1>2. PICK i : i = IF intent[a].status = "absent" /\ CreateIntent(a)
                   THEN [intent[a] EXCEPT !.status = "pending"]
                   ELSE [intent[a] EXCEPT !.due = TRUE]
  OBVIOUS
<1>3. intent' = [intent EXCEPT ![a] = i]
  BY <1>2 DEF CreateIntent, BecomesDue
<1>4. /\ i \in Intent /\ i.received = intent[a].received
      /\ i.credited = intent[a].credited
      /\ \/ i.status = intent[a].status
         \/ i.status = "pending" /\ intent[a].status = "absent"
  BY <1>1, <1>2 DEF Intent, Open
<1>5. \A b \in Addresses : intent'[b] = IF b = a THEN i ELSE intent[b]
  BY <1>3 DEF Books
<1>6. \A b \in Addresses : AmountCheck(b)'
  BY <1>1, <1>4, <1>5 DEF AmountCheck
<1>7. intent' \in [Addresses -> Intent]
  BY <1>3, <1>4 DEF Books
<1>8. UNCHANGED <<matches, journal, outbox>>
  BY DEF CreateIntent, BecomesDue
<1> QED
  BY <1>4, <1>5, <1>6, <1>7, <1>8, StatusKeeps

LEMMA ExpireDueKeeps ==
  ASSUME Books, ExpireDue PROVE Books'
<1>1. PICK batch \in SUBSET Due :
        intent' = [a \in Addresses |-> IF a \in batch
          THEN [intent[a] EXCEPT !.status =
                  IF intent[a].received = 0 THEN "expired" ELSE "underpaid"]
          ELSE intent[a]]
  BY DEF ExpireDue
<1>2. ASSUME NEW a \in Addresses
      PROVE  /\ intent'[a] \in Intent
             /\ intent'[a].received = intent[a].received
             /\ intent'[a].credited = intent[a].credited
             /\ AmountCheck(a)'
  <2>1. intent[a] \in Intent /\ AmountCheck(a)
    BY DEF Books
  <2>2. CASE a \in batch
    <3>1. PICK s \in {"expired", "underpaid"} :
            /\ s = IF intent[a].received = 0 THEN "expired" ELSE "underpaid"
            /\ intent'[a] = [intent[a] EXCEPT !.status = s]
      BY <1>1, <2>2
    <3>2. intent[a].status \in Open
      BY <1>1, <2>2 DEF Due
    <3>3. PICK i : i = intent'[a]
      OBVIOUS
    <3>4. /\ i \in Intent /\ i.received = intent[a].received
          /\ i.credited = intent[a].credited /\ i.status = s
      BY <2>1, <3>1, <3>3 DEF Intent, Closed
    <3>5. s = "expired" <=> intent[a].received = 0
      BY <3>1
    <3>6. AmountCheck(a)'
      BY <2>1, <3>1, <3>2, <3>3, <3>4, <3>5 DEF AmountCheck, Open
    <3> QED
      BY <3>3, <3>4, <3>6
  <2>3. CASE a \notin batch
    <3>1. intent'[a] = intent[a]
      BY <1>1, <2>3
    <3> QED
      BY <2>1, <3>1 DEF AmountCheck
  <2> QED
    BY <2>2, <2>3
<1>3. intent' \in [Addresses -> Intent]
  BY <1>1, <1>2
<1>4. UNCHANGED <<matches, journal, outbox>>
  BY DEF ExpireDue
<1> QED
  BY <1>2, <1>3, <1>4, StatusKeeps

\* A step that settles a transfer of one intent leaves the others.
LEMMA OneIntentKeeps ==
  ASSUME Books, NEW a \in Addresses, NEW i \in Intent,
         intent' = [intent EXCEPT ![a] = i],
         outbox' \in [Addresses -> Nat],
         journal' \subseteq [intent : Addresses, amount : Nat],
         \A b \in Addresses : b # a =>
           /\ Counted(b)' = Counted(b) /\ Paying(b)' = Paying(b)
           /\ Posted(b)' = Posted(b) /\ outbox'[b] = outbox[b],
         AmountCheck(a)', Money(a)'
  PROVE  Books'
<1>1. \A b \in Addresses : intent'[b] = IF b = a THEN i ELSE intent[b]
  BY DEF Books
<1>2. intent' \in [Addresses -> Intent]
  BY DEF Books
<1>3. ASSUME NEW b \in Addresses, b # a PROVE AmountCheck(b)' /\ Money(b)'
  <2>1. intent'[b] = intent[b] /\ AmountCheck(b)
    BY <1>1, <1>3 DEF Books
  <2>2. AmountCheck(b)'
    BY <2>1 DEF AmountCheck
  <2>3. Money(b)'
    BY <1>3, <2>1, MoneyStays
  <2> QED
    BY <2>2, <2>3
<1> QED
  BY <1>2, <1>3 DEF Books

\* What a settlement adds to the sets of transfers.
LEMMA Counting ==
  ASSUME IInv, NEW e \in Events, matches[e] = NoMatch,
         NEW match, matches' = [matches EXCEPT ![e] = match], NEW a
  PROVE  /\ Counted(a)' = IF To[e] = a /\ match \in {Matched, Review("overpaid")}
                          THEN Counted(a) \cup {e} ELSE Counted(a)
         /\ Paying(a)' = IF To[e] = a /\ match = Matched
                         THEN Paying(a) \cup {e} ELSE Paying(a)
         /\ e \notin Counted(a) /\ e \notin Paying(a)
<1>1. \A d \in Events : matches'[d] = IF d = e THEN match ELSE matches[d]
  BY DEF IInv, Shape
<1>2. e \notin Counted(a) /\ e \notin Paying(a)
  BY Matching DEF Counted, Paying
<1> QED
  BY <1>1, <1>2 DEF Counted, Paying

\* The transfer that a deposit worker has locked.
LEMMA Incoming ==
  ASSUME IInv, Books, NEW m \in Matchers, matcher[m].event # None
  PROVE  /\ matcher[m].event \in Events /\ To[matcher[m].event] \in Addresses
         /\ matches[matcher[m].event] = NoMatch
         /\ Amount[matcher[m].event] \in Nat \ {0}
         /\ intent[To[matcher[m].event]].received \in Nat
         /\ intent[To[matcher[m].event]] \in Intent
         /\ Expected[To[matcher[m].event]] \in Nat \ {0}
<1>1. matcher[m].event \in Events /\ matches[matcher[m].event] = NoMatch
  BY DEF IInv, Shape, MatchTx, Locks
<1>2. To[matcher[m].event] \in Addresses
  BY <1>1, EventAssumption
<1> QED
  BY <1>1, <1>2, EventAssumption, IntentAssumption DEF Books, Intent

LEMMA SetAsideKeeps ==
  ASSUME IInv, Books, NEW m \in Matchers, matcher[m].event # None,
         NEW reason, SetAside(m, reason),
         Review(reason) \notin {Matched, Review("overpaid")}
  PROVE  Books'
<1>1. PICK e : e = matcher[m].event
  OBVIOUS
<1>2. /\ matches' = [matches EXCEPT ![e] = Review(reason)]
      /\ UNCHANGED <<intent, journal, outbox>>
  BY <1>1 DEF SetAside, Settle
<1>3. e \in Events /\ matches[e] = NoMatch
  BY <1>1, Incoming
<1>4. \A a \in Addresses : Counted(a)' = Counted(a) /\ Paying(a)' = Paying(a)
  BY <1>2, <1>3, Counting
<1>5. \A a \in Addresses : Money(a)'
  <2> SUFFICES ASSUME NEW a \in Addresses PROVE Money(a)'
    OBVIOUS
  <2>1. Posted(a)' = Posted(a)
    BY <1>2 DEF Posted
  <2> QED
    BY <1>2, <1>4, <2>1, MoneyStays
<1> QED
  BY <1>2, <1>5 DEF Books, AmountCheck

\* An accepted transfer is one more summand of what its intent has received.
LEMMA AcceptedCounts ==
  ASSUME IInv, Books, NEW m \in Matchers, matcher[m].event # None,
         NEW match \in {Matched, Review("overpaid")}, Settle(m, match),
         NEW a, a = To[matcher[m].event]
  PROVE  /\ Summable(Amount, Counted(a)') /\ Summable(Amount, Paying(a)')
         /\ SumOf(Amount, Counted(a)') = Received(m)
         /\ match = Matched /\ intent[a].received < Expected[a]
              => Counted(a)' = Paying(a)'
         /\ match # Matched => Paying(a)' = Paying(a)
<1>1. PICK e : e = matcher[m].event
  OBVIOUS
<1>2. matches' = [matches EXCEPT ![e] = match]
  BY <1>1 DEF Settle
<1>3. /\ e \in Events /\ matches[e] = NoMatch /\ a \in Addresses
      /\ Amount[e] \in Int
  BY <1>1, Incoming
<1>4. Money(a)
  BY <1>3 DEF Books
<1>5. /\ Counted(a)' = Counted(a) \cup {e} /\ e \notin Counted(a)
      /\ Paying(a)' = IF match = Matched THEN Paying(a) \cup {e} ELSE Paying(a)
      /\ e \notin Paying(a)
  BY <1>1, <1>2, <1>3, Counting
<1>6. /\ Summable(Amount, Counted(a) \cup {e})
      /\ SumOf(Amount, Counted(a) \cup {e}) = SumOf(Amount, Counted(a)) + Amount[e]
  BY <1>3, <1>4, <1>5, SumAdd DEF Money
<1>7. Summable(Amount, Paying(a) \cup {e})
  BY <1>3, <1>4, <1>5, SumAdd DEF Money
<1>8. SumOf(Amount, Counted(a)') = SumOf(Amount, Counted(a) \cup {e})
  BY <1>5, Zenon
<1>9. SumOf(Amount, Counted(a)') = Received(m)
  BY <1>1, <1>4, <1>6, <1>8 DEF Money, Received
<1> QED
  BY <1>4, <1>5, <1>6, <1>7, <1>9 DEF Money

LEMMA PartialPaymentKeeps ==
  ASSUME IInv, Books, NEW m \in Matchers, matcher[m].event # None, PartialPayment(m)
  PROVE  Books'
<1>1. PICK e, a : e = matcher[m].event /\ a = To[e]
  OBVIOUS
<1>2. /\ e \in Events /\ a \in Addresses /\ intent[a] \in Intent
      /\ intent[a].received \in Nat /\ Amount[e] \in Nat \ {0}
      /\ Expected[a] \in Nat \ {0} /\ matches[e] = NoMatch
  BY <1>1, Incoming
<1>3. PICK r : r = Received(m)
  OBVIOUS
<1>4. /\ r \in Nat \ {0} /\ r < Expected[a] /\ intent[a].received < r
      /\ intent[a].status # "absent"
  <2>1. Received(m) < Expected[a] /\ intent[a].status # "absent"
    BY <1>1 DEF PartialPayment, Acceptable
  <2>2. Received(m) = intent[a].received + Amount[e]
    BY <1>1 DEF Received
  <2> QED
    BY <1>2, <1>3, <2>1, <2>2
<1>5. PICK i : i = [intent[a] EXCEPT !.received = r, !.status = "partially_paid"]
  OBVIOUS
<1>6. /\ intent' = [intent EXCEPT ![a] = i]
      /\ Settle(m, Matched) /\ UNCHANGED <<journal, outbox>>
  BY <1>1, <1>3, <1>5 DEF PartialPayment
<1>7. /\ i \in Intent /\ i.received = r /\ i.status = "partially_paid"
      /\ i.credited = intent[a].credited
  BY <1>2, <1>4, <1>5 DEF Intent, Open
<1>8. intent'[a] = i
  BY <1>2, <1>6 DEF Books
<1>9. Uncredited(a)
  <2>1. SumOf(Amount, Paying(a)) = intent[a].received
    <3>1. Money(a) /\ Counted(a) = Paying(a)
      BY <1>2, <1>4 DEF Books, Money
    <3>2. SumOf(Amount, Paying(a)) = SumOf(Amount, Counted(a))
      BY <3>1, Zenon
    <3> QED
      BY <3>1, <3>2 DEF Money
  <2> QED
    BY <1>2, <1>4, <2>1 DEF Books, Money
<1>10. AmountCheck(a)'
  BY <1>2, <1>4, <1>7, <1>8, <1>9 DEF AmountCheck, Uncredited
<1>11. Money(a)'
  <2>1. /\ Summable(Amount, Counted(a)') /\ Summable(Amount, Paying(a)')
        /\ SumOf(Amount, Counted(a)') = r /\ Counted(a)' = Paying(a)'
    BY <1>1, <1>2, <1>3, <1>4, <1>6, AcceptedCounts
  <2>2. SumOf(Amount, Paying(a)') = SumOf(Amount, Counted(a)')
    BY <2>1, Zenon
  <2>3. Uncredited(a)'
    BY <1>6, <1>7, <1>8, <1>9 DEF Uncredited, Posted
  <2> QED
    BY <1>2, <1>4, <1>7, <1>8, <2>1, <2>2, <2>3 DEF Money
<1>12. \A b \in Addresses : b # a => Counted(b)' = Counted(b) /\ Paying(b)' = Paying(b)
  BY <1>1, <1>2, <1>6, Counting DEF Settle
<1>13. \A b \in Addresses : Posted(b)' = Posted(b) /\ outbox'[b] = outbox[b]
  BY <1>6 DEF Posted
<1>14. outbox' \in [Addresses -> Nat] /\ journal' \subseteq [intent : Addresses, amount : Nat]
  BY <1>6 DEF Books
<1> QED
  BY <1>2, <1>6, <1>7, <1>10, <1>11, <1>12, <1>13, <1>14, OneIntentKeeps

LEMMA OverpaymentKeeps ==
  ASSUME IInv, Books, NEW m \in Matchers, matcher[m].event # None, Overpayment(m)
  PROVE  Books'
<1>1. PICK e, a : e = matcher[m].event /\ a = To[e]
  OBVIOUS
<1>2. /\ e \in Events /\ a \in Addresses /\ intent[a] \in Intent
      /\ intent[a].received \in Nat /\ Amount[e] \in Nat \ {0}
      /\ Expected[a] \in Nat \ {0} /\ matches[e] = NoMatch
  BY <1>1, Incoming
<1>3. PICK r : r = Received(m)
  OBVIOUS
<1>4. r \in Nat \ {0} /\ r > Expected[a]
  <2>1. Received(m) > Expected[a]
    BY <1>1 DEF Overpayment
  <2>2. Received(m) = intent[a].received + Amount[e]
    BY <1>1 DEF Received
  <2> QED
    BY <1>2, <1>3, <2>1, <2>2
<1>5. PICK i : i = [intent[a] EXCEPT !.received = r, !.status = "overpaid"]
  OBVIOUS
<1>6. /\ intent' = [intent EXCEPT ![a] = i]
      /\ Settle(m, Review("overpaid")) /\ UNCHANGED <<journal, outbox>>
  BY <1>1, <1>3, <1>5 DEF Overpayment
<1>7. /\ i \in Intent /\ i.received = r /\ i.status = "overpaid"
      /\ i.credited = intent[a].credited
  BY <1>2, <1>4, <1>5 DEF Intent, Closed
<1>8. intent'[a] = i
  BY <1>2, <1>6 DEF Books
<1>9. AmountCheck(a)'
  BY <1>2, <1>4, <1>7, <1>8 DEF AmountCheck
<1>10. Money(a)'
  <2>1. /\ Summable(Amount, Counted(a)') /\ Summable(Amount, Paying(a)')
        /\ SumOf(Amount, Counted(a)') = r /\ Paying(a)' = Paying(a)
    BY <1>1, <1>2, <1>3, <1>6, AcceptedCounts, Matching
  <2>2. SumOf(Amount, Paying(a)') = SumOf(Amount, Paying(a))
    BY <2>1, Zenon
  <2>3. Money(a)
    BY <1>2 DEF Books
  <2>4. IF SumOf(Amount, Paying(a)') = Expected[a] THEN Credited(a)' ELSE Uncredited(a)'
    BY <1>6, <1>7, <1>8, <2>2, <2>3 DEF Money, Credited, Uncredited, Posted
  <2> QED
    BY <1>2, <1>4, <1>7, <1>8, <2>1, <2>4 DEF Money
<1>11. \A b \in Addresses : b # a => Counted(b)' = Counted(b) /\ Paying(b)' = Paying(b)
  BY <1>1, <1>2, <1>6, Counting DEF Settle
<1>12. \A b \in Addresses : Posted(b)' = Posted(b) /\ outbox'[b] = outbox[b]
  BY <1>6 DEF Posted
<1>13. outbox' \in [Addresses -> Nat] /\ journal' \subseteq [intent : Addresses, amount : Nat]
  BY <1>6 DEF Books
<1> QED
  BY <1>2, <1>6, <1>7, <1>9, <1>10, <1>11, <1>12, <1>13, OneIntentKeeps

\* The intent was not credited before: its sum of matched money was too small.
LEMMA ExactPaymentKeeps ==
  ASSUME IInv, Books, NEW m \in Matchers, matcher[m].event # None, ExactPayment(m)
  PROVE  Books'
<1>1. PICK e, a : e = matcher[m].event /\ a = To[e]
  OBVIOUS
<1>2. /\ e \in Events /\ a \in Addresses /\ intent[a] \in Intent
      /\ intent[a].received \in Nat /\ Amount[e] \in Nat \ {0}
      /\ Expected[a] \in Nat \ {0} /\ matches[e] = NoMatch
  BY <1>1, Incoming
<1>3. Received(m) = Expected[a] /\ intent[a].received < Expected[a]
  <2>1. Received(m) = Expected[a]
    BY <1>1 DEF ExactPayment
  <2>2. Received(m) = intent[a].received + Amount[e]
    BY <1>1 DEF Received
  <2> QED
    BY <1>2, <2>1, <2>2
<1>4. PICK i : i = [intent[a] EXCEPT !.received = Expected[a], !.status = "paid",
                                     !.credited = TRUE]
  OBVIOUS
<1>5. /\ intent' = [intent EXCEPT ![a] = i] /\ Settle(m, Matched)
      /\ journal' = journal \cup {Posting(a, Expected[a])}
      /\ outbox' = [outbox EXCEPT ![a] = @ + 1]
  BY <1>1, <1>3, <1>4 DEF ExactPayment
<1>6. /\ i \in Intent /\ i.received = Expected[a] /\ i.status = "paid" /\ i.credited
  BY <1>2, <1>4 DEF Intent, Closed
<1>7. intent'[a] = i
  BY <1>2, <1>5 DEF Books
<1>8. Uncredited(a)
  <2>1. SumOf(Amount, Paying(a)) = intent[a].received
    <3>1. Money(a) /\ Counted(a) = Paying(a)
      BY <1>2, <1>3 DEF Books, Money
    <3>2. SumOf(Amount, Paying(a)) = SumOf(Amount, Counted(a))
      BY <3>1, Zenon
    <3> QED
      BY <3>1, <3>2 DEF Money
  <2> QED
    BY <1>2, <1>3, <2>1 DEF Books, Money
<1>9. AmountCheck(a)'
  BY <1>2, <1>6, <1>7 DEF AmountCheck
<1>10. Money(a)'
  <2>1. /\ Summable(Amount, Counted(a)') /\ Summable(Amount, Paying(a)')
        /\ SumOf(Amount, Counted(a)') = Expected[a] /\ Counted(a)' = Paying(a)'
    BY <1>1, <1>2, <1>3, <1>5, AcceptedCounts
  <2>2. SumOf(Amount, Paying(a)') = SumOf(Amount, Counted(a)')
    BY <2>1, Zenon
  <2>3. Posted(a)' = {Posting(a, Expected[a])}
    BY <1>5, <1>8 DEF Uncredited, Posted, Posting
  <2>4. outbox'[a] = 1
    BY <1>2, <1>5, <1>8 DEF Uncredited, Books
  <2> QED
    BY <1>2, <1>6, <1>7, <2>1, <2>2, <2>3, <2>4 DEF Money, Credited
<1>11. \A b \in Addresses : b # a => Counted(b)' = Counted(b) /\ Paying(b)' = Paying(b)
  BY <1>1, <1>2, <1>5, Counting DEF Settle
<1>12. \A b \in Addresses : b # a => Posted(b)' = Posted(b) /\ outbox'[b] = outbox[b]
  BY <1>5 DEF Posted, Posting, Books
<1>13. outbox' \in [Addresses -> Nat] /\ journal' \subseteq [intent : Addresses, amount : Nat]
  BY <1>2, <1>5 DEF Books, Posting
<1> QED
  BY <1>2, <1>5, <1>6, <1>9, <1>10, <1>11, <1>12, <1>13, OneIntentKeeps

LEMMA NextBooks == IInv /\ Books /\ [Next]_vars => Books'
<1> SUFFICES ASSUME IInv, Books, [Next]_vars PROVE Books'
  OBVIOUS
<1>1. ASSUME UNCHANGED books PROVE Books'
  <2>1. UNCHANGED <<intent, matches, journal, outbox>>
    BY <1>1 DEF books
  <2>2. \A a \in Addresses : AmountCheck(a)'
    BY <2>1 DEF Books, AmountCheck
  <2> QED
    BY <2>1, <2>2, StatusKeeps DEF Books
<1>2. ASSUME NEW e \in Events,
             \/ Index(e) \/ LeaseExpires(e) \/ ResultExpires(e)
             \/ \E w \in Screeners : Claim(w, e)
             \/ \E m \in Matchers : Pick(m, e)
      PROVE  Books'
  BY <1>1, <1>2 DEF Index, LeaseExpires, ResultExpires, Claim, Pick
<1>3. ASSUME NEW w \in Screeners, WorkerStep(w) \/ Release(w) \/ Crash(w)
      PROVE  Books'
  BY <1>1, <1>3 DEF WorkerStep, Complete, LeaseLost, Release, Crash
<1>4. ASSUME NEW m \in Matchers, MatchNext(m) PROVE Books'
  <2>1. matcher[m].event # None
    BY <1>4 DEF MatchNext
  <2>2. CASE Quarantine(m) \/ Refuse(m) \/ Unpostable(m)
    <3>1. PICK reason \in {"screening", "no_intent", "inactive", "outside", "unpostable"} :
            SetAside(m, reason)
      BY <2>2 DEF Quarantine, Refuse, Unpostable
    <3>2. Review(reason) \notin {Matched, Review("overpaid")}
      BY DEF Review, Matched
    <3> QED
      BY <2>1, <3>1, <3>2, SetAsideKeeps
  <2> QED
    BY <1>4, <2>1, <2>2, PartialPaymentKeeps, OverpaymentKeeps, ExactPaymentKeeps
       DEF MatchNext
<1>5. ASSUME NEW m \in Matchers, Rollback(m) PROVE Books'
  BY <1>1, <1>5 DEF Rollback
<1>6. ASSUME NEW a \in Addresses, CreateIntent(a) \/ BecomesDue(a) PROVE Books'
  BY <1>6, IntentStatusKeeps
<1>7. CASE UNCHANGED vars
  BY <1>1, <1>7 DEF vars, books
<1> QED
  BY <1>2, <1>3, <1>4, <1>5, <1>6, <1>7, ExpireDueKeeps DEF Next

LEMMA BooksInvariant == Spec => []Books
BY InitBooks, NextBooks, Invariant, PTL DEF Spec

\* For any amounts and any order of transfers, an intent has received the sum of
\* the transfers that count for it.
THEOREM ReceivedIsMatchedAlways == Spec => []ReceivedIsMatched
<1>1. Books => ReceivedIsMatched
  BY DEF Books, Money, ReceivedIsMatched, Counted, Sum, SumOf
<1> QED
  BY <1>1, BooksInvariant, PTL

\* For any amounts, an intent is credited once, with its amount, exactly when the
\* matched transfers amount to it.
THEOREM CreditedOnceAlways == Spec => []CreditedOnce
<1>1. Books => CreditedOnce
  BY DEF Books, Money, CreditedOnce, Paying, Posted, Credited, Uncredited, Sum, SumOf
<1> QED
  BY <1>1, BooksInvariant, PTL
=============================================================================

------------------------------ MODULE Deposits ------------------------------
(***************************************************************************)
(* From an indexed transfer to the merchant's credit: the source address   *)
(* of every incoming transfer is screened, matched to the payment intent   *)
(* of its deposit address, and added up until the intent is paid exactly.  *)
(*                                                                         *)
(* An address has at most one intent, so an intent goes by its address.    *)
(* MatchNext is two steps: a statement that locks the event and its        *)
(* screening job and reads both, and everything after the lock of the      *)
(* intent, which commits at once.  Discovery and matching take the oldest  *)
(* row that nobody holds; here they take any, so no property rests on the  *)
(* order, which rollbacks and late screenings upset.                       *)
(*                                                                         *)
(* The status of an asset, merchant, address or ledger account is changed  *)
(* by hand and not by the program: each read of one may give any value.    *)
(* `live', `valid' and `holder' are as in PayoutReview.                    *)
(***************************************************************************)
EXTENDS Naturals, FiniteSets, FiniteSetsExt

CONSTANTS Addresses,  \* registered deposit addresses
          Expected,   \* the expected_amount of an address's intent
          Events,     \* transfers to the addresses
          To,         \* the address a transfer goes to
          Amount,     \* the amount of a transfer
          Chains,     \* bound: the sets of transfers that a chain carries
          Time,       \* where its block_time falls in the intent's window
          Screeners,  \* processes running the inbound screening worker
          Matchers,   \* processes running the deposit worker
          None        \* SQL NULL

ASSUME IntentAssumption == Expected \in [Addresses -> Nat \ {0}]
ASSUME EventAssumption ==
  /\ To \in [Events -> Addresses]
  /\ Amount \in [Events -> Nat \ {0}]
  /\ Time \in [Events -> {"before", "within", "after", "missing"}]
ASSUME ChainsAssumption == Chains \subseteq SUBSET Events
ASSUME NoneAssumption == None \notin Events \cup Screeners

VARIABLES indexed,   \* transfers in chain_events
          intent,    \* the rows of deposit_intents
          job,       \* the rows of deposit_screening_jobs
          results,   \* the decisions in deposit_screening_results
          matches,   \* the rows of deposit_event_matches
          journal,   \* posted deposit transactions
          outbox,    \* number of deposit.confirmed events of an intent
          worker,    \* the event each screening worker has claimed
          matcher    \* the open MatchNext of each deposit worker

vars == <<indexed, intent, job, results, matches, journal, outbox,
          worker, matcher>>
books == <<intent, matches, journal, outbox>>

-----------------------------------------------------------------------------
\* "deny" stands for "review" too: the matcher sets both aside.
Decisions == {"allow", "deny"}
NoResult == [decision |-> "none", valid |-> FALSE]
Open == {"pending", "partially_paid"}
Closed == {"expired", "underpaid", "paid", "overpaid"}

Intent == [status : {"absent"} \cup Open \cup Closed, received : Nat,
           credited : BOOLEAN, due : BOOLEAN]
ScreeningJob == [status : {"absent", "pending", "processing", "completed",
                           "closed"},
                 holder : {None} \cup Screeners, live : BOOLEAN,
                 result : {NoResult} \cup [decision : Decisions, valid : BOOLEAN]]
Match == [status : {"none", "matched", "review"},
          reason : {"none", "screening", "no_intent", "inactive", "outside",
                    "overpaid", "unpostable"}]
MatchTx == [event : {None} \cup Events, decision : {"none"} \cup Decisions,
            active : BOOLEAN]

NoMatch == [status |-> "none", reason |-> "none"]
Matched == [status |-> "matched", reason |-> "none"]
Review(reason) == [status |-> "review", reason |-> reason]
Idle == [event |-> None, decision |-> "none", active |-> FALSE]
Posting(a, amount) == [intent |-> a, amount |-> amount]

\* deposit_intents_amount_status_check and deposit_intents_credit_check.
AmountCheck(a) ==
  LET i == intent[a] IN
  /\ i.status \in {"absent", "pending", "expired"} <=> i.received = 0
  /\ i.status \in {"partially_paid", "underpaid"}
       <=> i.received \in 1 .. Expected[a] - 1
  /\ i.status = "paid" <=> i.received = Expected[a]
  /\ i.credited => i.received >= Expected[a]

TypeOK ==
  /\ indexed \subseteq Events
  /\ intent \in [Addresses -> Intent]
  /\ \A a \in Addresses : AmountCheck(a)
  /\ job \in [Events -> ScreeningJob]
  /\ results \in [Events -> SUBSET Decisions]
  /\ matches \in [Events -> Match]
  /\ \A e \in Events :
       /\ job[e].holder # None <=> job[e].status = "processing"
       /\ job[e].live => job[e].status = "processing"
       /\ job[e].status = "completed" => job[e].result # NoResult
       /\ matches[e].status = "review" <=> matches[e].reason # "none"
  /\ journal \subseteq [intent : Addresses, amount : Nat]
  /\ outbox \in [Addresses -> Nat]
  /\ worker \in [Screeners -> {None} \cup Events]
  /\ matcher \in [Matchers -> MatchTx]

Init ==
  /\ indexed = {}
  /\ intent = [a \in Addresses |-> [status |-> "absent", received |-> 0,
                                    credited |-> FALSE, due |-> FALSE]]
  /\ job = [e \in Events |-> [status |-> "absent", holder |-> None,
                              live |-> FALSE, result |-> NoResult]]
  /\ results = [e \in Events |-> {}]
  /\ matches = [e \in Events |-> NoMatch]
  /\ journal = {}
  /\ outbox = [a \in Addresses |-> 0]
  /\ worker = [w \in Screeners |-> None]
  /\ matcher = [m \in Matchers |-> Idle]

-----------------------------------------------------------------------------
(* The chain, the merchant and the clock *)

\* Nobody pays an intent, in time or late, before it has given out its address.
Index(e) ==
  /\ Time[e] \in {"within", "after"} => intent[To[e]].status # "absent"
  /\ \E chain \in Chains : indexed \cup {e} \subseteq chain
  /\ indexed' = indexed \cup {e}
  /\ UNCHANGED <<job, results, books, worker, matcher>>

CreateIntent(a) ==
  /\ intent[a].status = "absent"
  /\ intent' = [intent EXCEPT ![a].status = "pending"]
  /\ UNCHANGED <<indexed, job, results, matches, journal, outbox, worker, matcher>>

BecomesDue(a) ==
  /\ intent[a].status # "absent"
  /\ intent' = [intent EXCEPT ![a].due = TRUE]
  /\ UNCHANGED <<indexed, job, results, matches, journal, outbox, worker, matcher>>

-----------------------------------------------------------------------------
(* The inbound screening worker *)

Locked(e) == \E m \in Matchers : matcher[m].event = e

Undiscovered ==
  {e \in indexed : matches[e] = NoMatch /\ job[e].status = "absent"}

\* Mutant of Claimable: a job whose result ran out is not screened again.
ClaimableOnce(j) ==
  \/ j.status = "pending"
  \/ j.status = "processing" /\ ~j.live

Claimable(j) ==
  \/ j.status = "pending"
  \/ j.status = "processing" /\ ~j.live
  \/ j.status = "completed" /\ ~j.result.valid

\* A claim first makes a job of one transfer that has none, if there is one.
Claim(w, e) ==
  /\ worker[w] = None
  /\ \E found \in IF Undiscovered = {} THEN {{}} ELSE {{d} : d \in Undiscovered} :
       LET jobs == [x \in Events |-> IF x \in found
                     THEN [job[x] EXCEPT !.status = "pending"] ELSE job[x]]
       IN /\ Claimable(jobs[e])
          /\ job' = [jobs EXCEPT ![e].status = "processing", ![e].holder = w,
                                 ![e].live = TRUE]
  /\ matches[e] = NoMatch
  /\ ~Locked(e)
  /\ worker' = [worker EXCEPT ![w] = e]
  /\ UNCHANGED <<indexed, results, books, matcher>>

Fenced(w) == job[worker[w]].status = "processing" /\ job[worker[w]].holder = w
FencedLive(w) == Fenced(w) /\ job[worker[w]].live

\* The provider answers and the answer is stored while the lease lasts.
Complete(w) ==
  LET e == worker[w] IN
  /\ e # None
  /\ FencedLive(w)
  /\ \E d \in Decisions :
       /\ results' = [results EXCEPT ![e] = @ \cup {d}]
       /\ job' = [job EXCEPT ![e].status = "completed", ![e].live = FALSE,
                             ![e].holder = None, ![e].result = [decision |-> d, valid |-> TRUE]]
  /\ worker' = [worker EXCEPT ![w] = None]
  /\ UNCHANGED <<indexed, books, matcher>>

\* The provider fails.
Release(w) ==
  /\ worker[w] # None
  /\ Fenced(w)
  /\ job' = [job EXCEPT ![worker[w]].status = "pending",
                        ![worker[w]].live = FALSE, ![worker[w]].holder = None]
  /\ worker' = [worker EXCEPT ![w] = None]
  /\ UNCHANGED <<indexed, results, books, matcher>>

LeaseLost(w) ==
  /\ worker[w] # None
  /\ ~FencedLive(w)
  /\ worker' = [worker EXCEPT ![w] = None]
  /\ UNCHANGED <<indexed, job, results, books, matcher>>

Crash(w) ==
  /\ worker[w] # None
  /\ worker' = [worker EXCEPT ![w] = None]
  /\ UNCHANGED <<indexed, job, results, books, matcher>>

LeaseExpires(e) ==
  /\ job[e].live
  /\ job' = [job EXCEPT ![e].live = FALSE]
  /\ UNCHANGED <<indexed, results, books, worker, matcher>>

\* Of a closed job nobody asks.
ResultExpires(e) ==
  /\ job[e].status = "completed"
  /\ job[e].result.valid
  /\ job' = [job EXCEPT ![e].result.valid = FALSE]
  /\ UNCHANGED <<indexed, results, books, worker, matcher>>

\* What the operators are shown: money that is held back or about to be.
ListInboundActionRequired ==
  {e \in Events :
     /\ job[e].result.decision = "deny"
     /\ \/ matches[e] = NoMatch /\ job[e].status = "completed" /\ job[e].result.valid
        \/ matches[e] = Review("screening") /\ job[e].status = "closed"}

-----------------------------------------------------------------------------
(* The deposit worker *)

\* The locked job is read again, so what the snapshot saw of it still holds.
Ready(e) ==
  /\ matches[e] = NoMatch
  /\ job[e].status = "completed"
  /\ job[e].result.valid
  /\ ~Locked(e)

\* The first statement of MatchNext.
Pick(m, e) ==
  /\ matcher[m] = Idle
  /\ Ready(e)
  /\ \E active \in BOOLEAN :
       matcher' = [matcher EXCEPT ![m] =
         [event |-> e, decision |-> job[e].result.decision, active |-> active]]
  /\ UNCHANGED <<indexed, job, results, books, worker>>

\* Mutant of Settle: the screening job stays open.
SettleLeavesJob(m, match) ==
  /\ matches' = [matches EXCEPT ![matcher[m].event] = match]
  /\ matcher' = [matcher EXCEPT ![m] = Idle]
  /\ UNCHANGED <<indexed, job, results, worker>>

\* Every end of MatchNext records the match, closes the job and commits.
Settle(m, match) ==
  LET e == matcher[m].event IN
  /\ matches' = [matches EXCEPT ![e] = match]
  /\ job' = [job EXCEPT ![e].status = "closed"]
  /\ matcher' = [matcher EXCEPT ![m] = Idle]
  /\ UNCHANGED <<indexed, results, worker>>

SetAside(m, reason) ==
  Settle(m, Review(reason)) /\ UNCHANGED <<intent, journal, outbox>>

\* A denied transfer, or one that a person has to decide.
Quarantine(m) ==
  /\ matcher[m].decision = "deny"
  /\ SetAside(m, "screening")

\* Mutant of InWindow: only a transfer after the expiry is late.
InWindowUntilExpiry(e) == Time[e] \in {"before", "within"}

InWindow(e) == Time[e] = "within"

\* An allowed transfer that the intent cannot take.
Refuse(m) ==
  LET e == matcher[m].event IN
  /\ matcher[m].decision = "allow"
  /\ IF intent[To[e]].status = "absent" THEN SetAside(m, "no_intent")
     ELSE IF ~matcher[m].active THEN SetAside(m, "inactive")
     ELSE ~InWindow(e) /\ SetAside(m, "outside")

Acceptable(m) ==
  LET e == matcher[m].event IN
  /\ matcher[m].decision = "allow"
  /\ matcher[m].active
  /\ intent[To[e]].status # "absent"
  /\ InWindow(e)

\* Mutant of Received: earlier transfers are forgotten.
ReceivedAlone(m) == Amount[matcher[m].event]

Received(m) == intent[To[matcher[m].event]].received + Amount[matcher[m].event]

PartialPayment(m) ==
  LET a == To[matcher[m].event] IN
  /\ Acceptable(m)
  /\ Received(m) < Expected[a]
  /\ intent' = [intent EXCEPT ![a].received = Received(m),
                              ![a].status = "partially_paid"]
  /\ Settle(m, Matched)
  /\ UNCHANGED <<journal, outbox>>

\* The whole transfer is set aside, also what was missing of the amount.
Overpayment(m) ==
  LET a == To[matcher[m].event] IN
  /\ Acceptable(m)
  /\ Received(m) > Expected[a]
  /\ intent' = [intent EXCEPT ![a].received = Received(m),
                              ![a].status = "overpaid"]
  /\ Settle(m, Review("overpaid"))
  /\ UNCHANGED <<journal, outbox>>

\* No active ledger account, or an amount that the ledger cannot hold.
Unpostable(m) ==
  LET a == To[matcher[m].event] IN
  /\ Acceptable(m)
  /\ Received(m) = Expected[a]
  /\ SetAside(m, "unpostable")

\* Mutant of ExactPayment: the ledger gets the amount of the last transfer.
LastPayment(m) ==
  LET a == To[matcher[m].event] IN
  /\ Acceptable(m)
  /\ Received(m) = Expected[a]
  /\ ~intent[a].credited
  /\ journal' = journal \cup {Posting(a, Amount[matcher[m].event])}
  /\ outbox' = [outbox EXCEPT ![a] = @ + 1]
  /\ intent' = [intent EXCEPT ![a].received = Received(m),
                              ![a].status = "paid", ![a].credited = TRUE]
  /\ Settle(m, Matched)

ExactPayment(m) ==
  LET a == To[matcher[m].event] IN
  /\ Acceptable(m)
  /\ Received(m) = Expected[a]
  /\ ~intent[a].credited
  /\ journal' = journal \cup {Posting(a, Received(m))}
  /\ outbox' = [outbox EXCEPT ![a] = @ + 1]
  /\ intent' = [intent EXCEPT ![a].received = Received(m),
                              ![a].status = "paid", ![a].credited = TRUE]
  /\ Settle(m, Matched)

MatchNext(m) ==
  /\ matcher[m].event # None
  /\ matches[matcher[m].event] = NoMatch
  /\ job[matcher[m].event].status = "completed"
  /\ \/ Quarantine(m) \/ Refuse(m) \/ PartialPayment(m)
     \/ Overpayment(m) \/ Unpostable(m) \/ ExactPayment(m)

\* An error or a crash before the commit.
Rollback(m) ==
  /\ matcher[m].event # None
  /\ matcher' = [matcher EXCEPT ![m] = Idle]
  /\ UNCHANGED <<indexed, job, results, books, worker>>

\* Mutant of Due: an intent that was partly paid in time is left open.
DueUnpaid == {a \in Addresses : intent[a].due /\ intent[a].status = "pending"}

Due == {a \in Addresses : intent[a].due /\ intent[a].status \in Open}

\* One statement closes a batch of due intents.
ExpireDue ==
  \E batch \in SUBSET Due \ {{}} :
    /\ intent' = [a \in Addresses |-> IF a \in batch
         THEN [intent[a] EXCEPT !.status =
                 IF intent[a].received = 0 THEN "expired" ELSE "underpaid"]
         ELSE intent[a]]
    /\ UNCHANGED <<indexed, job, results, matches, journal, outbox,
                   worker, matcher>>

-----------------------------------------------------------------------------
WorkerStep(w) == Complete(w) \/ LeaseLost(w)

Next ==
  \/ \E e \in Events : Index(e) \/ LeaseExpires(e) \/ ResultExpires(e)
  \/ \E a \in Addresses : CreateIntent(a) \/ BecomesDue(a)
  \/ \E w \in Screeners, e \in Events : Claim(w, e)
  \/ \E w \in Screeners : WorkerStep(w) \/ Release(w) \/ Crash(w)
  \/ \E m \in Matchers, e \in Events : Pick(m, e)
  \/ \E m \in Matchers : MatchNext(m) \/ Rollback(m)
  \/ ExpireDue

Spec == Init /\ [][Next]_vars

(* Both workers poll without end and a lease runs out.  A claim makes its job  *)
(* the newest and the claims take the oldest; MatchNext takes the lowest block *)
(* and settles it for good: a row that is ready time and again gets its turn.  *)
FairSpec ==
  /\ Spec
  /\ \A w \in Screeners : WF_vars(WorkerStep(w))
  /\ \A m \in Matchers : WF_vars(MatchNext(m))
  /\ WF_vars(ExpireDue)
  /\ \A e \in Events : /\ SF_vars(\E w \in Screeners : Claim(w, e))
                       /\ SF_vars(\E m \in Matchers : Pick(m, e))
  /\ WF_vars(\E e \in Events : LeaseExpires(e))

Fault ==
  \/ \E w \in Screeners : (Release(w) \/ Crash(w)) /\ ~WorkerStep(w)
  \/ \E m \in Matchers : Rollback(m)
  \/ \E e \in Events : LeaseExpires(e) /\ worker[job[e].holder] = e

EventuallyHealthy == <>[][~Fault]_vars

-----------------------------------------------------------------------------
(* Safety *)

Sum(events) == MapThenSumSet(LAMBDA e : Amount[e], events)

\* What an intent has received is the sum of the transfers that count for it,
\* each of them once, in whatever order and by whichever workers they came.
ReceivedIsMatched ==
  \A a \in Addresses :
    intent[a].received =
      Sum({e \in Events : /\ To[e] = a
                          /\ \/ matches[e] = Matched
                             \/ matches[e] = Review("overpaid")})

\* The merchant is credited and notified once, with the expected amount, if and
\* only if the matched transfers amount to it; no overpayment takes that back.
CreditedOnce ==
  \A a \in Addresses :
    LET paid == Sum({e \in Events : To[e] = a /\ matches[e] = Matched})
        posted == {p \in journal : p.intent = a}
    IN IF paid = Expected[a]
       THEN /\ intent[a].credited
            /\ posted = {Posting(a, Expected[a])}
            /\ outbox[a] = 1
       ELSE ~intent[a].credited /\ posted = {} /\ outbox[a] = 0

\* Money counts for an intent only if its sender was allowed and it was sent
\* within the intent's window, and is not shown as money to be held back.
OnlyCleanMoneyCounts ==
  \A e \in Events :
    matches[e] = Matched \/ matches[e] = Review("overpaid") =>
      /\ Time[e] = "within"
      /\ "allow" \in results[e]
      /\ e \notin ListInboundActionRequired

\* A settled transfer stays as it was settled: its job is closed, and neither a
\* late screening nor another deposit worker decides it again, and what is held
\* back for its sender is shown to the operators from then on.
SettledOnce ==
  [][\A e \in Events :
       matches[e] # NoMatch =>
         /\ matches'[e] = matches[e]
         /\ results'[e] = results[e]
         /\ job'[e].status = "closed"
         /\ matches[e] = Review("screening") => e \in ListInboundActionRequired']_vars

(* Liveness *)

\* Once faults cease every indexed transfer is settled, also one whose screening
\* result ran out before it was matched.
IndexedIsSettled ==
  EventuallyHealthy =>
    <>[](\A e \in indexed : matches[e] # NoMatch)

\* Once faults cease a due intent gets a closed status, also one that a late
\* transfer reopens.  A MatchNext that fails keeps its worker from ExpireDue.
DueIsClosed ==
  EventuallyHealthy =>
    <>[](\A a \in Addresses : intent[a].due => intent[a].status \in Closed)
=============================================================================

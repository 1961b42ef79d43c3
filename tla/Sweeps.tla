-------------------------------- MODULE Sweeps --------------------------------
(***************************************************************************)
(* Sweeping a deposit address into the hot wallet: planning from a         *)
(* solidified balance snapshot, the screening that a plan needs, signing   *)
(* after a look at the balance, and execution.                             *)
(*                                                                         *)
(* Candidates, screening jobs, plans and claims concern one source wallet, *)
(* so the module follows one wallet.  A plan is unique for its snapshot    *)
(* run and goes by it, and so does its execution, which a trigger inserts  *)
(* with it.                                                                *)
(*                                                                         *)
(* PlanNext runs under REPEATABLE READ: all its statements see the         *)
(* database as of the first (BeginPlanning), and a conflict with a row     *)
(* that the snapshot does not show aborts it.  The plan is inserted        *)
(* (InsertPlan) and appears at the commit (CommitPlan).  An insert holds   *)
(* the lock of the wallet's row until then, and skips a locked one; a lock *)
(* of the past does not abort a younger snapshot, for the row is never     *)
(* changed.  Only the validity of a screening result is compared with the  *)
(* clock as the transaction goes on.  Leases, due times and the two reads  *)
(* of a confirmation are as in PayoutExecution.                            *)
(*                                                                         *)
(* Two variables are history, for the properties: `missed', the sweeps     *)
(* that moved and that a round did not see before it asked for the head,   *)
(* and `blind', the plans committed by a planner whose snapshot did not    *)
(* show every plan committed before.                                       *)
(***************************************************************************)
EXTENDS Integers, Sequences, FiniteSets, FiniteSetsExt

CONSTANTS Events,          \* transfers to the wallet
          Amount,          \* the amount of each
          Runs,            \* snapshot runs, numbered by captured_at
          Minimum,         \* MinimumAmount of the policy
          Planners, Screeners, Signers, Executors,  \* processes of each kind
          None             \* SQL NULL

Workers == Screeners \cup Signers \cup Executors

ASSUME AmountAssumption == Amount \in [Events -> Nat \ {0}] /\ Minimum \in Nat \ {0}
ASSUME NamesAssumption ==
  /\ Runs \subseteq Nat
  /\ Events \cap Runs = {}
  /\ None \notin Runs \cup Workers
  /\ Screeners \cap Signers = {} /\ Executors \cap (Screeners \cup Signers) = {}

VARIABLES chain,    \* solidified transfers in and out, a block each
          cursor,   \* blocks that the indexer has stored
          settled,  \* how each transfer was screened and matched
          run,      \* wallet_balance_snapshot_runs
          job,      \* sweep_screening_jobs
          sweep,    \* sweep_plans and sweep_executions
          tx,       \* the signed transaction of each plan
          planner,  \* the open PlanNext of each planner
          worker,   \* what each other process is doing
          missed,   \* history: see BehindTransaction and Solidify
          blind     \* history: see CommitPlan

history == <<missed, blind>>
vars == <<chain, cursor, settled, run, job, sweep, tx, planner, worker, history>>
outside == <<chain, cursor, settled, run>>

-----------------------------------------------------------------------------
Decisions == {"allow", "deny"}
Terminal == {"succeeded", "failed"}
Open == {"planned", "ready_for_broadcast", "confirming"}
NoResult == [decision |-> "none", valid |-> FALSE]

Run == [height : Nat, saved : BOOLEAN, recent : BOOLEAN]
ScreeningJob == [status : {"absent", "pending", "processing", "completed"},
                 holder : {None} \cup Screeners, live : BOOLEAN,
                 result : {NoResult} \cup [decision : Decisions, valid : BOOLEAN]]
Execution == [status : {"absent"} \cup Open \cup Terminal, amount : Nat,
              holder : {None} \cup Signers \cup Executors,
              live : BOOLEAN, due : BOOLEAN]
Transaction == [window : {"unsigned", "fresh", "final"}, sent : BOOLEAN,
                place : {"none", "moved", "reverted"}]
Planning == [run : {None} \cup Runs, allowed : BOOLEAN, inserted : BOOLEAN,
             plans : SUBSET Runs]
Job == [at : {"idle", "screen", "observe", "sign", "store", "release",
              "broadcast", "sent", "query", "head", "rebroadcast", "later",
              "success", "failure"},
        run : {None} \cup Runs]

Idle == [at |-> "idle", run |-> None]
NotPlanning == [run |-> None, allowed |-> FALSE, inserted |-> FALSE, plans |-> {}]

\* sweep_executions_lease_check and sweep_executions_state_check.
ExecutionCheck(r) ==
  /\ sweep[r].live => sweep[r].status \in Open
  /\ sweep[r].due => sweep[r].status = "confirming"
  /\ sweep[r].status = "absent" <=> sweep[r].amount = 0
  /\ sweep[r].status \in {"ready_for_broadcast", "confirming"} \cup Terminal =>
       tx[r].window # "unsigned"

\* The rows keep their types and CHECK constraints, and no process works on a
\* sweep that is not there.
TypeOK ==
  /\ chain \in Seq(Events \cup Runs)
  /\ cursor \in 0 .. Len(chain)
  /\ settled \in [Events -> {"no", "clean", "dirty"}]
  /\ run \in [Runs -> Run]
  /\ job \in [Runs -> ScreeningJob]
  /\ sweep \in [Runs -> Execution]
  /\ tx \in [Runs -> Transaction]
  /\ \A r \in Runs : ExecutionCheck(r)
  /\ planner \in [Planners -> Planning]
  /\ worker \in [Workers -> Job]
  /\ \A w \in Signers \cup Executors :
       worker[w] # Idle => sweep[worker[w].run].status # "absent"
  /\ missed \subseteq Runs /\ blind \subseteq Runs

Init ==
  /\ chain = <<>> /\ cursor = 0
  /\ settled = [e \in Events |-> "no"]
  /\ run = [r \in Runs |-> [height |-> 0, saved |-> FALSE, recent |-> FALSE]]
  /\ job = [r \in Runs |-> [status |-> "absent", holder |-> None,
                            live |-> FALSE, result |-> NoResult]]
  /\ sweep = [r \in Runs |-> [status |-> "absent", amount |-> 0, holder |-> None,
                              live |-> FALSE, due |-> FALSE]]
  /\ tx = [r \in Runs |-> [window |-> "unsigned", sent |-> FALSE, place |-> "none"]]
  /\ planner = [n \in Planners |-> NotPlanning]
  /\ worker = [w \in Workers |-> Idle]
  /\ missed = {} /\ blind = {}

-----------------------------------------------------------------------------
(* Deposits, the indexer, the matcher and the snapshots *)

Upto(h) == {chain[i] : i \in 1 .. h}
Received(h) == MapThenSumSet(LAMBDA e : Amount[e], Events \cap Upto(h))
PlanAmount(runs) == MapThenSumSet(LAMBDA r : sweep[r].amount, runs)
Balance(h) == Received(h) - PlanAmount(Runs \cap Upto(h))

Arrive(e) ==
  /\ e \notin Upto(Len(chain))
  /\ chain' = Append(chain, e)
  /\ UNCHANGED <<cursor, settled, run, job, sweep, tx, planner, worker, history>>

IndexBlock ==
  /\ cursor < Len(chain)
  /\ cursor' = cursor + 1
  /\ UNCHANGED <<chain, settled, run, job, sweep, tx, planner, worker, history>>

\* Clean: the job is closed with an allow valid at the match to this wallet.
SettleDeposit(e, verdict) ==
  /\ e \in Upto(cursor)
  /\ settled[e] = "no"
  /\ settled' = [settled EXCEPT ![e] = verdict]
  /\ UNCHANGED <<chain, cursor, run, job, sweep, tx, planner, worker, history>>

\* The head has moved on, or not, when the snapshot is saved.
SaveSnapshot(r, h) ==
  /\ ~run[r].saved
  /\ \A q \in Runs : q < r => run[q].saved
  /\ run' = [run EXCEPT ![r] = [height |-> h, saved |-> TRUE, recent |-> TRUE]]
  /\ UNCHANGED <<chain, cursor, settled, job, sweep, tx, planner, worker, history>>

\* captured_at falls behind MaxSnapshotAge.
SnapshotAges(r) ==
  /\ run[r].recent
  /\ run' = [run EXCEPT ![r].recent = FALSE]
  /\ UNCHANGED <<chain, cursor, settled, job, sweep, tx, planner, worker, history>>

-----------------------------------------------------------------------------
(* The planner *)

Planned == {r \in Runs : sweep[r].status # "absent"}
OpenSweeps == {r \in Runs : sweep[r].status \in Open}
Succeeded == {r \in Runs : sweep[r].status = "succeeded"}

\* ORDER BY block_height DESC, captured_at DESC.
Latest(r) ==
  /\ run[r].recent
  /\ \A q \in Runs : run[q].recent =>
       \/ run[q].height < run[r].height
       \/ run[q].height = run[r].height /\ q <= r

\* Mutant of Candidate: an open sweep of the wallet does not matter.
CandidateAnyway(r) ==
  LET h == run[r].height IN
  /\ cursor >= h
  /\ Balance(h) >= Minimum
  /\ \A e \in Events \cap Upto(h) : settled[e] = "clean"
  /\ Balance(h) = Received(h) - PlanAmount(Succeeded)

\* Mutant of Candidate: the balance only is looked at, not where it came from.
CandidateUnexplained(r) ==
  LET h == run[r].height IN
  /\ cursor >= h
  /\ Balance(h) >= Minimum
  /\ OpenSweeps = {}

Candidate(r) ==
  LET h == run[r].height IN
  /\ cursor >= h
  /\ Balance(h) >= Minimum
  /\ OpenSweeps = {}
  /\ Events \cap Upto(h) # {}
  /\ \A e \in Events \cap Upto(h) : settled[e] = "clean"
  /\ Balance(h) = Received(h) - PlanAmount(Succeeded)

\* The transaction takes its snapshot; without a candidate it changes nothing.
BeginPlanning(n, r) ==
  /\ planner[n] = NotPlanning
  /\ Latest(r)
  /\ Candidate(r)
  /\ planner' = [planner EXCEPT ![n] =
       [run |-> r,
        allowed |-> job[r].status = "completed"
                      /\ job[r].result = [decision |-> "allow", valid |-> TRUE],
        inserted |-> FALSE,
        plans |-> Planned]]
  /\ UNCHANGED <<outside, job, sweep, tx, worker, history>>

EndPlanning(n) == planner' = [planner EXCEPT ![n] = NotPlanning]

\* FOR UPDATE OF source SKIP LOCKED: no open transaction has inserted.
WalletUnlocked == \A n \in Planners : ~planner[n].inserted

\* ErrScreeningPending, and the job is committed.
PrepareScreening(n) ==
  LET r == planner[n].run IN
  /\ r # None
  /\ WalletUnlocked
  /\ job[r].status = "absent"
  /\ job' = [job EXCEPT ![r].status = "pending"]
  /\ EndPlanning(n)
  /\ UNCHANGED <<outside, sweep, tx, worker, history>>

InsertPlan(n) ==
  LET r == planner[n].run IN
  /\ r # None
  /\ WalletUnlocked
  /\ planner[n].allowed
  /\ sweep[r].status = "absent"
  /\ planner' = [planner EXCEPT ![n].inserted = TRUE]
  /\ UNCHANGED <<outside, job, sweep, tx, worker, history>>

CommitPlan(n) ==
  LET r == planner[n].run IN
  /\ planner[n].inserted
  /\ sweep' = [sweep EXCEPT ![r].status = "planned",
                            ![r].amount = Balance(run[r].height)]
  /\ blind' = IF planner[n].plans = Planned THEN blind ELSE blind \cup {r}
  /\ EndPlanning(n)
  /\ UNCHANGED <<outside, job, tx, worker, missed>>

\* The screening is open, blocked or expired, another planner holds the wallet
\* or came first (40001), or the transaction fails.
NoPlan(n) ==
  /\ planner[n] # NotPlanning
  /\ EndPlanning(n)
  /\ UNCHANGED <<outside, job, sweep, tx, worker, history>>

-----------------------------------------------------------------------------
(* Claims and fences *)

Take(w, at, r) == worker' = [worker EXCEPT ![w] = [Idle EXCEPT !.at = at, !.run = r]]
Goto(w, at) == worker' = [worker EXCEPT ![w].at = at]
Done(w) == worker' = [worker EXCEPT ![w] = Idle]
At(w, at) == worker[w].at = at

\* A row is claimed under a new lease epoch, which its holder stands for.
Leased(row, w) == [row EXCEPT !.holder = w, !.live = TRUE]
Unleased(row) == [row EXCEPT !.live = FALSE, !.holder = None]

Fenced(w, status) ==
  LET row == sweep[worker[w].run] IN row.status = status /\ row.holder = w
FencedLive(w, status) == Fenced(w, status) /\ sweep[worker[w].run].live

-----------------------------------------------------------------------------
(* The sweep screening worker *)

Claimable(r) ==
  \/ job[r].status = "pending"
  \/ job[r].status = "processing" /\ ~job[r].live
  \/ job[r].status = "completed" /\ ~job[r].result.valid

ClaimScreening(w, r) ==
  /\ At(w, "idle")
  /\ sweep[r].status = "absent"
  /\ Claimable(r)
  /\ job' = [job EXCEPT ![r] = [Leased(@, w) EXCEPT !.status = "processing"]]
  /\ Take(w, "screen", r)
  /\ UNCHANGED <<outside, sweep, tx, planner, history>>

\* The provider answers, and the answer is stored while the lease lasts.
CompleteScreening(w) ==
  LET r == worker[w].run IN
  /\ At(w, "screen")
  /\ job[r].status = "processing" /\ job[r].holder = w /\ job[r].live
  /\ \E d \in Decisions :
       job' = [job EXCEPT ![r] = [Unleased(@) EXCEPT !.status = "completed",
                                   !.result = [decision |-> d, valid |-> TRUE]]]
  /\ Done(w)
  /\ UNCHANGED <<outside, sweep, tx, planner, history>>

\* The provider fails.
ReleaseScreening(w) ==
  LET r == worker[w].run IN
  /\ At(w, "screen")
  /\ job[r].status = "processing" /\ job[r].holder = w
  /\ job' = [job EXCEPT ![r] = [Unleased(@) EXCEPT !.status = "pending"]]
  /\ Done(w)
  /\ UNCHANGED <<outside, sweep, tx, planner, history>>

\* Mutant of ResultExpires: a planner goes by the clock of its snapshot.
ResultExpiresUnseen(r) ==
  /\ job[r].result.valid
  /\ job' = [job EXCEPT ![r].result.valid = FALSE]
  /\ UNCHANGED <<outside, sweep, tx, planner, worker, history>>

\* clock_timestamp() goes on in a transaction: an open one finds it expired too,
\* unless it has inserted its plan already.
ResultExpires(r) ==
  /\ job[r].result.valid
  /\ job' = [job EXCEPT ![r].result.valid = FALSE]
  /\ planner' = [n \in Planners |->
       IF planner[n].run = r /\ ~planner[n].inserted
       THEN [planner[n] EXCEPT !.allowed = FALSE]
       ELSE planner[n]]
  /\ UNCHANGED <<outside, sweep, tx, worker, history>>

-----------------------------------------------------------------------------
(* The signing worker *)

LeaseFree(r) == sweep[r].holder = None \/ ~sweep[r].live

ClaimSigning(w, r) ==
  /\ At(w, "idle")
  /\ sweep[r].status = "planned"
  /\ LeaseFree(r)
  /\ sweep' = [sweep EXCEPT ![r] = Leased(@, w)]
  /\ Take(w, "observe", r)
  /\ UNCHANGED <<outside, job, tx, planner, history>>

\* Head, balance, head: some solidified block's balance, of a node that may lag.
ObserveBalance(w) ==
  /\ At(w, "observe")
  /\ \E h \in 0 .. Len(chain) : Balance(h) >= sweep[worker[w].run].amount
  /\ Goto(w, "sign")
  /\ UNCHANGED <<outside, job, sweep, tx, planner, history>>

\* The signer keeps the transaction it once signed for a plan; the client
\* refuses it when its time is up.
SignSweep(w) ==
  LET r == worker[w].run IN
  /\ At(w, "sign")
  /\ tx' = [tx EXCEPT ![r].window = IF @ = "unsigned" THEN "fresh" ELSE @]
  /\ Goto(w, IF tx[r].window = "final" THEN "release" ELSE "store")
  /\ UNCHANGED <<outside, job, sweep, planner, history>>

\* The head changed, the balance is short, a node or the signer fails.
SigningError(w) ==
  /\ At(w, "observe") \/ At(w, "sign")
  /\ Goto(w, "release")
  /\ UNCHANGED <<outside, job, sweep, tx, planner, history>>

\* Mutant of CompleteSigning: the lease stays and the confirmation is due.
CompleteSigningLeased(w) ==
  LET r == worker[w].run IN
  /\ At(w, "store")
  /\ FencedLive(w, "planned")
  /\ sweep' = [sweep EXCEPT ![r].status = "ready_for_broadcast", ![r].due = TRUE]
  /\ Done(w)
  /\ UNCHANGED <<outside, job, tx, planner, history>>

CompleteSigning(w) ==
  LET r == worker[w].run IN
  /\ At(w, "store")
  /\ FencedLive(w, "planned")
  /\ sweep' = [sweep EXCEPT ![r] = [Unleased(@) EXCEPT !.status = "ready_for_broadcast"]]
  /\ Done(w)
  /\ UNCHANGED <<outside, job, tx, planner, history>>

ReleaseSigning(w) ==
  /\ At(w, "release")
  /\ Fenced(w, "planned")
  /\ sweep' = [sweep EXCEPT ![worker[w].run] = Unleased(@)]
  /\ Done(w)
  /\ UNCHANGED <<outside, job, tx, planner, history>>

-----------------------------------------------------------------------------
(* The execution worker *)

ClaimBroadcast(w, r) ==
  /\ At(w, "idle")
  /\ sweep[r].status = "ready_for_broadcast"
  /\ LeaseFree(r)
  /\ sweep' = [sweep EXCEPT ![r] = Leased(@, w)]
  /\ Take(w, "broadcast", r)
  /\ UNCHANGED <<outside, job, tx, planner, history>>

\* Whatever the nodes answer, one of them may or may not have taken it.
Send(w, at, next) ==
  /\ At(w, at)
  /\ \E reached \in BOOLEAN :
       tx' = [tx EXCEPT ![worker[w].run].sent = @ \/ reached]
  /\ Goto(w, next)
  /\ UNCHANGED <<outside, job, sweep, planner, history>>

Broadcast(w) == Send(w, "broadcast", "sent")
Rebroadcast(w) == Send(w, "rebroadcast", "later")

BeginConfirmation(w) ==
  LET r == worker[w].run IN
  /\ At(w, "sent")
  /\ FencedLive(w, "ready_for_broadcast")
  /\ sweep' = [sweep EXCEPT ![r] =
       [Unleased(@) EXCEPT !.status = "confirming", !.due = TRUE]]
  /\ Done(w)
  /\ UNCHANGED <<outside, job, tx, planner, history>>

ClaimConfirmation(w, r) ==
  /\ At(w, "idle")
  /\ sweep[r].status = "confirming" /\ sweep[r].due
  /\ LeaseFree(r)
  /\ sweep' = [sweep EXCEPT ![r] = Leased(@, w)]
  /\ Take(w, "query", r)
  /\ UNCHANGED <<outside, job, tx, planner, history>>

\* Mutant of QueryTransaction: an expired transaction was not executed.
QueryUnlessExpired(w) ==
  LET t == tx[worker[w].run] IN
  /\ At(w, "query")
  /\ Goto(w, CASE t.place = "moved" /\ t.window = "fresh" -> "success"
              [] t.place = "reverted" -> "failure"
              [] OTHER -> "head")
  /\ UNCHANGED <<outside, job, sweep, tx, planner, history>>

\* reader.Transaction: solidified with a receipt, or not found.
QueryTransaction(w) ==
  LET t == tx[worker[w].run] IN
  /\ At(w, "query")
  /\ Goto(w, CASE t.place = "moved" -> "success"
              [] t.place = "reverted" -> "failure"
              [] OTHER -> "head")
  /\ UNCHANGED <<outside, job, sweep, tx, planner, history>>

\* The node that answers has not seen the block yet: not found.
BehindTransaction(w) ==
  LET r == worker[w].run IN
  /\ At(w, "query")
  /\ tx[r].place # "none"
  /\ missed' = missed \cup {r}
  /\ Goto(w, "head")
  /\ UNCHANGED <<outside, job, sweep, tx, planner, blind>>

\* reader.SolidifiedHead, a second request: it sees the chain as it is now.
ReadHead(w) ==
  /\ At(w, "head")
  /\ Goto(w, IF tx[worker[w].run].window = "final" THEN "failure" ELSE "rebroadcast")
  /\ UNCHANGED <<outside, job, sweep, tx, planner, history>>

\* The node that answers is behind the expiration.
BehindHead(w) ==
  /\ At(w, "head")
  /\ Goto(w, "rebroadcast")
  /\ UNCHANGED <<outside, job, sweep, tx, planner, history>>

\* A read fails, or a solidified transaction has no receipt yet.
NodeError(w) ==
  /\ At(w, "query") \/ At(w, "head")
  /\ Goto(w, "later")
  /\ UNCHANGED <<outside, job, sweep, tx, planner, history>>

ReleaseConfirmation(w) ==
  /\ At(w, "later")
  /\ Fenced(w, "confirming")
  /\ sweep' = [sweep EXCEPT ![worker[w].run] = [Unleased(@) EXCEPT !.due = FALSE]]
  /\ Done(w)
  /\ UNCHANGED <<outside, job, tx, planner, history>>

CompleteConfirmation(w, at, status) ==
  /\ At(w, at)
  /\ FencedLive(w, "confirming")
  /\ sweep' = [sweep EXCEPT ![worker[w].run] =
       [Unleased(@) EXCEPT !.status = status, !.due = FALSE]]
  /\ Done(w)
  /\ UNCHANGED <<outside, job, tx, planner, history>>

CompleteConfirmationSuccess(w) == CompleteConfirmation(w, "success", "succeeded")
CompleteConfirmationFailure(w) == CompleteConfirmation(w, "failure", "failed")

-----------------------------------------------------------------------------
(* Lost leases, crashes, time, and the chain *)

LeaseLost(w) ==
  LET r == worker[w].run IN
  /\ \/ At(w, "screen") /\ ~(job[r].holder = w /\ job[r].live)
     \/ At(w, "store") /\ ~FencedLive(w, "planned")
     \/ At(w, "release") /\ ~Fenced(w, "planned")
     \/ At(w, "sent") /\ ~FencedLive(w, "ready_for_broadcast")
     \/ (At(w, "success") \/ At(w, "failure")) /\ ~FencedLive(w, "confirming")
     \/ At(w, "later") /\ ~Fenced(w, "confirming")
  /\ Done(w)
  /\ UNCHANGED <<outside, job, sweep, tx, planner, history>>

Crash(w) ==
  /\ worker[w] # Idle
  /\ Done(w)
  /\ UNCHANGED <<outside, job, sweep, tx, planner, history>>

LeaseExpires(r) ==
  /\ sweep[r].live
  /\ sweep' = [sweep EXCEPT ![r].live = FALSE]
  /\ UNCHANGED <<outside, job, tx, planner, worker, history>>

ScreeningLeaseExpires(r) ==
  /\ job[r].live
  /\ job' = [job EXCEPT ![r].live = FALSE]
  /\ UNCHANGED <<outside, sweep, tx, planner, worker, history>>

BecomesDue(r) ==
  /\ sweep[r].status = "confirming" /\ ~sweep[r].due
  /\ sweep' = [sweep EXCEPT ![r].due = TRUE]
  /\ UNCHANGED <<outside, job, tx, planner, worker, history>>

\* The transfer is executed if the wallet can pay, and reverts otherwise.
\* Rounds that stand between their two reads miss it.
Solidify(r) ==
  LET pays == Balance(Len(chain)) >= sweep[r].amount IN
  /\ tx[r].sent /\ tx[r].place = "none" /\ tx[r].window = "fresh"
  /\ chain' = IF pays THEN Append(chain, r) ELSE chain
  /\ tx' = [tx EXCEPT ![r].place = IF pays THEN "moved" ELSE "reverted"]
  /\ missed' = missed \cup {q \in {r} : \E w \in Workers :
                               At(w, "head") /\ worker[w].run = q}
  /\ UNCHANGED <<cursor, settled, run, job, sweep, planner, worker, blind>>

\* The solidified head reaches the expiration.
HeadPassesExpiry(r) ==
  /\ tx[r].window = "fresh"
  /\ tx' = [tx EXCEPT ![r].window = "final"]
  /\ UNCHANGED <<outside, job, sweep, planner, worker, history>>

-----------------------------------------------------------------------------
DepositStep ==
  \/ \E e \in Events : Arrive(e)
  \/ IndexBlock
  \/ \E e \in Events, verdict \in {"clean", "dirty"} : SettleDeposit(e, verdict)
  \/ \E r \in Runs, h \in 1 .. Len(chain) : SaveSnapshot(r, h)
  \/ \E r \in Runs : SnapshotAges(r)

PlannerStep(n) ==
  \/ \E r \in Runs : BeginPlanning(n, r)
  \/ PrepareScreening(n) \/ InsertPlan(n) \/ CommitPlan(n) \/ NoPlan(n)

ScreenerStep(w) ==
  \/ \E r \in Runs : ClaimScreening(w, r)
  \/ CompleteScreening(w) \/ ReleaseScreening(w)

SignerStep(w) ==
  \/ \E r \in Runs : ClaimSigning(w, r)
  \/ ObserveBalance(w) \/ SignSweep(w) \/ SigningError(w)
  \/ CompleteSigning(w) \/ ReleaseSigning(w)

ExecutorStep(w) ==
  \/ \E r \in Runs : ClaimBroadcast(w, r) \/ ClaimConfirmation(w, r)
  \/ Broadcast(w) \/ BeginConfirmation(w)
  \/ QueryTransaction(w) \/ ReadHead(w) \/ Rebroadcast(w) \/ ReleaseConfirmation(w)
  \/ CompleteConfirmationSuccess(w) \/ CompleteConfirmationFailure(w)
  \/ NodeError(w) \/ BehindTransaction(w) \/ BehindHead(w)

TimeStep(r) ==
  \/ ResultExpires(r) \/ LeaseExpires(r) \/ ScreeningLeaseExpires(r)
  \/ BecomesDue(r) \/ Solidify(r) \/ HeadPassesExpiry(r)

Next ==
  \/ DepositStep
  \/ \E n \in Planners : PlannerStep(n)
  \/ \E w \in Screeners : ScreenerStep(w)
  \/ \E w \in Signers : SignerStep(w)
  \/ \E w \in Executors : ExecutorStep(w)
  \/ \E w \in Workers : LeaseLost(w) \/ Crash(w)
  \/ \E r \in Runs : TimeStep(r)

Spec == Init /\ [][Next]_vars

-----------------------------------------------------------------------------
(* Safety *)

\* Of the plans that were committed in the sight of every earlier one, the wallet
\* has one open sweep at a time: not even snapshots that show the same money are
\* planned twice, unless two planners overlap on two of them.
SecondSweepIsBlind == \A q, r \in OpenSweeps \ blind : q = r

\* Such sweeps, open or done, never claim more than the deposits that were
\* screened, allowed and matched, whatever blind plans stand or succeeded beside
\* them: what arrives later, unscreened, stays put.
OnlyScreenedMoneySwept ==
  PlanAmount((OpenSweeps \cup Succeeded) \ blind)
    <= MapThenSumSet(LAMBDA e : Amount[e], {e \in Events : settled[e] = "clean"})

\* A plan is inserted only under an allow for exactly this snapshot that is valid
\* at that moment, also when it ran out while the planner was under way.  It may
\* run out, and be screened anew, before the plan is committed.
AllowedWhenPlanned ==
  [][\A n \in Planners : ~planner[n].inserted /\ planner'[n].inserted =>
       LET r == planner[n].run IN
       /\ job[r].status = "completed"
       /\ job[r].result = [decision |-> "allow", valid |-> TRUE]]_vars

\* A sweep that succeeded moved its tokens; one that failed although they moved
\* was missed: its block was solidified before the round that failed it asked for
\* the head, and that round did not see it.  The next plan relies on that sum.
OutcomeIsTrue ==
  \A r \in Runs :
    /\ sweep[r].status = "succeeded" => tx[r].place = "moved"
    /\ sweep[r].status = "failed" /\ tx[r].place = "moved" => r \in missed
=============================================================================

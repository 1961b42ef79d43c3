----------------------------- MODULE SweepsProofs -----------------------------
(***************************************************************************)
(* Theorems about Sweeps, for any number of deposits, snapshots and        *)
(* processes.  Shape and the moves of each table come first; Sound says    *)
(* what rows, chain and processes know of each other; CoverInv, how the    *)
(* sums over deposits and over the plans that are not blind belong         *)
(* together.                                                               *)
(***************************************************************************)
EXTENDS Sweeps, SumTheorems

-----------------------------------------------------------------------------
(* The shape of the state *)

\* How a row moves does not depend on what its amount is: here it is in some set
\* S, and that it is a natural number is proved once the balances are (Executions).
RowOf(S) ==
  [status : {"absent"} \cup Open \cup Terminal, amount : S,
   holder : {None} \cup Signers \cup Executors, live : BOOLEAN, due : BOOLEAN]

Rows == \E S : sweep \in [Runs -> RowOf(S)]
Jobs == job \in [Runs -> ScreeningJob]
Transactions == tx \in [Runs -> Transaction]
Plannings == planner \in [Planners -> Planning]
Workings ==
  /\ worker \in [Workers -> Job]
  /\ \A w \in Workers : worker[w].at # "idle" => worker[w].run \in Runs

Histories == missed \subseteq Runs /\ blind \subseteq Runs

\* The lock of the wallet's row: one open transaction at most has inserted its
\* plan, and until it commits the plan is not there.
Inserting ==
  \A n \in Planners : planner[n].inserted =>
    /\ planner[n].run \in Runs /\ sweep[planner[n].run].status = "absent"
    /\ \A m \in Planners : planner[m].inserted => m = n

Shape ==
  /\ Rows /\ Jobs /\ Transactions /\ Plannings /\ Workings /\ Histories /\ Inserting

LEMMA InitShape == Init => Shape
<1> SUFFICES ASSUME Init PROVE Shape
  OBVIOUS
<1>1. Rows
  <2>1. sweep \in [Runs -> RowOf({0})]
    BY DEF Init, RowOf
  <2> QED
    BY <2>1 DEF Rows
<1>2. Jobs
  BY DEF Init, Jobs, ScreeningJob, NoResult
<1>3. Transactions
  BY DEF Init, Transactions, Transaction
<1>4. Plannings
  BY DEF Init, Plannings, Planning, NotPlanning
<1>5. Workings
  BY DEF Init, Workings, Job, Idle
<1>6. Histories /\ Inserting
  BY DEF Init, Histories, Inserting, NotPlanning
<1> QED
  BY <1>1, <1>2, <1>3, <1>4, <1>5, <1>6 DEF Shape

LEMMA Kinds ==
  Screeners \subseteq Workers /\ Signers \subseteq Workers /\ Executors \subseteq Workers
BY DEF Workers

\* A row rewritten to a row leaves a table, and no other row changes.
LEMMA RowWrite ==
  ASSUME NEW S, sweep \in [Runs -> RowOf(S)], NEW r \in Runs,
         NEW row \in RowOf(S), sweep' = [sweep EXCEPT ![r] = row]
  PROVE  Rows' /\ \A q \in Runs : sweep'[q] = IF q = r THEN row ELSE sweep[q]
<1>1. sweep' \in [Runs -> RowOf(S)]
  OBVIOUS
<1> QED
  BY <1>1 DEF Rows

\* A working process has a run; it may write its row under a lease.
LEMMA Busy ==
  ASSUME Workings, NEW w \in Workers, NEW at, at # "idle", At(w, at)
  PROVE  worker[w] \in Job /\ worker[w].run \in Runs
BY DEF Workings, At

-----------------------------------------------------------------------------
(* How a row of sweep_executions moves *)

Keeps == \A r \in Runs : sweep'[r].status = sweep[r].status
Moves(r, from, to) ==
  /\ r \in Runs
  /\ sweep[r].status = from /\ sweep'[r].status = to
  /\ \A q \in Runs \ {r} : sweep'[q].status = sweep[q].status

\* Everything that may happen to the statuses in a step: each move has its action.
RowMoves ==
  \/ Keeps
  \/ \E n \in Planners : CommitPlan(n) /\ Moves(planner[n].run, "absent", "planned")
  \/ \E r \in Runs : Moves(r, "planned", "ready_for_broadcast")
  \/ \E r \in Runs : Moves(r, "ready_for_broadcast", "confirming")
  \/ \E w \in Executors : /\ CompleteConfirmationSuccess(w)
                          /\ Moves(worker[w].run, "confirming", "succeeded")
  \/ \E w \in Executors : /\ CompleteConfirmationFailure(w)
                          /\ Moves(worker[w].run, "confirming", "failed")

LEMMA StepRows == ASSUME Shape, [Next]_vars PROVE Rows' /\ RowMoves
<1> USE Kinds
<1>0. PICK S : sweep \in [Runs -> RowOf(S)]
  BY DEF Shape, Rows
<1>1. ASSUME NEW w \in Signers, NEW r \in Runs, ClaimSigning(w, r)
      PROVE  Rows' /\ RowMoves
  <2> DEFINE row == [sweep[r] EXCEPT !.holder = w, !.live = TRUE]
  <2>1. row \in RowOf(S)
    BY <1>0 DEF RowOf, Open, Terminal
  <2>2. sweep' = [sweep EXCEPT ![r] = row]
    BY <1>1 DEF ClaimSigning, Leased
  <2>3. Rows' /\ \A q \in Runs : sweep'[q] = IF q = r THEN row ELSE sweep[q]
    BY <1>0, <2>1, <2>2, RowWrite
  <2>4. row.status = sweep[r].status
    BY <1>0 DEF RowOf
  <2> HIDE DEF row
  <2>5. Keeps
    BY <2>3, <2>4 DEF Keeps
  <2> QED
    BY <2>3, <2>5 DEF RowMoves
<1>2. ASSUME NEW w \in Signers, CompleteSigning(w)
      PROVE  Rows' /\ RowMoves
  <2> DEFINE r == worker[w].run
             row == [sweep[r] EXCEPT !.live = FALSE, !.holder = None,
                                !.status = "ready_for_broadcast"]
  <2>1. r \in Runs
    BY <1>2, Busy DEF CompleteSigning, Shape
  <2>2. row \in RowOf(S)
    BY <1>0, <2>1 DEF RowOf, Open, Terminal
  <2>3. sweep' = [sweep EXCEPT ![r] = row]
    BY <1>2 DEF CompleteSigning, FencedLive, Fenced, Unleased
  <2>4. Rows' /\ \A q \in Runs : sweep'[q] = IF q = r THEN row ELSE sweep[q]
    BY <1>0, <2>1, <2>2, <2>3, RowWrite
  <2>5. Moves(r, "planned", "ready_for_broadcast")
    BY <1>0, <2>1, <1>2, <2>4
       DEF Moves, RowOf, CompleteSigning, FencedLive, Fenced, Unleased
  <2> QED
    BY <1>2, <2>1, <2>4, <2>5 DEF RowMoves
<1>3. ASSUME NEW w \in Signers, ReleaseSigning(w)
      PROVE  Rows' /\ RowMoves
  <2> DEFINE r == worker[w].run
             row == [sweep[r] EXCEPT !.live = FALSE, !.holder = None]
  <2>1. r \in Runs
    BY <1>3, Busy DEF ReleaseSigning, Shape
  <2>2. row \in RowOf(S)
    BY <1>0, <2>1 DEF RowOf, Open, Terminal
  <2>3. sweep' = [sweep EXCEPT ![r] = row]
    BY <1>3 DEF ReleaseSigning, Unleased
  <2>4. Rows' /\ \A q \in Runs : sweep'[q] = IF q = r THEN row ELSE sweep[q]
    BY <1>0, <2>1, <2>2, <2>3, RowWrite
  <2>5. row.status = sweep[r].status
    BY <1>0, <2>1 DEF RowOf
  <2> HIDE DEF row
  <2>6. Keeps
    BY <2>4, <2>5 DEF Keeps
  <2> QED
    BY <2>4, <2>6 DEF RowMoves
<1>4. ASSUME NEW w \in Executors, NEW r \in Runs, ClaimBroadcast(w, r)
      PROVE  Rows' /\ RowMoves
  <2> DEFINE row == [sweep[r] EXCEPT !.holder = w, !.live = TRUE]
  <2>1. row \in RowOf(S)
    BY <1>0 DEF RowOf, Open, Terminal
  <2>2. sweep' = [sweep EXCEPT ![r] = row]
    BY <1>4 DEF ClaimBroadcast, Leased
  <2>3. Rows' /\ \A q \in Runs : sweep'[q] = IF q = r THEN row ELSE sweep[q]
    BY <1>0, <2>1, <2>2, RowWrite
  <2>4. row.status = sweep[r].status
    BY <1>0 DEF RowOf
  <2> HIDE DEF row
  <2>5. Keeps
    BY <2>3, <2>4 DEF Keeps
  <2> QED
    BY <2>3, <2>5 DEF RowMoves
<1>5. ASSUME NEW w \in Executors, BeginConfirmation(w)
      PROVE  Rows' /\ RowMoves
  <2> DEFINE r == worker[w].run
             row == [sweep[r] EXCEPT !.live = FALSE, !.holder = None,
                                !.status = "confirming", !.due = TRUE]
  <2>1. r \in Runs
    BY <1>5, Busy DEF BeginConfirmation, Shape
  <2>2. row \in RowOf(S)
    BY <1>0, <2>1 DEF RowOf, Open, Terminal
  <2>3. sweep' = [sweep EXCEPT ![r] = row]
    BY <1>5 DEF BeginConfirmation, FencedLive, Fenced, Unleased
  <2>4. Rows' /\ \A q \in Runs : sweep'[q] = IF q = r THEN row ELSE sweep[q]
    BY <1>0, <2>1, <2>2, <2>3, RowWrite
  <2>5. Moves(r, "ready_for_broadcast", "confirming")
    BY <1>0, <2>1, <1>5, <2>4
       DEF Moves, RowOf, BeginConfirmation, FencedLive, Fenced, Unleased
  <2> QED
    BY <1>5, <2>1, <2>4, <2>5 DEF RowMoves
<1>6. ASSUME NEW w \in Executors, NEW r \in Runs, ClaimConfirmation(w, r)
      PROVE  Rows' /\ RowMoves
  <2> DEFINE row == [sweep[r] EXCEPT !.holder = w, !.live = TRUE]
  <2>1. row \in RowOf(S)
    BY <1>0 DEF RowOf, Open, Terminal
  <2>2. sweep' = [sweep EXCEPT ![r] = row]
    BY <1>6 DEF ClaimConfirmation, Leased
  <2>3. Rows' /\ \A q \in Runs : sweep'[q] = IF q = r THEN row ELSE sweep[q]
    BY <1>0, <2>1, <2>2, RowWrite
  <2>4. row.status = sweep[r].status
    BY <1>0 DEF RowOf
  <2> HIDE DEF row
  <2>5. Keeps
    BY <2>3, <2>4 DEF Keeps
  <2> QED
    BY <2>3, <2>5 DEF RowMoves
<1>7. ASSUME NEW w \in Executors, ReleaseConfirmation(w)
      PROVE  Rows' /\ RowMoves
  <2> DEFINE r == worker[w].run
             row == [sweep[r] EXCEPT !.live = FALSE, !.holder = None, !.due = FALSE]
  <2>1. r \in Runs
    BY <1>7, Busy DEF ReleaseConfirmation, Shape
  <2>2. row \in RowOf(S)
    BY <1>0, <2>1 DEF RowOf, Open, Terminal
  <2>3. sweep' = [sweep EXCEPT ![r] = row]
    BY <1>7 DEF ReleaseConfirmation, Unleased
  <2>4. Rows' /\ \A q \in Runs : sweep'[q] = IF q = r THEN row ELSE sweep[q]
    BY <1>0, <2>1, <2>2, <2>3, RowWrite
  <2>5. row.status = sweep[r].status
    BY <1>0, <2>1 DEF RowOf
  <2> HIDE DEF row
  <2>6. Keeps
    BY <2>4, <2>5 DEF Keeps
  <2> QED
    BY <2>4, <2>6 DEF RowMoves
<1>8. ASSUME NEW w \in Executors, CompleteConfirmationSuccess(w)
      PROVE  Rows' /\ RowMoves
  <2> DEFINE r == worker[w].run
             row == [sweep[r] EXCEPT !.live = FALSE, !.holder = None,
                                !.status = "succeeded", !.due = FALSE]
  <2>1. r \in Runs
    BY <1>8, Busy DEF CompleteConfirmationSuccess, Shape, CompleteConfirmation
  <2>2. row \in RowOf(S)
    BY <1>0, <2>1 DEF RowOf, Open, Terminal
  <2>3. sweep' = [sweep EXCEPT ![r] = row]
    BY <1>8 DEF CompleteConfirmationSuccess, CompleteConfirmation,
       FencedLive, Fenced, Unleased
  <2>4. Rows' /\ \A q \in Runs : sweep'[q] = IF q = r THEN row ELSE sweep[q]
    BY <1>0, <2>1, <2>2, <2>3, RowWrite
  <2>5. Moves(r, "confirming", "succeeded")
    BY <1>0, <2>1, <1>8, <2>4
       DEF Moves, RowOf, CompleteConfirmationSuccess, CompleteConfirmation,
       FencedLive, Fenced, Unleased
  <2> QED
    BY <1>8, <2>1, <2>4, <2>5 DEF RowMoves
<1>9. ASSUME NEW w \in Executors, CompleteConfirmationFailure(w)
      PROVE  Rows' /\ RowMoves
  <2> DEFINE r == worker[w].run
             row == [sweep[r] EXCEPT !.live = FALSE, !.holder = None,
                                !.status = "failed", !.due = FALSE]
  <2>1. r \in Runs
    BY <1>9, Busy DEF CompleteConfirmationFailure, Shape, CompleteConfirmation
  <2>2. row \in RowOf(S)
    BY <1>0, <2>1 DEF RowOf, Open, Terminal
  <2>3. sweep' = [sweep EXCEPT ![r] = row]
    BY <1>9 DEF CompleteConfirmationFailure, CompleteConfirmation,
       FencedLive, Fenced, Unleased
  <2>4. Rows' /\ \A q \in Runs : sweep'[q] = IF q = r THEN row ELSE sweep[q]
    BY <1>0, <2>1, <2>2, <2>3, RowWrite
  <2>5. Moves(r, "confirming", "failed")
    BY <1>0, <2>1, <1>9, <2>4
       DEF Moves, RowOf, CompleteConfirmationFailure, CompleteConfirmation,
       FencedLive, Fenced, Unleased
  <2> QED
    BY <1>9, <2>1, <2>4, <2>5 DEF RowMoves
<1>10. ASSUME NEW r \in Runs, LeaseExpires(r)
      PROVE  Rows' /\ RowMoves
  <2> DEFINE row == [sweep[r] EXCEPT !.live = FALSE]
  <2>1. row \in RowOf(S)
    BY <1>0 DEF RowOf, Open, Terminal
  <2>2. sweep' = [sweep EXCEPT ![r] = row]
    BY <1>10 DEF LeaseExpires
  <2>3. Rows' /\ \A q \in Runs : sweep'[q] = IF q = r THEN row ELSE sweep[q]
    BY <1>0, <2>1, <2>2, RowWrite
  <2>4. row.status = sweep[r].status
    BY <1>0 DEF RowOf
  <2> HIDE DEF row
  <2>5. Keeps
    BY <2>3, <2>4 DEF Keeps
  <2> QED
    BY <2>3, <2>5 DEF RowMoves
<1>11. ASSUME NEW r \in Runs, BecomesDue(r)
      PROVE  Rows' /\ RowMoves
  <2> DEFINE row == [sweep[r] EXCEPT !.due = TRUE]
  <2>1. row \in RowOf(S)
    BY <1>0 DEF RowOf, Open, Terminal
  <2>2. sweep' = [sweep EXCEPT ![r] = row]
    BY <1>11 DEF BecomesDue
  <2>3. Rows' /\ \A q \in Runs : sweep'[q] = IF q = r THEN row ELSE sweep[q]
    BY <1>0, <2>1, <2>2, RowWrite
  <2>4. row.status = sweep[r].status
    BY <1>0 DEF RowOf
  <2> HIDE DEF row
  <2>5. Keeps
    BY <2>3, <2>4 DEF Keeps
  <2> QED
    BY <2>3, <2>5 DEF RowMoves
<1>12. ASSUME NEW n \in Planners, CommitPlan(n)
      PROVE  Rows' /\ RowMoves
  <2> DEFINE r == planner[n].run
             T == S \cup {Balance(run[r].height)}
             row == [sweep[r] EXCEPT !.status = "planned",
                                     !.amount = Balance(run[r].height)]
  <2>1. r \in Runs /\ sweep[r].status = "absent"
    BY <1>12 DEF CommitPlan, Shape, Inserting
  <2> HIDE DEF r
  <2>2. sweep \in [Runs -> RowOf(T)]
    BY <1>0 DEF RowOf
  <2>3. row \in RowOf(T)
    BY <2>1, <2>2 DEF RowOf, Open
  <2>4. sweep' = [sweep EXCEPT ![r] = row]
    BY <1>12 DEF CommitPlan, r
  <2>5. Rows' /\ \A q \in Runs :
                   sweep'[q] = IF q = r THEN row ELSE sweep[q]
    BY <2>1, <2>2, <2>3, <2>4, RowWrite
  <2>6. Moves(r, "absent", "planned")
    BY <1>0, <2>1, <1>12, <2>5 DEF Moves, RowOf, r
  <2> QED
    BY <1>12, <2>1, <2>5, <2>6 DEF RowMoves, r
<1>13. CASE UNCHANGED sweep
  BY <1>13 DEF RowMoves, Keeps, Shape, Rows
<1> QED
  BY <1>1, <1>2, <1>3, <1>4, <1>5, <1>6, <1>7, <1>8, <1>9, <1>10, <1>11, <1>12, <1>13
     DEF Next, vars, DepositStep, PlannerStep, ScreenerStep, SignerStep, ExecutorStep,
         TimeStep, Arrive, IndexBlock, SettleDeposit, SaveSnapshot, SnapshotAges,
         BeginPlanning, PrepareScreening, InsertPlan, NoPlan, ClaimScreening, CompleteScreening,
         ReleaseScreening, ResultExpires, ObserveBalance, SignSweep, SigningError,
         Broadcast, Rebroadcast, Send, QueryTransaction, ReadHead, BehindTransaction, BehindHead, NodeError,
         LeaseLost, Crash, ScreeningLeaseExpires, Solidify, HeadPassesExpiry

\* An allow that a planner may go by stays, but for the clock.
Allowed(r) ==
  job[r].status = "completed" /\ job[r].result = [decision |-> "allow", valid |-> TRUE]

JobMoves == \A r \in Runs : Allowed(r) => Allowed(r)' \/ ResultExpires(r)

LEMMA StepJobs == ASSUME Shape, [Next]_vars PROVE Jobs' /\ JobMoves
<1> USE Kinds
<1>0. job \in [Runs -> ScreeningJob]
  BY DEF Shape, Jobs
<1>1. ASSUME NEW n \in Planners, PrepareScreening(n) PROVE Jobs' /\ JobMoves
  <2> DEFINE r == planner[n].run
             row == [job[r] EXCEPT !.status = "pending"]
  <2>1. r \in Runs
    BY <1>1 DEF PrepareScreening, Shape, Plannings, Planning
  <2>2. row \in ScreeningJob
    BY <1>0, <2>1 DEF ScreeningJob
  <2>3. job' = [job EXCEPT ![r] = row]
    BY <1>1 DEF PrepareScreening
  <2>4. ~Allowed(r)
    BY <1>1 DEF PrepareScreening, Allowed
  <2> HIDE DEF r, row
  <2> QED
    BY <1>0, <2>1, <2>2, <2>3, <2>4 DEF Jobs, JobMoves, Allowed
<1>2. ASSUME NEW w \in Screeners, NEW r \in Runs, ClaimScreening(w, r)
      PROVE  Jobs' /\ JobMoves
  <2> DEFINE row == [job[r] EXCEPT !.holder = w, !.live = TRUE, !.status = "processing"]
  <2>1. row \in ScreeningJob
    BY <1>0 DEF ScreeningJob
  <2>2. job' = [job EXCEPT ![r] = row]
    BY <1>2 DEF ClaimScreening, Leased
  <2>3. ~Allowed(r)
    BY <1>2 DEF ClaimScreening, Claimable, Allowed
  <2> HIDE DEF row
  <2> QED
    BY <1>0, <2>1, <2>2, <2>3 DEF Jobs, JobMoves, Allowed
<1>3. ASSUME NEW w \in Screeners, CompleteScreening(w) PROVE Jobs' /\ JobMoves
  <2> DEFINE r == worker[w].run
  <2>1. r \in Runs /\ ~Allowed(r)
    BY <1>3, Busy DEF CompleteScreening, Shape, Allowed
  <2>2. PICK d \in Decisions :
          job' = [job EXCEPT ![r] = [Unleased(@) EXCEPT !.status = "completed",
                                       !.result = [decision |-> d, valid |-> TRUE]]]
    BY <1>3 DEF CompleteScreening
  <2> DEFINE row == [job[r] EXCEPT !.live = FALSE, !.holder = None, !.status = "completed",
                                   !.result = [decision |-> d, valid |-> TRUE]]
  <2>3. row \in ScreeningJob
    BY <1>0, <2>1 DEF ScreeningJob
  <2>4. job' = [job EXCEPT ![r] = row]
    BY <2>2 DEF Unleased
  <2> HIDE DEF r, row
  <2> QED
    BY <1>0, <2>1, <2>3, <2>4 DEF Jobs, JobMoves, Allowed
<1>4. ASSUME NEW w \in Screeners, ReleaseScreening(w) PROVE Jobs' /\ JobMoves
  <2> DEFINE r == worker[w].run
             row == [job[r] EXCEPT !.live = FALSE, !.holder = None, !.status = "pending"]
  <2>1. r \in Runs /\ ~Allowed(r)
    BY <1>4, Busy DEF ReleaseScreening, Shape, Allowed
  <2>2. row \in ScreeningJob
    BY <1>0, <2>1 DEF ScreeningJob
  <2>3. job' = [job EXCEPT ![r] = row]
    BY <1>4 DEF ReleaseScreening, Unleased
  <2> HIDE DEF r, row
  <2> QED
    BY <1>0, <2>1, <2>2, <2>3 DEF Jobs, JobMoves, Allowed
<1>5. ASSUME NEW r \in Runs, ResultExpires(r) PROVE Jobs' /\ JobMoves
  <2> DEFINE result == [job[r].result EXCEPT !.valid = FALSE]
             row == [job[r] EXCEPT !.result = result]
  <2>1. job[r].result \in [decision : Decisions, valid : BOOLEAN]
    BY <1>0, <1>5 DEF ResultExpires, ScreeningJob, NoResult
  <2>2. result \in [decision : Decisions, valid : BOOLEAN]
    BY <2>1
  <2> HIDE DEF result
  <2>3. row \in ScreeningJob
    BY <1>0, <2>2 DEF ScreeningJob
  <2>4. job' = [job EXCEPT ![r] = row]
    BY <1>5 DEF ResultExpires, result
  <2> HIDE DEF row
  <2> QED
    BY <1>0, <1>5, <2>3, <2>4 DEF Jobs, JobMoves, Allowed
<1>6. ASSUME NEW r \in Runs, ScreeningLeaseExpires(r) PROVE Jobs' /\ JobMoves
  <2> DEFINE row == [job[r] EXCEPT !.live = FALSE]
  <2>1. row \in ScreeningJob /\ row.status = job[r].status /\ row.result = job[r].result
    BY <1>0 DEF ScreeningJob
  <2>2. job' = [job EXCEPT ![r] = row]
    BY <1>6 DEF ScreeningLeaseExpires
  <2> HIDE DEF row
  <2> QED
    BY <1>0, <2>1, <2>2 DEF Jobs, JobMoves, Allowed
<1>7. CASE UNCHANGED job
  BY <1>0, <1>7 DEF Jobs, JobMoves, Allowed
<1> QED
  BY <1>1, <1>2, <1>3, <1>4, <1>5, <1>6, <1>7
     DEF Next, vars, outside, DepositStep, PlannerStep, ScreenerStep, SignerStep,
         ExecutorStep, TimeStep, Arrive, IndexBlock, SettleDeposit, SaveSnapshot,
         SnapshotAges, BeginPlanning, InsertPlan, CommitPlan, NoPlan, ClaimSigning, ObserveBalance,
         SignSweep, SigningError, CompleteSigning, ReleaseSigning, ClaimBroadcast,
         ClaimConfirmation, Broadcast, Rebroadcast, Send, BeginConfirmation,
         QueryTransaction, ReadHead, BehindTransaction, BehindHead, NodeError, ReleaseConfirmation,
         CompleteConfirmationSuccess, CompleteConfirmationFailure,
         CompleteConfirmation, LeaseLost, Crash, LeaseExpires, BecomesDue, Solidify,
         HeadPassesExpiry

\* What was missed stays so, and only a commit adds to the blind plans.
HistoryMoves ==
  /\ missed \subseteq missed'
  /\ blind' = blind \/ \E n \in Planners : CommitPlan(n)

LEMMA StepHistories == ASSUME Shape, [Next]_vars PROVE Histories' /\ HistoryMoves
<1> USE Kinds
<1>0. Histories
  BY DEF Shape
<1>1. ASSUME NEW n \in Planners, CommitPlan(n) PROVE Histories' /\ HistoryMoves
  <2>1. planner[n].run \in Runs /\ missed' = missed
    BY <1>1 DEF CommitPlan, Shape, Inserting
  <2> QED
    BY <1>0, <1>1, <2>1 DEF CommitPlan, Histories, HistoryMoves
<1>2. ASSUME NEW w \in Executors, BehindTransaction(w) PROVE Histories' /\ HistoryMoves
  <2>1. worker[w].run \in Runs
    BY <1>2, Busy DEF BehindTransaction, Shape
  <2> QED
    BY <1>0, <1>2, <2>1 DEF BehindTransaction, Histories, HistoryMoves
<1>3. ASSUME NEW r \in Runs, Solidify(r) PROVE Histories' /\ HistoryMoves
  BY <1>0, <1>3 DEF Solidify, Histories, HistoryMoves
<1>4. CASE UNCHANGED history
  BY <1>0, <1>4 DEF history, Histories, HistoryMoves
<1> QED
  BY <1>1, <1>2, <1>3, <1>4
     DEF Next, vars, DepositStep, PlannerStep, ScreenerStep, SignerStep,
         ExecutorStep, TimeStep, Arrive, IndexBlock, SettleDeposit, SaveSnapshot,
         SnapshotAges, BeginPlanning, PrepareScreening, InsertPlan, NoPlan,
         ClaimScreening, CompleteScreening, ReleaseScreening, ResultExpires,
         ClaimSigning, ObserveBalance, SignSweep, SigningError, CompleteSigning,
         ReleaseSigning, ClaimBroadcast, Broadcast, Rebroadcast, Send, ClaimConfirmation,
         BeginConfirmation, QueryTransaction, ReadHead, BehindHead, NodeError,
         ReleaseConfirmation, CompleteConfirmationSuccess,
         CompleteConfirmationFailure, CompleteConfirmation, LeaseLost, Crash,
         LeaseExpires, ScreeningLeaseExpires, BecomesDue, HeadPassesExpiry

\* A transaction that moved tokens stays so, and so does one that never will, or
\* that was missed when it did.
Final(r) ==
  \/ tx[r].place = "reverted"
  \/ tx[r].place = "none" /\ tx[r].window = "final"
  \/ tx[r].place = "moved" /\ r \in missed

TxMoves ==
  \A r \in Runs :
    /\ tx[r].place = "moved" => tx'[r].place = "moved"
    /\ tx'[r].place = "moved" => tx[r].place = "moved" \/ Solidify(r)
    /\ Final(r) => Final(r)'

LEMMA StepTransactions == ASSUME Shape, [Next]_vars PROVE Transactions' /\ TxMoves
<1> USE Kinds
<1>0. tx \in [Runs -> Transaction] /\ missed \subseteq missed'
  BY StepHistories DEF Shape, Transactions, HistoryMoves
<1>1. ASSUME NEW w \in Signers, SignSweep(w) PROVE Transactions' /\ TxMoves
  <2> DEFINE r == worker[w].run
             row == [tx[r] EXCEPT !.window = IF @ = "unsigned" THEN "fresh" ELSE @]
  <2>1. r \in Runs
    BY <1>1, Busy DEF SignSweep, Shape
  <2>2. /\ row \in Transaction /\ row.place = tx[r].place
        /\ tx[r].window = "final" => row.window = "final"
    BY <1>0, <2>1 DEF Transaction
  <2>3. tx' = [tx EXCEPT ![r] = row]
    BY <1>1 DEF SignSweep
  <2> HIDE DEF r, row
  <2> QED
    BY <1>0, <2>1, <2>2, <2>3 DEF Transactions, TxMoves, Final
<1>2. ASSUME NEW w \in Executors, Broadcast(w) \/ Rebroadcast(w)
      PROVE  Transactions' /\ TxMoves
  <2> DEFINE r == worker[w].run
  <2>1. r \in Runs
    BY <1>2, Busy DEF Broadcast, Rebroadcast, Send, Shape
  <2>2. PICK reached \in BOOLEAN : tx' = [tx EXCEPT ![r].sent = @ \/ reached]
    BY <1>2 DEF Broadcast, Rebroadcast, Send
  <2> DEFINE row == [tx[r] EXCEPT !.sent = @ \/ reached]
  <2>3. row \in Transaction /\ row.place = tx[r].place /\ row.window = tx[r].window
    BY <1>0, <2>1 DEF Transaction
  <2>4. tx' = [tx EXCEPT ![r] = row]
    BY <2>2
  <2> HIDE DEF r, row
  <2> QED
    BY <1>0, <2>1, <2>3, <2>4 DEF Transactions, TxMoves, Final
<1>3. ASSUME NEW r \in Runs, Solidify(r) PROVE Transactions' /\ TxMoves
  <2>1. PICK place \in {"moved", "reverted"} : tx' = [tx EXCEPT ![r].place = place]
    BY <1>3 DEF Solidify
  <2> DEFINE row == [tx[r] EXCEPT !.place = place]
  <2>2. row \in Transaction
    BY <1>0 DEF Transaction
  <2>3. tx' = [tx EXCEPT ![r] = row]
    BY <2>1
  <2>4. tx[r].place # "moved" /\ ~Final(r)
    BY <1>3 DEF Solidify, Final
  <2> HIDE DEF row
  <2> QED
    BY <1>0, <1>3, <2>2, <2>3, <2>4 DEF Transactions, TxMoves, Final
<1>4. ASSUME NEW r \in Runs, HeadPassesExpiry(r) PROVE Transactions' /\ TxMoves
  <2> DEFINE row == [tx[r] EXCEPT !.window = "final"]
  <2>1. row \in Transaction /\ row.place = tx[r].place /\ row.window = "final"
    BY <1>0 DEF Transaction
  <2>2. tx' = [tx EXCEPT ![r] = row]
    BY <1>4 DEF HeadPassesExpiry
  <2> HIDE DEF row
  <2> QED
    BY <1>0, <2>1, <2>2 DEF Transactions, TxMoves, Final
<1>5. CASE UNCHANGED tx
  BY <1>0, <1>5 DEF Transactions, TxMoves, Final
<1> QED
  BY <1>1, <1>2, <1>3, <1>4, <1>5
     DEF Next, vars, outside, DepositStep, PlannerStep, ScreenerStep, SignerStep,
         ExecutorStep, TimeStep, Arrive, IndexBlock, SettleDeposit, SaveSnapshot,
         SnapshotAges, BeginPlanning, PrepareScreening, InsertPlan, CommitPlan, NoPlan,
         ClaimScreening, CompleteScreening, ReleaseScreening, ResultExpires,
         ClaimSigning, ObserveBalance, SigningError, CompleteSigning, ReleaseSigning,
         ClaimBroadcast, ClaimConfirmation, BeginConfirmation, QueryTransaction,
         ReadHead, BehindTransaction, BehindHead, NodeError, ReleaseConfirmation, CompleteConfirmationSuccess,
         CompleteConfirmationFailure, CompleteConfirmation, LeaseLost, Crash,
         LeaseExpires, ScreeningLeaseExpires, BecomesDue

\* A planner ends, or begins with what its snapshot shows, or goes on under what
\* it has, until it inserts.
PlannerMoves ==
  \A n \in Planners :
    \/ planner'[n].run = None /\ ~planner'[n].allowed /\ ~planner'[n].inserted
    \/ \E r \in Runs : /\ BeginPlanning(n, r)
                       /\ planner'[n].run = r /\ planner'[n].allowed = Allowed(r)
                       /\ planner'[n].plans = Planned /\ ~planner'[n].inserted
    \/ /\ planner'[n].run = planner[n].run /\ planner'[n].plans = planner[n].plans
       /\ planner'[n].inserted => planner[n].inserted \/ InsertPlan(n)
       /\ ~planner'[n].inserted => ~planner[n].inserted
       /\ planner'[n].allowed => planner[n].allowed

LEMMA StepPlannings == ASSUME Shape, [Next]_vars PROVE Plannings' /\ PlannerMoves
<1>0. planner \in [Planners -> Planning]
  BY DEF Shape, Plannings
<1>1. ASSUME NEW n \in Planners, NEW r \in Runs, BeginPlanning(n, r)
      PROVE  Plannings' /\ PlannerMoves
  <2> DEFINE plan == [run |-> r, allowed |-> Allowed(r), inserted |-> FALSE,
                      plans |-> Planned]
  <2>1. plan \in Planning
    BY DEF Planning, Allowed, Planned
  <2>2. planner' = [planner EXCEPT ![n] = plan]
    BY <1>1 DEF BeginPlanning, Allowed
  <2>3. \A m \in Planners : planner'[m] = IF m = n THEN plan ELSE planner[m]
    BY <1>0, <2>2
  <2>4. Plannings'
    BY <1>0, <2>1, <2>2 DEF Plannings
  <2>5. plan.run = r /\ plan.allowed = Allowed(r) /\ plan.plans = Planned /\ ~plan.inserted
    OBVIOUS
  <2> HIDE DEF plan
  <2> QED
    BY <1>1, <2>3, <2>4, <2>5 DEF PlannerMoves
<1>2. ASSUME NEW n \in Planners, EndPlanning(n) PROVE Plannings' /\ PlannerMoves
  <2>1. /\ NotPlanning \in Planning /\ NotPlanning.run = None
        /\ ~NotPlanning.allowed /\ ~NotPlanning.inserted
    BY DEF Planning, NotPlanning
  <2> QED
    BY <1>0, <1>2, <2>1 DEF EndPlanning, Plannings, PlannerMoves
<1>3. ASSUME NEW r \in Runs, ResultExpires(r) PROVE Plannings' /\ PlannerMoves
  <2>1. ASSUME NEW n \in Planners
        PROVE  /\ [planner[n] EXCEPT !.allowed = FALSE] \in Planning
               /\ [planner[n] EXCEPT !.allowed = FALSE].run = planner[n].run
               /\ [planner[n] EXCEPT !.allowed = FALSE].plans = planner[n].plans
               /\ [planner[n] EXCEPT !.allowed = FALSE].inserted = planner[n].inserted
               /\ ~[planner[n] EXCEPT !.allowed = FALSE].allowed
    BY <1>0 DEF Planning
  <2>2. planner' = [n \in Planners |->
          IF planner[n].run = r /\ ~planner[n].inserted
          THEN [planner[n] EXCEPT !.allowed = FALSE]
          ELSE planner[n]]
    BY <1>3 DEF ResultExpires
  <2> QED
    BY <1>0, <2>1, <2>2 DEF Plannings, PlannerMoves
<1>4. ASSUME NEW n \in Planners, InsertPlan(n) PROVE Plannings' /\ PlannerMoves
  <2> DEFINE plan == [planner[n] EXCEPT !.inserted = TRUE]
  <2>1. /\ plan \in Planning /\ plan.run = planner[n].run
        /\ plan.plans = planner[n].plans /\ plan.allowed = planner[n].allowed
        /\ plan.inserted
    BY <1>0 DEF Planning
  <2>2. planner' = [planner EXCEPT ![n] = plan]
    BY <1>4 DEF InsertPlan
  <2> HIDE DEF plan
  <2>3. \A m \in Planners : planner'[m] = IF m = n THEN plan ELSE planner[m]
    BY <1>0, <2>2
  <2> QED
    BY <1>0, <1>4, <2>1, <2>2, <2>3 DEF Plannings, PlannerMoves
<1>5. CASE UNCHANGED planner
  BY <1>0, <1>5 DEF Plannings, PlannerMoves
<1> QED
  BY <1>1, <1>2, <1>3, <1>4, <1>5
     DEF Next, vars, outside, DepositStep, PlannerStep, ScreenerStep, SignerStep,
         ExecutorStep, TimeStep, Arrive, IndexBlock, SettleDeposit, SaveSnapshot,
         SnapshotAges, PrepareScreening, CommitPlan, NoPlan, ClaimScreening,
         CompleteScreening, ReleaseScreening, ClaimSigning, ObserveBalance, SignSweep,
         SigningError, CompleteSigning, ReleaseSigning, ClaimBroadcast,
         ClaimConfirmation, Broadcast, Rebroadcast, Send, BeginConfirmation,
         QueryTransaction, ReadHead, BehindTransaction, BehindHead, NodeError,
         ReleaseConfirmation, CompleteConfirmationSuccess,
         CompleteConfirmationFailure, CompleteConfirmation, LeaseLost, Crash,
         LeaseExpires, ScreeningLeaseExpires, BecomesDue, Solidify, HeadPassesExpiry

\* No other planner inserts beside one that has, and its plan is not committed by
\* another.
LEMMA StepInserting ==
  ASSUME Shape, Plannings', RowMoves, PlannerMoves, [Next]_vars PROVE Inserting'
<1>0. planner \in [Planners -> Planning]
  BY DEF Shape, Plannings
<1>1. ASSUME NEW n \in Planners, planner'[n].inserted
      PROVE  /\ planner'[n].run = planner[n].run
             /\ planner[n].inserted \/ InsertPlan(n)
  BY <1>1 DEF PlannerMoves
<1>2. ASSUME NEW n \in Planners, NEW m \in Planners, InsertPlan(n), m # n,
             planner'[m].inserted
      PROVE  FALSE
  <2>1. ~planner[m].inserted
    BY <1>2 DEF InsertPlan, WalletUnlocked
  <2>2. planner'[m] = planner[m]
    BY <1>0, <1>2 DEF InsertPlan
  <2> QED
    BY <1>2, <2>1, <2>2
<1>3. ASSUME NEW n \in Planners, planner'[n].inserted
      PROVE  planner'[n].run \in Runs /\ sweep'[planner'[n].run].status = "absent"
  <2> DEFINE r == planner[n].run
  <2>1. CASE InsertPlan(n)
    <3>1. r \in Runs
      BY <1>0, <2>1 DEF InsertPlan, Planning
    <3> QED
      BY <1>1, <1>3, <2>1, <3>1 DEF InsertPlan
  <2>2. CASE planner[n].inserted
    <3>1. r \in Runs /\ sweep[r].status = "absent"
      BY <2>2 DEF Shape, Inserting
    <3>2. ASSUME NEW m \in Planners, CommitPlan(m) PROVE m # n
      <4>1. planner'[m] = NotPlanning
        BY <1>0, <3>2 DEF CommitPlan, EndPlanning
      <4> QED
        BY <1>3, <4>1 DEF NotPlanning
    <3>3. ASSUME NEW m \in Planners, CommitPlan(m) PROVE FALSE
      BY <2>2, <3>2, <3>3 DEF CommitPlan, Shape, Inserting
    <3>4. sweep'[r].status = "absent"
      BY <3>1, <3>3 DEF RowMoves, Keeps, Moves
    <3> QED
      BY <1>1, <1>3, <3>1, <3>4
  <2> QED
    BY <1>1, <1>3, <2>1, <2>2
<1>4. ASSUME NEW n \in Planners, NEW m \in Planners,
             planner'[n].inserted, planner'[m].inserted
      PROVE  m = n
  BY <1>1, <1>2, <1>4 DEF Shape, Inserting
<1> QED
  BY <1>3, <1>4 DEF Inserting

\* Only the reads of a confirmation give a verdict: other steps of a process
\* take it to work that has none.
Undecided == {"idle", "screen", "observe", "sign", "store", "release",
              "broadcast", "sent", "query", "rebroadcast", "later"}

WorkerMoves ==
  \A w \in Workers : \/ worker'[w] = worker[w]
                     \/ worker'[w].at \in Undecided
                     \/ QueryTransaction(w)
                     \/ BehindTransaction(w)
                     \/ ReadHead(w)

LEMMA WorkerWrite ==
  ASSUME Workings, NEW w \in Workers, NEW j \in Job,
         j.at # "idle" => j.run \in Runs,
         j.at \in Undecided \/ QueryTransaction(w) \/ BehindTransaction(w) \/ ReadHead(w),
         worker' = [worker EXCEPT ![w] = j]
  PROVE  Workings' /\ WorkerMoves
BY DEF Workings, WorkerMoves

LEMMA TakeMoves ==
  ASSUME Workings, NEW w \in Workers, NEW r \in Runs, NEW at \in Undecided, Take(w, at, r)
  PROVE  Workings' /\ WorkerMoves
<1> DEFINE j == [Idle EXCEPT !.at = at, !.run = r]
<1>1. j \in Job /\ j.at = at /\ j.run = r
  BY DEF Idle, Job, Undecided
<1>2. worker' = [worker EXCEPT ![w] = j]
  BY DEF Take
<1> HIDE DEF j
<1> QED
  BY <1>1, <1>2, WorkerWrite

LEMMA GotoMoves ==
  ASSUME Workings, NEW w \in Workers, ~At(w, "idle"), NEW at,
         at \in Undecided \/ QueryTransaction(w) \/ BehindTransaction(w) \/ ReadHead(w),
         at \in Undecided \cup {"success", "failure", "head"}, Goto(w, at)
  PROVE  Workings' /\ WorkerMoves
<1> DEFINE j == [worker[w] EXCEPT !.at = at]
<1>1. j \in Job /\ j.at = at /\ j.run \in Runs
  BY DEF Workings, At, Job, Undecided
<1>2. worker' = [worker EXCEPT ![w] = j]
  BY DEF Goto
<1> HIDE DEF j
<1> QED
  BY <1>1, <1>2, WorkerWrite

LEMMA DoneMoves ==
  ASSUME Workings, NEW w \in Workers, Done(w) PROVE Workings' /\ WorkerMoves
<1>1. Idle \in Job /\ Idle.at = "idle" /\ "idle" \in Undecided
  BY DEF Idle, Job, Undecided
<1> QED
  BY <1>1, WorkerWrite DEF Done

LEMMA StepWorkings == ASSUME Shape, [Next]_vars PROVE Workings' /\ WorkerMoves
<1> USE Kinds
<1>0. Workings
  BY DEF Shape
<1>1. ASSUME NEW w \in Workers, NEW r \in Runs,
             \/ ClaimScreening(w, r) \/ ClaimSigning(w, r)
             \/ ClaimBroadcast(w, r) \/ ClaimConfirmation(w, r)
      PROVE  Workings' /\ WorkerMoves
  <2>1. PICK at \in Undecided : Take(w, at, r)
    BY <1>1 DEF ClaimScreening, ClaimSigning, ClaimBroadcast, ClaimConfirmation, Undecided
  <2> QED
    BY <1>0, <2>1, TakeMoves
<1>2. ASSUME NEW w \in Workers,
             \/ CompleteScreening(w) \/ ReleaseScreening(w) \/ CompleteSigning(w)
             \/ ReleaseSigning(w) \/ BeginConfirmation(w) \/ ReleaseConfirmation(w)
             \/ CompleteConfirmationSuccess(w) \/ CompleteConfirmationFailure(w)
             \/ LeaseLost(w) \/ Crash(w)
      PROVE  Workings' /\ WorkerMoves
  <2>1. Done(w)
    BY <1>2 DEF CompleteScreening, ReleaseScreening, CompleteSigning, ReleaseSigning,
       BeginConfirmation, ReleaseConfirmation, CompleteConfirmationSuccess,
       CompleteConfirmationFailure, CompleteConfirmation, LeaseLost, Crash
  <2> QED
    BY <1>0, <2>1, DoneMoves
<1>3. ASSUME NEW w \in Workers,
             \/ ObserveBalance(w) \/ SignSweep(w) \/ SigningError(w)
             \/ Broadcast(w) \/ Rebroadcast(w) \/ NodeError(w) \/ BehindHead(w)
      PROVE  Workings' /\ WorkerMoves
  <2>1. ~At(w, "idle")
    BY <1>3 DEF ObserveBalance, SignSweep, SigningError, Broadcast, Rebroadcast,
       Send, NodeError, BehindHead, At
  <2>2. PICK at \in Undecided : Goto(w, at)
    BY <1>3 DEF ObserveBalance, SignSweep, SigningError, Broadcast, Rebroadcast,
       Send, NodeError, BehindHead, Undecided
  <2> QED
    BY <1>0, <2>1, <2>2, GotoMoves
<1>4. ASSUME NEW w \in Workers,
             QueryTransaction(w) \/ BehindTransaction(w) \/ ReadHead(w)
      PROVE  Workings' /\ WorkerMoves
  <2>1. ~At(w, "idle")
    BY <1>4 DEF QueryTransaction, BehindTransaction, ReadHead, At
  <2>2. PICK at \in {"success", "failure", "head", "rebroadcast"} : Goto(w, at)
    BY <1>4 DEF QueryTransaction, BehindTransaction, ReadHead
  <2>3. at \in Undecided \cup {"success", "failure", "head"}
    BY DEF Undecided
  <2> QED
    BY <1>0, <1>4, <2>1, <2>2, <2>3, GotoMoves
<1>5. CASE UNCHANGED worker
  BY <1>0, <1>5 DEF Workings, WorkerMoves
<1> QED
  BY <1>1, <1>2, <1>3, <1>4, <1>5
     DEF Next, vars, DepositStep, PlannerStep, ScreenerStep, SignerStep,
         ExecutorStep, TimeStep, Arrive, IndexBlock, SettleDeposit, SaveSnapshot,
         SnapshotAges, BeginPlanning, PrepareScreening, InsertPlan, CommitPlan, NoPlan,
         ResultExpires, LeaseExpires, ScreeningLeaseExpires, BecomesDue, Solidify,
         HeadPassesExpiry

LEMMA StepShape ==
  ASSUME Shape, [Next]_vars
  PROVE  /\ Shape' /\ RowMoves /\ JobMoves /\ TxMoves
         /\ PlannerMoves /\ WorkerMoves /\ HistoryMoves
BY StepRows, StepJobs, StepTransactions, StepPlannings, StepWorkings, StepHistories,
   StepInserting DEF Shape

-----------------------------------------------------------------------------
(* One open sweep *)

\* A planner that knows of every plan there is found no sweep open, and none has
\* been opened since: whatever is planned beside it makes it blind.
PlannersSee ==
  \A n \in Planners : planner[n].run # None =>
    /\ planner[n].plans \subseteq Planned
    /\ planner[n].plans = Planned => OpenSweeps = {}

OneOpenInv == Shape /\ PlannersSee /\ SecondSweepIsBlind

LEMMA InitOneOpen == Init => OneOpenInv
<1> SUFFICES ASSUME Init PROVE PlannersSee /\ SecondSweepIsBlind
  BY InitShape DEF OneOpenInv
<1>1. OpenSweeps = {}
  BY DEF Init, OpenSweeps, Open
<1> QED
  BY <1>1 DEF Init, PlannersSee, SecondSweepIsBlind, NotPlanning

\* What a planner knows of stays, and an open sweep it does not know of is new.
LEMMA PlannedMoves ==
  ASSUME Shape, RowMoves
  PROVE  /\ Planned \subseteq Planned'
         /\ OpenSweeps' \subseteq OpenSweeps \/ ~(Planned' \subseteq Planned)
BY DEF RowMoves, Keeps, Moves, Planned, OpenSweeps, Open

LEMMA StepSee ==
  ASSUME Shape, PlannersSee, RowMoves, PlannerMoves, [Next]_vars PROVE PlannersSee'
<1>1. /\ Planned \subseteq Planned'
      /\ OpenSweeps' \subseteq OpenSweeps \/ ~(Planned' \subseteq Planned)
  BY PlannedMoves
<1> SUFFICES ASSUME NEW n \in Planners, planner'[n].run # None
             PROVE  /\ planner'[n].plans \subseteq Planned'
                    /\ planner'[n].plans = Planned' => OpenSweeps' = {}
  BY DEF PlannersSee
<1>2. CASE /\ planner'[n].run = planner[n].run
           /\ planner'[n].plans = planner[n].plans
  BY <1>1, <1>2 DEF PlannersSee
<1>3. ASSUME NEW r \in Runs, BeginPlanning(n, r), planner'[n].plans = Planned
      PROVE  /\ planner'[n].plans \subseteq Planned'
             /\ planner'[n].plans = Planned' => OpenSweeps' = {}
  <2>1. OpenSweeps = {}
    BY <1>3 DEF BeginPlanning, Candidate
  <2> QED
    BY <1>1, <1>3, <2>1
<1> QED
  BY <1>2, <1>3 DEF PlannerMoves

\* A plan that a commit does not add to the blind ones finds no sweep open.
LEMMA SeeingCommit ==
  ASSUME Shape, PlannersSee, NEW n \in Planners, CommitPlan(n), planner[n].run \notin blind'
  PROVE  OpenSweeps = {} /\ blind' = blind
<1>1. planner[n].run \in Runs /\ planner[n].run # None
  BY NamesAssumption DEF CommitPlan, Shape, Inserting
<1>2. planner[n].plans = Planned /\ blind' = blind
  BY DEF CommitPlan
<1> QED
  BY <1>1, <1>2 DEF PlannersSee

LEMMA StepOneOpen == ASSUME OneOpenInv, [Next]_vars PROVE OneOpenInv'
<1>1. Shape' /\ RowMoves /\ PlannerMoves /\ HistoryMoves
  BY StepShape DEF OneOpenInv
<1>2. PlannersSee'
  BY <1>1, StepSee DEF OneOpenInv
<1>3. CASE OpenSweeps' \subseteq OpenSweeps
  <2>1. blind \subseteq blind'
    BY <1>1 DEF HistoryMoves, CommitPlan
  <2> QED
    BY <1>3, <2>1, <1>1, <1>2 DEF OneOpenInv, SecondSweepIsBlind
<1>4. ASSUME NEW n \in Planners, CommitPlan(n), Moves(planner[n].run, "absent", "planned")
      PROVE  SecondSweepIsBlind'
  <2> DEFINE r == planner[n].run
  <2>1. OpenSweeps' = OpenSweeps \cup {r}
    BY <1>4 DEF OpenSweeps, Moves, Open
  <2>2. CASE r \in blind'
    <3>1. blind \subseteq blind'
      BY <1>4 DEF CommitPlan
    <3> QED
      BY <2>1, <2>2, <3>1 DEF OneOpenInv, SecondSweepIsBlind
  <2>3. CASE r \notin blind'
    <3>1. OpenSweeps = {}
      BY <1>4, <2>3, SeeingCommit DEF OneOpenInv
    <3> QED
      BY <2>1, <3>1 DEF SecondSweepIsBlind
  <2> QED
    BY <2>2, <2>3
<1>5. \/ OpenSweeps' \subseteq OpenSweeps
      \/ \E n \in Planners : CommitPlan(n) /\ Moves(planner[n].run, "absent", "planned")
  BY <1>1 DEF RowMoves, Keeps, Moves, OpenSweeps, Open
<1> QED
  BY <1>1, <1>2, <1>3, <1>4, <1>5 DEF OneOpenInv

\* However many planners, snapshots and workers there are: of the plans committed
\* in the sight of every earlier one, at most one sweep is open.  Two open sweeps
\* of a wallet need a planner that overlaps another's commit.
THEOREM SecondSweepIsBlindAlways == Spec => []SecondSweepIsBlind
<1>1. OneOpenInv /\ [Next]_vars => OneOpenInv'
  BY StepOneOpen
<1>2. OneOpenInv => SecondSweepIsBlind
  BY DEF OneOpenInv
<1> QED
  BY InitOneOpen, <1>1, <1>2, PTL DEF Spec

-----------------------------------------------------------------------------
(* Plans are allowed *)

\* What a planner goes by is still so when it inserts: results are not replaced
\* while they are valid, and when one expires the planner knows.
PlannersAllowed ==
  \A n \in Planners :
    planner[n].allowed /\ ~planner[n].inserted =>
      planner[n].run \in Runs /\ Allowed(planner[n].run)

LEMMA InitAllowed == Init => Shape /\ PlannersAllowed
BY InitShape DEF Init, PlannersAllowed, NotPlanning

LEMMA StepAllowed ==
  ASSUME Shape, PlannersAllowed, [Next]_vars
  PROVE  Shape' /\ PlannersAllowed'
<1>1. Shape' /\ JobMoves /\ PlannerMoves
  BY StepShape
<1>2. ASSUME NEW n \in Planners, planner'[n].allowed, ~planner'[n].inserted
      PROVE  planner'[n].run \in Runs /\ Allowed(planner[n].run)'
  <2>1. CASE planner'[n].run = planner[n].run /\ planner[n].allowed /\ ~planner[n].inserted
    <3> DEFINE r == planner[n].run
    <3>1. r \in Runs /\ Allowed(r)
      BY <1>2, <2>1 DEF PlannersAllowed
    <3>2. ASSUME ResultExpires(r) PROVE FALSE
      <4>1. planner'[n] = [planner[n] EXCEPT !.allowed = FALSE]
        BY <2>1, <3>2 DEF ResultExpires
      <4>2. planner[n] \in Planning
        BY DEF Shape, Plannings
      <4> QED
        BY <1>2, <4>1, <4>2 DEF Planning
    <3>3. job'[r].status = "completed"
               /\ job'[r].result = [decision |-> "allow", valid |-> TRUE]
      BY <1>1, <3>1, <3>2 DEF JobMoves, Allowed
    <3> QED
      BY <2>1, <3>1, <3>3 DEF Allowed
  <2>2. ASSUME NEW r \in Runs, BeginPlanning(n, r),
               planner'[n].run = r, planner'[n].allowed = Allowed(r)
        PROVE  planner'[n].run \in Runs /\ Allowed(planner[n].run)'
    <3>1. Allowed(r) /\ job' = job
      BY <1>2, <2>2 DEF BeginPlanning
    <3> QED
      BY <2>2, <3>1 DEF Allowed
  <2> QED
    BY <1>1, <1>2, <2>1, <2>2 DEF PlannerMoves
<1> QED
  BY <1>1, <1>2 DEF PlannersAllowed

\* A plan is inserted only under a screening that allows it and that is valid
\* then, however many planners there are.
THEOREM PlansAreAllowed == Spec => AllowedWhenPlanned
<1>1. Shape /\ PlannersAllowed /\ [Next]_vars =>
        [\A n \in Planners : ~planner[n].inserted /\ planner'[n].inserted =>
           LET r == planner[n].run IN
           /\ job[r].status = "completed"
           /\ job[r].result = [decision |-> "allow", valid |-> TRUE]]_vars
  <2> SUFFICES ASSUME Shape, PlannersAllowed, [Next]_vars, NEW n \in Planners,
                      ~planner[n].inserted, planner'[n].inserted
               PROVE  Allowed(planner[n].run)
    BY DEF Allowed
  <2>1. PlannerMoves
    BY StepShape
  <2>2. InsertPlan(n)
    BY <2>1 DEF PlannerMoves
  <2> QED
    BY <2>2 DEF InsertPlan, PlannersAllowed
<1>2. Shape /\ PlannersAllowed /\ [Next]_vars => (Shape /\ PlannersAllowed)'
  BY StepAllowed
<1> QED
  BY <1>1, <1>2, InitAllowed, PTL DEF Spec, AllowedWhenPlanned

-----------------------------------------------------------------------------
(* Outcomes *)

\* A verdict, before it is stored, is about a transaction that is past change or
\* was missed, and so is what is at the chain while a round asks for the head.
Verdicts ==
  \A w \in Workers :
    LET r == worker[w].run IN
    /\ worker[w].at = "success" => tx[r].place = "moved"
    /\ worker[w].at = "failure" => Final(r)
    /\ worker[w].at = "head" /\ tx[r].place = "moved" => r \in missed

Outcomes ==
  \A r \in Runs : /\ sweep[r].status = "succeeded" => tx[r].place = "moved"
                  /\ sweep[r].status = "failed" => Final(r)

OutcomeInv == Shape /\ Verdicts /\ Outcomes

LEMMA InitOutcome == Init => OutcomeInv
BY InitShape DEF Init, OutcomeInv, Verdicts, Outcomes, Idle

\* What is solidified while a round stands before the head is missed.
LEMMA SolidifiedIsMissed ==
  ASSUME NEW w \in Workers, NEW r \in Runs, At(w, "head"), worker[w].run = r, Solidify(r)
  PROVE  r \in missed'
BY DEF Solidify

LEMMA StepVerdicts ==
  ASSUME OutcomeInv, [Next]_vars PROVE Verdicts'
<1>1. Shape' /\ WorkerMoves /\ TxMoves /\ HistoryMoves
  BY StepShape DEF OutcomeInv
<1> SUFFICES ASSUME NEW w \in Workers
             PROVE  /\ worker'[w].at = "success" => tx'[worker'[w].run].place = "moved"
                    /\ worker'[w].at = "failure" => Final(worker[w].run)'
                    /\ worker'[w].at = "head" /\ tx'[worker'[w].run].place = "moved" =>
                         worker'[w].run \in missed'
  BY DEF Verdicts, Final
<1>2. CASE worker'[w] = worker[w]
  <2> DEFINE r == worker[w].run
  <2>1. worker[w].at # "idle" => r \in Runs
    BY DEF OutcomeInv, Shape, Workings
  <2>2. worker[w].at = "head" /\ tx'[r].place = "moved" => r \in missed'
    BY <1>1, <2>1, SolidifiedIsMissed
       DEF TxMoves, OutcomeInv, Verdicts, HistoryMoves, At
  <2>3. worker[w].at = "success" => tx'[r].place = "moved"
    BY <1>1, <2>1 DEF TxMoves, OutcomeInv, Verdicts
  <2>4. worker[w].at = "failure" => Final(worker[w].run)'
    <3>1. PICK q : q = r
      OBVIOUS
    <3>2. worker[w].at = "failure" => q \in Runs /\ Final(q)
      BY <2>1, <3>1 DEF OutcomeInv, Verdicts
    <3>3. worker[w].at = "failure" => Final(q)'
      BY <1>1, <3>2 DEF TxMoves
    <3> QED
      BY <1>2, <3>1, <3>3 DEF Final
  <2> QED
    BY <1>2, <2>2, <2>3, <2>4 DEF Final
<1>3. CASE worker'[w].at \in Undecided
  BY <1>3 DEF Undecided
<1>4. ASSUME NEW at, Goto(w, at), ~At(w, "idle")
      PROVE  /\ worker'[w].at = at /\ worker'[w].run = worker[w].run
             /\ worker[w].run \in Runs
  BY <1>4 DEF Goto, OutcomeInv, Shape, Workings, Job, At
<1>5. CASE QueryTransaction(w)
  <2> DEFINE r == worker[w].run
             at == CASE tx[r].place = "moved" -> "success"
                     [] tx[r].place = "reverted" -> "failure"
                     [] OTHER -> "head"
  <2>1. Goto(w, at) /\ ~At(w, "idle") /\ tx' = tx
    BY <1>5 DEF QueryTransaction, At
  <2>2. worker'[w].at = at /\ worker'[w].run = r
    BY <1>4, <2>1
  <2> QED
    BY <2>1, <2>2 DEF Final
<1>6. CASE BehindTransaction(w)
  <2> DEFINE r == worker[w].run
  <2>1. Goto(w, "head") /\ ~At(w, "idle") /\ r \in missed'
    BY <1>6 DEF BehindTransaction, At
  <2>2. worker'[w].at = "head" /\ worker'[w].run = r
    BY <1>4, <2>1
  <2> QED
    BY <2>1, <2>2
<1>7. CASE ReadHead(w)
  <2> DEFINE r == worker[w].run
             at == IF tx[r].window = "final" THEN "failure" ELSE "rebroadcast"
  <2>1. Goto(w, at) /\ ~At(w, "idle") /\ tx' = tx /\ worker[w].at = "head"
    BY <1>7 DEF ReadHead, At
  <2>2. worker'[w].at = at /\ worker'[w].run = r /\ r \in Runs
    BY <1>4, <2>1
  <2>3. tx[r].place \in {"none", "moved", "reverted"}
    BY <2>2 DEF OutcomeInv, Shape, Transactions, Transaction
  <2>4. tx[r].window = "final" => Final(r)
    BY <2>1, <2>3 DEF OutcomeInv, Verdicts, Final
  <2>5. tx[r].window = "final" => Final(r)'
    BY <1>1, <2>2, <2>4 DEF TxMoves
  <2> QED
    BY <2>2, <2>5 DEF Final
<1> QED
  BY <1>1, <1>2, <1>3, <1>5, <1>6, <1>7 DEF WorkerMoves

LEMMA StepOutcomes ==
  ASSUME OutcomeInv, [Next]_vars PROVE Outcomes'
<1>1. RowMoves /\ TxMoves
  BY StepShape DEF OutcomeInv
<1> SUFFICES ASSUME NEW r \in Runs
             PROVE  /\ sweep'[r].status = "succeeded" => tx'[r].place = "moved"
                    /\ sweep'[r].status = "failed" => Final(r)'
  BY DEF Outcomes
<1>2. CASE sweep'[r].status = sweep[r].status
  BY <1>1, <1>2 DEF TxMoves, OutcomeInv, Outcomes
<1>3. ASSUME NEW w \in Executors, CompleteConfirmationSuccess(w), r = worker[w].run,
             sweep'[r].status = "succeeded"
      PROVE  tx'[r].place = "moved"
  BY <1>1, <1>3, Kinds DEF CompleteConfirmationSuccess, CompleteConfirmation, At,
     TxMoves, OutcomeInv, Verdicts
<1>4. ASSUME NEW w \in Executors, CompleteConfirmationFailure(w), r = worker[w].run,
             sweep'[r].status = "failed"
      PROVE  Final(r)'
  <2>1. Final(r)
    BY <1>4, Kinds DEF CompleteConfirmationFailure, CompleteConfirmation, At,
       OutcomeInv, Verdicts
  <2> QED
    BY <1>1, <2>1 DEF TxMoves
<1> QED
  BY <1>1, <1>2, <1>3, <1>4 DEF RowMoves, Keeps, Moves

\* A sweep succeeded only when its tokens moved; a failed one never moves them,
\* unless they were solidified before the round that failed it asked for the head
\* and after, or behind the back of, its look at the transaction.
THEOREM OutcomeIsTrueAlways == Spec => []OutcomeIsTrue
<1>1. OutcomeInv /\ [Next]_vars => OutcomeInv'
  BY StepShape, StepVerdicts, StepOutcomes DEF OutcomeInv
<1>2. OutcomeInv => OutcomeIsTrue
  BY DEF OutcomeInv, Outcomes, OutcomeIsTrue, Final
<1> QED
  BY InitOutcome, <1>1, <1>2, PTL DEF Spec

-----------------------------------------------------------------------------
(* Sums over the chain and over the plans *)

Known(r) == sweep[r].status # "absent"
Signed(r) == tx[r].window # "unsigned"
Amounts == [r \in Runs |-> sweep[r].amount]

\* The rows with amounts that are numbers, and the checks on each.
Executions ==
  /\ sweep \in [Runs -> Execution]
  /\ \A r \in Runs : ExecutionCheck(r)

\* The chain holds transfers of deposits and of sweeps that were planned, and
\* what the matcher has settled is in it.
Chained ==
  /\ chain \in Seq(Events \cup Runs)
  /\ cursor \in 0 .. Len(chain)
  /\ settled \in [Events -> {"no", "clean", "dirty"}]
  /\ \A i \in 1 .. Len(chain) : chain[i] \in Runs => Known(chain[i])
  /\ \A e \in Events : settled[e] # "no" => e \in Upto(Len(chain))

\* A prefix of the chain is finite.
LEMMA UptoFinite ==
  ASSUME Chained, NEW h \in 0 .. Len(chain)
  PROVE  IsFiniteSet(Upto(h)) /\ Upto(h) \subseteq Events \cup Runs
<1> DEFINE f == [i \in 1 .. h |-> chain[i]]
<1>1. h \in Int /\ 1 .. h \subseteq 1 .. Len(chain)
  BY DEF Chained
<1>2. f \in Surjection(1 .. h, Upto(h))
  BY DEF Surjection, Upto
<1>3. IsFiniteSet(1 .. h)
  BY <1>1, FS_Interval
<1>4. IsFiniteSet(Upto(h))
  <2> HIDE DEF f
  <2> QED
    BY <1>2, <1>3, FS_Surjection
<1> QED
  BY <1>1, <1>4 DEF Chained, Upto

\* What was received up to a block is a sum of the deposits' amounts.
LEMMA ReceivedIsSum ==
  ASSUME Chained, NEW h \in 0 .. Len(chain)
  PROVE  /\ IsFiniteSet(Events \cap Upto(h))
         /\ \A e \in Events \cap Upto(h) : Amount[e] \in Nat
         /\ Received(h) = SumOf(Amount, Events \cap Upto(h))
         /\ Received(h) \in Nat
<1>1. IsFiniteSet(Events \cap Upto(h))
  BY UptoFinite, FS_Intersection
<1>2. \A e \in Events \cap Upto(h) : Amount[e] \in Nat
  BY AmountAssumption
<1>3. Received(h) = SumOf(Amount, Events \cap Upto(h))
  BY DEF Received, SumOf
<1> QED
  BY <1>1, <1>2, <1>3, SumNat

\* What some plans claim is a sum of the rows' amounts.
LEMMA PlanIsSum ==
  ASSUME Executions, NEW S \in SUBSET Runs, IsFiniteSet(S)
  PROVE  /\ \A r \in S : Amounts[r] \in Nat
         /\ PlanAmount(S) = SumOf(Amounts, S)
         /\ PlanAmount(S) \in Nat
<1> DEFINE f == [r \in S |-> sweep[r].amount]
<1>1. \A r \in S : Amounts[r] \in Nat /\ f[r] = Amounts[r]
  BY DEF Executions, Execution, Amounts
<1>2. PlanAmount(S) = SumOf(f, S)
  BY FieldSum DEF PlanAmount
<1>3. Summable(Amounts, S) /\ SumOf(Amounts, S) \in Nat
  BY <1>1, SumNat
<1>4. SumOf(f, S) = SumOf(Amounts, S)
  <2> HIDE DEF f
  <2> QED
    BY <1>1, <1>3, SumSame
<1> QED
  BY <1>1, <1>2, <1>3, <1>4

\* Amounts that stay, one by one, stay in the sum.
LEMMA PlanStays ==
  ASSUME Executions, Executions', NEW S \in SUBSET Runs, IsFiniteSet(S),
         \A r \in S : sweep'[r].amount = sweep[r].amount
  PROVE  PlanAmount(S)' = PlanAmount(S)
<1> DEFINE f == Amounts
           g == [r \in Runs |-> sweep'[r].amount]
<1>1. /\ \A r \in S : f[r] \in Nat
      /\ PlanAmount(S) = SumOf(f, S)
  BY PlanIsSum
<1>2. PlanAmount(S)' = SumOf(g, S)
  <2>1. PlanAmount(S)' = MapThenSumSet(LAMBDA r : sweep'[r].amount, S)
    BY DEF PlanAmount, MapThenSumSet, MapThenFoldSet
  <2> DEFINE k == [r \in S |-> sweep'[r].amount]
  <2>2. MapThenSumSet(LAMBDA r : sweep'[r].amount, S) = SumOf(k, S)
    BY FieldSum
  <2>3. \A r \in S : k[r] \in Nat /\ g[r] = k[r]
    BY DEF Executions, Execution
  <2>4. SumOf(g, S) = SumOf(k, S)
    <3> HIDE DEF k, g
    <3> QED
      BY <2>3, SumNat, SumSame
  <2> QED
    BY <2>1, <2>2, <2>4
<1>3. \A r \in S : g[r] = f[r]
  BY DEF Amounts
<1>4. SumOf(g, S) = SumOf(f, S)
  <2> HIDE DEF f, g
  <2> QED
    BY <1>1, <1>3, SumNat, SumSame
<1> QED
  BY <1>1, <1>2, <1>4

\* The balance at a block of the chain is an integer: what came in less what the
\* sweeps in the chain took out.
LEMMA BalanceIsInt ==
  ASSUME Executions, Chained, NEW h \in 0 .. Len(chain)
  PROVE  /\ Balance(h) \in Int /\ IsFiniteSet(Runs \cap Upto(h))
         /\ \A r \in Runs \cap Upto(h) : Known(r)
<1>1. IsFiniteSet(Runs \cap Upto(h))
  BY UptoFinite, FS_Intersection
<1>2. PlanAmount(Runs \cap Upto(h)) \in Nat /\ Received(h) \in Nat
  BY <1>1, PlanIsSum, ReceivedIsSum
<1>3. \A r \in Runs \cap Upto(h) : Known(r)
  BY DEF Chained, Upto
<1> QED
  BY <1>1, <1>2, <1>3 DEF Balance

-----------------------------------------------------------------------------
(* The chain only grows *)

\* Only a planned sweep is signed and sent.
Sent == \A r \in Runs : tx[r].sent => Known(r)

\* Blocks stay where they are, and a settled transfer stays settled as it was.
Grows ==
  /\ Len(chain) <= Len(chain') /\ Len(chain') \in Nat
  /\ \A i \in 1 .. Len(chain) : chain'[i] = chain[i]
  /\ \A e \in Events : settled[e] # "no" => settled'[e] = settled[e]

LEMMA KnownStays ==
  ASSUME RowMoves, NEW r \in Runs, Known(r) PROVE Known(r)'
BY DEF RowMoves, Keeps, Moves, Known

\* A block of the chain is not lost when one is added.
LEMMA AppendChained ==
  ASSUME RowMoves, Chained, NEW x \in Events \cup Runs, x \in Runs => Known(x),
         chain' = Append(chain, x), UNCHANGED <<cursor, settled>>
  PROVE  Chained' /\ Grows
<1>1. /\ chain' \in Seq(Events \cup Runs) /\ Len(chain') = Len(chain) + 1
      /\ \A i \in 1 .. Len(chain) : chain'[i] = chain[i]
      /\ chain'[Len(chain) + 1] = x /\ Len(chain) \in Nat
  BY DEF Chained
<1>2. \A i \in 1 .. Len(chain') : i \in 1 .. Len(chain) \/ i = Len(chain) + 1
  BY <1>1
<1>3. \A i \in 1 .. Len(chain') : chain'[i] \in Runs => Known(chain'[i])
  BY <1>1, <1>2 DEF Chained
<1>4. \A i \in 1 .. Len(chain') : chain'[i] \in Runs => sweep'[chain'[i]].status # "absent"
  <2> SUFFICES ASSUME NEW i \in 1 .. Len(chain'), chain'[i] \in Runs
               PROVE  sweep'[chain'[i]].status # "absent"
    OBVIOUS
  <2>1. PICK r \in Runs : r = chain'[i]
    OBVIOUS
  <2>2. Known(r)'
    BY <1>3, <2>1, KnownStays
  <2> QED
    BY <2>1, <2>2 DEF Known
<1>5. \A e \in Events : settled'[e] # "no" => \E i \in 1 .. Len(chain') : e = chain'[i]
  BY <1>1 DEF Chained, Upto
<1>6. cursor' \in 0 .. Len(chain') /\ settled' \in [Events -> {"no", "clean", "dirty"}]
  BY <1>1 DEF Chained
<1>7. Chained'
  BY <1>1, <1>4, <1>5, <1>6 DEF Chained, Known, Upto
<1> QED
  BY <1>1, <1>7 DEF Grows

LEMMA StillChained ==
  ASSUME RowMoves, Chained, UNCHANGED chain, cursor' \in 0 .. Len(chain),
         settled' \in [Events -> {"no", "clean", "dirty"}],
         \A e \in Events : settled[e] # "no" => settled'[e] = settled[e],
         \A e \in Events : settled'[e] # "no" => e \in Upto(Len(chain))
  PROVE  Chained' /\ Grows
<1>1. \A i \in 1 .. Len(chain) : chain[i] \in Runs => sweep'[chain[i]].status # "absent"
  <2> SUFFICES ASSUME NEW i \in 1 .. Len(chain), chain[i] \in Runs
               PROVE  sweep'[chain[i]].status # "absent"
    OBVIOUS
  <2>1. PICK r \in Runs : r = chain[i]
    OBVIOUS
  <2>2. Known(r)'
    BY <2>1, KnownStays DEF Chained
  <2> QED
    BY <2>1, <2>2 DEF Known
<1>2. Len(chain) \in Nat
  BY DEF Chained
<1>3. Grows
  BY <1>2 DEF Grows
<1> QED
  BY <1>1, <1>3 DEF Chained, Known, Upto

LEMMA StepChained ==
  ASSUME RowMoves, Chained, Sent, [Next]_vars PROVE Chained' /\ Grows
<1>1. ASSUME NEW e \in Events, Arrive(e) PROVE Chained' /\ Grows
  BY <1>1, AppendChained, NamesAssumption DEF Arrive
<1>2. ASSUME NEW r \in Runs, Solidify(r) PROVE Chained' /\ Grows
  <2>1. Known(r) /\ UNCHANGED <<cursor, settled>>
    BY <1>2 DEF Solidify, Sent
  <2>2. CASE chain' = Append(chain, r)
    BY <2>1, <2>2, AppendChained
  <2>3. CASE chain' = chain
    BY <2>1, <2>3, StillChained DEF Chained
  <2> QED
    BY <1>2, <2>2, <2>3 DEF Solidify
<1>3. CASE IndexBlock
  <2>1. cursor' \in 0 .. Len(chain)
    BY <1>3 DEF IndexBlock, Chained
  <2> QED
    BY <1>3, <2>1, StillChained DEF IndexBlock, Chained
<1>4. ASSUME NEW e \in Events, NEW verdict \in {"clean", "dirty"}, SettleDeposit(e, verdict)
      PROVE  Chained' /\ Grows
  <2>1. /\ settled' = [settled EXCEPT ![e] = verdict] /\ settled[e] = "no"
        /\ chain' = chain /\ cursor' = cursor /\ e \in Upto(cursor)
    BY <1>4 DEF SettleDeposit
  <2>2. e \in Upto(Len(chain))
    BY <2>1 DEF Upto, Chained
  <2> QED
    BY <2>1, <2>2, StillChained DEF Chained
<1>5. CASE UNCHANGED <<chain, cursor, settled>>
  BY <1>5, StillChained DEF Chained
<1> QED
  BY <1>1, <1>2, <1>3, <1>4, <1>5
     DEF Next, vars, outside, DepositStep, PlannerStep, ScreenerStep, SignerStep,
         ExecutorStep, TimeStep, SaveSnapshot, SnapshotAges, BeginPlanning,
         PrepareScreening, InsertPlan, CommitPlan, NoPlan, ClaimScreening, CompleteScreening,
         ReleaseScreening, ResultExpires, ClaimSigning, ObserveBalance, SignSweep,
         SigningError, CompleteSigning, ReleaseSigning, ClaimBroadcast,
         ClaimConfirmation, Broadcast, Rebroadcast, Send, BeginConfirmation,
         QueryTransaction, ReadHead, BehindTransaction, BehindHead, NodeError, ReleaseConfirmation,
         CompleteConfirmationSuccess, CompleteConfirmationFailure,
         CompleteConfirmation, LeaseLost, Crash, LeaseExpires, ScreeningLeaseExpires,
         BecomesDue, HeadPassesExpiry

LEMMA UptoStays ==
  ASSUME Chained, Grows, NEW h \in 0 .. Len(chain)
  PROVE  h \in 0 .. Len(chain') /\ Upto(h)' = Upto(h)
<1>1. 1 .. h \subseteq 1 .. Len(chain)
  BY DEF Chained
<1>2. \A i \in 1 .. h : chain'[i] = chain[i]
  BY <1>1 DEF Grows
<1>3. {chain'[i] : i \in 1 .. h} = {chain[i] : i \in 1 .. h}
  BY <1>2
<1>4. h \in 0 .. Len(chain')
  BY DEF Grows, Chained
<1> QED
  BY <1>3, <1>4 DEF Upto

-----------------------------------------------------------------------------
(* Rows and processes know of each other *)

\* A signing or execution worker is at work on a sweep that was planned, and
\* stores a transaction that was signed.
Knowing ==
  \A w \in Workers :
    /\ At(w, "idle") => worker[w] = Idle
    /\ w \in Signers \cup Executors /\ ~At(w, "idle") => Known(worker[w].run)
    /\ At(w, "store") => Signed(worker[w].run)

\* Snapshots are of blocks of the chain.
Captured ==
  /\ run \in [Runs -> Run]
  /\ \A r \in Runs : /\ run[r].height \in 0 .. Len(chain)
                     /\ run[r].recent => run[r].saved

\* What a planner found, and still stands when it commits: a balance at its
\* snapshot that is worth a sweep, out of nothing but screened deposits.
Worth(r, h) ==
  /\ run[r].saved /\ run[r].height = h
  /\ h \in 0 .. Len(chain)
  /\ Balance(h) >= Minimum
  /\ \A e \in Events \cap Upto(h) : settled[e] = "clean"

Plans ==
  \A n \in Planners : planner[n].run # None =>
    \E r \in Runs, h \in 0 .. Len(chain) : planner[n].run = r /\ Worth(r, h)

\* A signature stays, and only an execution worker sends what it works on.
TxKeeps ==
  \A r \in Runs :
    /\ Signed(r) => Signed(r)'
    /\ tx'[r].sent => \/ tx[r].sent
                      \/ \E w \in Executors : ~At(w, "idle") /\ worker[w].run = r

LEMMA StepTxKeeps == ASSUME Shape, [Next]_vars PROVE TxKeeps
<1> USE Kinds
<1>0. tx \in [Runs -> Transaction]
  BY DEF Shape, Transactions
<1>1. ASSUME NEW w \in Signers, SignSweep(w) PROVE TxKeeps
  <2> DEFINE r == worker[w].run
             row == [tx[r] EXCEPT !.window = IF @ = "unsigned" THEN "fresh" ELSE @]
  <2>1. r \in Runs /\ tx' = [tx EXCEPT ![r] = row]
    BY <1>1, Busy DEF SignSweep, Shape
  <2>2. row.window # "unsigned" /\ row.sent = tx[r].sent
    BY <1>0, <2>1 DEF Transaction
  <2> HIDE DEF r, row
  <2> QED
    BY <1>0, <2>1, <2>2 DEF TxKeeps, Signed
<1>2. ASSUME NEW w \in Executors, Broadcast(w) \/ Rebroadcast(w) PROVE TxKeeps
  <2> DEFINE r == worker[w].run
  <2>1. r \in Runs /\ ~At(w, "idle")
    BY <1>2, Busy DEF Broadcast, Rebroadcast, Send, Shape, At
  <2>2. PICK reached \in BOOLEAN : tx' = [tx EXCEPT ![r].sent = @ \/ reached]
    BY <1>2 DEF Broadcast, Rebroadcast, Send
  <2> DEFINE row == [tx[r] EXCEPT !.sent = @ \/ reached]
  <2>3. tx' = [tx EXCEPT ![r] = row] /\ row.window = tx[r].window
    BY <1>0, <2>1, <2>2 DEF Transaction
  <2> HIDE DEF row
  <2>4. \A q \in Runs : tx'[q].window = tx[q].window /\ (q # r => tx'[q] = tx[q])
    BY <1>0, <2>1, <2>3
  <2> QED
    BY <2>1, <2>4 DEF TxKeeps, Signed
<1>3. ASSUME NEW r \in Runs, Solidify(r) PROVE TxKeeps
  <2>1. PICK place \in {"moved", "reverted"} : tx' = [tx EXCEPT ![r].place = place]
    BY <1>3 DEF Solidify
  <2>2. \A q \in Runs : tx'[q].window = tx[q].window /\ tx'[q].sent = tx[q].sent
    BY <1>0, <2>1 DEF Transaction
  <2> QED
    BY <2>2 DEF TxKeeps, Signed
<1>4. ASSUME NEW r \in Runs, HeadPassesExpiry(r) PROVE TxKeeps
  <2>1. \A q \in Runs : /\ tx'[q].window \in {tx[q].window, "final"}
                        /\ tx'[q].sent = tx[q].sent
    BY <1>0, <1>4 DEF HeadPassesExpiry, Transaction
  <2> QED
    BY <2>1 DEF TxKeeps, Signed
<1>5. CASE UNCHANGED tx
  BY <1>5 DEF TxKeeps, Signed
<1> QED
  BY <1>1, <1>2, <1>3, <1>4, <1>5
     DEF Next, vars, outside, DepositStep, PlannerStep, ScreenerStep, SignerStep,
         ExecutorStep, TimeStep, Arrive, IndexBlock, SettleDeposit, SaveSnapshot,
         SnapshotAges, BeginPlanning, PrepareScreening, InsertPlan, CommitPlan, NoPlan,
         ClaimScreening, CompleteScreening, ReleaseScreening, ResultExpires,
         ClaimSigning, ObserveBalance, SigningError, CompleteSigning, ReleaseSigning,
         ClaimBroadcast, ClaimConfirmation, BeginConfirmation, QueryTransaction,
         ReadHead, BehindTransaction, BehindHead, NodeError, ReleaseConfirmation, CompleteConfirmationSuccess,
         CompleteConfirmationFailure, CompleteConfirmation, LeaseLost, Crash,
         LeaseExpires, ScreeningLeaseExpires, BecomesDue

\* A plan's amount is written once.
AmountsStay == \A r \in Runs : Known(r) => sweep'[r].amount = sweep[r].amount

\* The constraints on a row r of the two tables.
Checked(r, row) ==
  /\ row \in Execution
  /\ row.live => row.status \in Open
  /\ row.due => row.status = "confirming"
  /\ row.status = "absent" <=> row.amount = 0
  /\ row.status \in {"ready_for_broadcast", "confirming"} \cup Terminal => Signed(r)

LEMMA RowChecked ==
  ASSUME Executions, TxKeeps, NEW r \in Runs, NEW row, Checked(r, row),
         Known(r) => row.amount = sweep[r].amount, sweep' = [sweep EXCEPT ![r] = row]
  PROVE  Executions' /\ AmountsStay
<1>1. \A q \in Runs : sweep'[q] = IF q = r THEN row ELSE sweep[q]
  BY DEF Executions
<1>2. sweep' \in [Runs -> Execution]
  BY DEF Executions, Checked
<1>3. \A q \in Runs : Checked(q, sweep'[q])
  BY <1>1 DEF Executions, ExecutionCheck, Checked, Signed
<1>4. \A q \in Runs : ExecutionCheck(q)'
  BY <1>3 DEF Checked, ExecutionCheck, TxKeeps, Signed
<1>5. AmountsStay
  BY <1>1 DEF AmountsStay
<1> QED
  BY <1>2, <1>4, <1>5 DEF Executions

LEMMA StepExecutions ==
  ASSUME Shape, Executions, Chained, Knowing, Plans, TxKeeps, [Next]_vars
  PROVE  Executions' /\ AmountsStay
<1> USE Kinds
<1>0. \A r \in Runs : Checked(r, sweep[r])
  BY DEF Executions, ExecutionCheck, Checked, Signed
<1>1. ASSUME NEW w \in Signers \cup Executors, NEW r \in Runs,
             ClaimSigning(w, r) \/ ClaimBroadcast(w, r) \/ ClaimConfirmation(w, r)
      PROVE  Executions' /\ AmountsStay
  <2> DEFINE row == [sweep[r] EXCEPT !.holder = w, !.live = TRUE]
  <2>1. sweep' = [sweep EXCEPT ![r] = row] /\ sweep[r].status \in Open
    BY <1>1 DEF ClaimSigning, ClaimBroadcast, ClaimConfirmation, Leased, Open
  <2>2. Checked(r, row) /\ row.amount = sweep[r].amount
    BY <1>0, <2>1 DEF Checked, Execution
  <2> HIDE DEF row
  <2> QED
    BY <2>1, <2>2, RowChecked
<1>2. ASSUME NEW w \in Signers, CompleteSigning(w) PROVE Executions' /\ AmountsStay
  <2> DEFINE r == worker[w].run
             row == [sweep[r] EXCEPT !.live = FALSE, !.holder = None,
                                     !.status = "ready_for_broadcast"]
  <2>1. r \in Runs /\ sweep[r].status = "planned" /\ Signed(r)
    BY <1>2, Busy DEF CompleteSigning, Shape, FencedLive, Fenced, Knowing
  <2>2. sweep' = [sweep EXCEPT ![r] = row]
    BY <1>2 DEF CompleteSigning, Unleased
  <2>3. /\ row \in Execution /\ row.amount = sweep[r].amount
        /\ row.status = "ready_for_broadcast" /\ ~row.live /\ row.due = sweep[r].due
    <3>1. sweep[r] \in Execution
      BY <1>0, <2>1 DEF Checked
    <3> QED
      BY <3>1 DEF Execution, Open
  <2> HIDE DEF r, row
  <2>4. Checked(r, row)
    BY <1>0, <2>1, <2>3 DEF Checked, Open, Terminal
  <2> QED
    BY <2>1, <2>2, <2>3, <2>4, RowChecked
<1>3. ASSUME NEW w \in Signers, ReleaseSigning(w) PROVE Executions' /\ AmountsStay
  <2> DEFINE r == worker[w].run
             row == [sweep[r] EXCEPT !.live = FALSE, !.holder = None]
  <2>1. r \in Runs
    BY <1>3, Busy DEF ReleaseSigning, Shape
  <2>2. sweep' = [sweep EXCEPT ![r] = row]
    BY <1>3 DEF ReleaseSigning, Unleased
  <2>3. Checked(r, row) /\ row.amount = sweep[r].amount
    BY <1>0, <2>1 DEF Checked, Execution
  <2> HIDE DEF row
  <2> QED
    BY <2>1, <2>2, <2>3, RowChecked
<1>4. ASSUME NEW w \in Executors, BeginConfirmation(w) PROVE Executions' /\ AmountsStay
  <2> DEFINE r == worker[w].run
             row == [sweep[r] EXCEPT !.live = FALSE, !.holder = None,
                                     !.status = "confirming", !.due = TRUE]
  <2>1. r \in Runs /\ sweep[r].status = "ready_for_broadcast"
    BY <1>4, Busy DEF BeginConfirmation, Shape, FencedLive, Fenced
  <2>2. sweep' = [sweep EXCEPT ![r] = row]
    BY <1>4 DEF BeginConfirmation, Unleased
  <2>3. /\ row \in Execution /\ row.amount = sweep[r].amount
        /\ row.status = "confirming" /\ ~row.live /\ row.due = TRUE
    <3>1. sweep[r] \in Execution
      BY <1>0, <2>1 DEF Checked
    <3> QED
      BY <3>1 DEF Execution, Open
  <2> HIDE DEF r, row
  <2>4. Checked(r, row)
    BY <1>0, <2>1, <2>3 DEF Checked, Open, Terminal
  <2> QED
    BY <2>1, <2>2, <2>3, <2>4, RowChecked
<1>5. ASSUME NEW w \in Executors, ReleaseConfirmation(w) PROVE Executions' /\ AmountsStay
  <2> DEFINE r == worker[w].run
             row == [sweep[r] EXCEPT !.live = FALSE, !.holder = None, !.due = FALSE]
  <2>1. r \in Runs
    BY <1>5, Busy DEF ReleaseConfirmation, Shape
  <2>2. sweep' = [sweep EXCEPT ![r] = row]
    BY <1>5 DEF ReleaseConfirmation, Unleased
  <2>3. Checked(r, row) /\ row.amount = sweep[r].amount
    BY <1>0, <2>1 DEF Checked, Execution
  <2> HIDE DEF row
  <2> QED
    BY <2>1, <2>2, <2>3, RowChecked
<1>6. ASSUME NEW w \in Executors,
             CompleteConfirmationSuccess(w) \/ CompleteConfirmationFailure(w)
      PROVE  Executions' /\ AmountsStay
  <2> DEFINE r == worker[w].run
  <2>1. r \in Runs /\ sweep[r].status = "confirming"
    BY <1>6, Busy DEF CompleteConfirmationSuccess, CompleteConfirmationFailure,
       CompleteConfirmation, Shape, FencedLive, Fenced
  <2>2. PICK status \in Terminal : sweep' = [sweep EXCEPT ![r] =
          [Unleased(@) EXCEPT !.status = status, !.due = FALSE]]
    BY <1>6 DEF CompleteConfirmationSuccess, CompleteConfirmationFailure,
       CompleteConfirmation, Terminal
  <2> DEFINE row == [sweep[r] EXCEPT !.live = FALSE, !.holder = None,
                                     !.status = status, !.due = FALSE]
  <2>3. sweep' = [sweep EXCEPT ![r] = row]
    BY <2>2 DEF Unleased
  <2>4. /\ row \in Execution /\ row.amount = sweep[r].amount
        /\ row.status = status /\ ~row.live /\ ~row.due
    <3>1. sweep[r] \in Execution
      BY <1>0, <2>1 DEF Checked
    <3> QED
      BY <3>1 DEF Execution
  <2> HIDE DEF r, row
  <2>5. Checked(r, row)
    BY <1>0, <2>1, <2>4 DEF Checked, Open, Terminal
  <2> QED
    BY <2>1, <2>3, <2>4, <2>5, RowChecked
<1>7. ASSUME NEW r \in Runs, LeaseExpires(r) PROVE Executions' /\ AmountsStay
  <2> DEFINE row == [sweep[r] EXCEPT !.live = FALSE]
  <2>1. sweep' = [sweep EXCEPT ![r] = row]
    BY <1>7 DEF LeaseExpires
  <2>2. Checked(r, row) /\ row.amount = sweep[r].amount
    BY <1>0 DEF Checked, Execution
  <2> HIDE DEF row
  <2> QED
    BY <2>1, <2>2, RowChecked
<1>8. ASSUME NEW r \in Runs, BecomesDue(r) PROVE Executions' /\ AmountsStay
  <2> DEFINE row == [sweep[r] EXCEPT !.due = TRUE]
  <2>1. sweep' = [sweep EXCEPT ![r] = row]
    BY <1>8 DEF BecomesDue
  <2>2. Checked(r, row) /\ row.amount = sweep[r].amount
    BY <1>0, <1>8 DEF Checked, Execution, BecomesDue
  <2> HIDE DEF row
  <2> QED
    BY <2>1, <2>2, RowChecked
<1>9. ASSUME NEW n \in Planners, CommitPlan(n) PROVE Executions' /\ AmountsStay
  <2>0. planner[n].run \in Runs /\ ~Known(planner[n].run)
    BY <1>9 DEF CommitPlan, Shape, Inserting, Known
  <2>1. PICK r \in Runs, h \in 0 .. Len(chain) : planner[n].run = r /\ Worth(r, h)
    BY <2>0, NamesAssumption DEF Plans
  <2> DEFINE row == [sweep[r] EXCEPT !.status = "planned", !.amount = Balance(h)]
  <2>2. sweep' = [sweep EXCEPT ![r] = row] /\ ~Known(r)
    BY <1>9, <2>0, <2>1 DEF CommitPlan, Worth
  <2>3. Balance(h) \in Nat /\ Balance(h) # 0
    <3>1. Balance(h) \in Int
      BY BalanceIsInt
    <3>2. Balance(h) >= Minimum
      BY <2>1 DEF Worth
    <3> QED
      BY <3>1, <3>2, AmountAssumption
  <2>4. Checked(r, row)
    BY <1>0, <2>2, <2>3 DEF Checked, Execution, Open, Terminal, Known
  <2> HIDE DEF row
  <2> QED
    BY <2>2, <2>4, RowChecked
<1>10. CASE UNCHANGED sweep
  BY <1>10 DEF Executions, ExecutionCheck, AmountsStay, TxKeeps, Signed
<1> QED
  BY <1>1, <1>2, <1>3, <1>4, <1>5, <1>6, <1>7, <1>8, <1>9, <1>10
     DEF Next, vars, DepositStep, PlannerStep, ScreenerStep, SignerStep, ExecutorStep,
         TimeStep, Arrive, IndexBlock, SettleDeposit, SaveSnapshot, SnapshotAges,
         BeginPlanning, PrepareScreening, InsertPlan, NoPlan, ClaimScreening, CompleteScreening,
         ReleaseScreening, ResultExpires, ObserveBalance, SignSweep, SigningError,
         Broadcast, Rebroadcast, Send, QueryTransaction, ReadHead, BehindTransaction, BehindHead, NodeError,
         LeaseLost, Crash, ScreeningLeaseExpires, Solidify, HeadPassesExpiry

\* A process that turns to other work knows of what it works on.
LEMMA KnowingWrite ==
  ASSUME Shape, Knowing, RowMoves, TxKeeps, NEW w \in Workers, NEW j,
         worker' = [worker EXCEPT ![w] = j],
         j.at = "idle" => j = Idle,
         w \in Signers \cup Executors /\ j.at # "idle" => j.run \in Runs /\ Known(j.run),
         j.at = "store" => j.run \in Runs /\ tx'[j.run].window # "unsigned"
  PROVE  Knowing'
<1>1. \A v \in Workers : worker'[v] = IF v = w THEN j ELSE worker[v]
  BY DEF Shape, Workings
<1>2. \A r \in Runs : /\ Known(r) => sweep'[r].status # "absent"
                      /\ Signed(r) => tx'[r].window # "unsigned"
  BY KnownStays DEF TxKeeps, Known, Signed
<1>3. \A v \in Workers : ~At(v, "idle") => worker[v].run \in Runs
  BY DEF Shape, Workings, At
<1> SUFFICES ASSUME NEW v \in Workers
             PROVE  /\ worker'[v].at = "idle" => worker'[v] = Idle
                    /\ v \in Signers \cup Executors /\ worker'[v].at # "idle" =>
                         sweep'[worker'[v].run].status # "absent"
                    /\ worker'[v].at = "store" =>
                         tx'[worker'[v].run].window # "unsigned"
  BY DEF Knowing, At, Known, Signed
<1>4. CASE v = w
  <2>1. worker'[v] = j
    BY <1>1, <1>4
  <2> QED
    BY <1>2, <1>4, <2>1
<1>5. CASE v # w
  <2>1. worker'[v] = worker[v]
    BY <1>1, <1>5
  <2> QED
    BY <1>2, <1>3, <2>1 DEF Knowing, At
<1> QED
  BY <1>4, <1>5

LEMMA StepKnowing ==
  ASSUME Shape, Knowing, RowMoves, TxKeeps, [Next]_vars PROVE Knowing'
<1> USE Kinds
<1>1. ASSUME NEW w \in Workers, NEW r \in Runs, NEW at, Take(w, at, r),
             at \notin {"idle", "store"}, w \in Signers \cup Executors => Known(r)
      PROVE  Knowing'
  <2> DEFINE j == [Idle EXCEPT !.at = at, !.run = r]
  <2>1. worker' = [worker EXCEPT ![w] = j] /\ j.at = at /\ j.run = r
    BY <1>1 DEF Take, Idle
  <2> HIDE DEF j
  <2> QED
    BY <1>1, <2>1, KnowingWrite
<1>2. ASSUME NEW w \in Workers, NEW at, Goto(w, at), at # "idle", ~At(w, "idle"),
             at = "store" => Signed(worker[w].run)'
      PROVE  Knowing'
  <2> DEFINE j == [worker[w] EXCEPT !.at = at]
  <2>1. worker[w] \in Job /\ worker[w].run \in Runs
    BY <1>2 DEF Shape, Workings, At
  <2>2. j.at = at /\ j.run = worker[w].run
    BY <2>1 DEF Job
  <2>3. worker' = [worker EXCEPT ![w] = j]
    BY <1>2 DEF Goto
  <2>4. w \in Signers \cup Executors => Known(worker[w].run)
    BY <1>2 DEF Knowing
  <2> HIDE DEF j
  <2>5. at = "store" => tx'[j.run].window # "unsigned"
    <3>1. CASE at = "store"
      <4>1. worker'[w] = j
        BY <2>3 DEF Shape, Workings
      <4> QED
        BY <1>2, <3>1, <2>2, <4>1 DEF Signed
    <3> QED
      BY <3>1
  <2> QED
    BY <1>2, <2>1, <2>2, <2>3, <2>4, <2>5, KnowingWrite
<1>3. ASSUME NEW w \in Workers, Done(w) PROVE Knowing'
  BY <1>3, KnowingWrite DEF Done, Idle
<1>4. ASSUME NEW w \in Screeners, NEW r \in Runs, ClaimScreening(w, r) PROVE Knowing'
  BY <1>1, <1>4, NamesAssumption DEF ClaimScreening
<1>5. ASSUME NEW w \in Signers \cup Executors, NEW r \in Runs,
             ClaimSigning(w, r) \/ ClaimBroadcast(w, r) \/ ClaimConfirmation(w, r)
      PROVE  Knowing'
  <2>1. PICK at \in {"observe", "broadcast", "query"} : Take(w, at, r)
    BY <1>5 DEF ClaimSigning, ClaimBroadcast, ClaimConfirmation
  <2>2. Known(r)
    BY <1>5 DEF ClaimSigning, ClaimBroadcast, ClaimConfirmation, Known
  <2> QED
    BY <1>1, <2>1, <2>2
<1>6. ASSUME NEW w \in Signers, SignSweep(w) PROVE Knowing'
  <2> DEFINE r == worker[w].run
             row == [tx[r] EXCEPT !.window = IF @ = "unsigned" THEN "fresh" ELSE @]
  <2>1. PICK at \in {"release", "store"} : Goto(w, at)
    BY <1>6 DEF SignSweep
  <2>2. ~At(w, "idle") /\ r \in Runs
    BY <1>6, Busy DEF SignSweep, At, Shape
  <2>3. tx[r] \in Transaction
    BY <2>2 DEF Shape, Transactions
  <2>4. tx' = [tx EXCEPT ![r] = row] /\ row.window # "unsigned"
    BY <1>6, <2>3 DEF SignSweep, Transaction
  <2>5. tx'[r].window # "unsigned"
    BY <2>2, <2>4 DEF Shape, Transactions
  <2>6. worker'[w].run = r
    BY <2>1, <2>2 DEF Goto, Shape, Workings, Job
  <2> QED
    BY <1>2, <2>1, <2>2, <2>5, <2>6 DEF Signed
<1>7. ASSUME NEW w \in Signers \cup Executors,
             \/ ObserveBalance(w) \/ SigningError(w) \/ Broadcast(w) \/ Rebroadcast(w)
             \/ NodeError(w) \/ QueryTransaction(w) \/ BehindTransaction(w)
             \/ ReadHead(w) \/ BehindHead(w)
      PROVE  Knowing'
  <2>1. ~At(w, "idle")
    BY <1>7 DEF ObserveBalance, SigningError, Broadcast, Rebroadcast, Send, NodeError,
       QueryTransaction, BehindTransaction, ReadHead, BehindHead, At
  <2>2. PICK at \in {"sign", "release", "sent", "later", "success", "failure", "head",
                     "rebroadcast"} : Goto(w, at)
    BY <1>7 DEF ObserveBalance, SigningError, Broadcast, Rebroadcast, Send, NodeError,
       QueryTransaction, BehindTransaction, ReadHead, BehindHead
  <2> QED
    BY <1>2, <2>1, <2>2
<1>8. CASE UNCHANGED worker
  <2>1. \A r \in Runs : /\ Known(r) => sweep'[r].status # "absent"
                        /\ Signed(r) => tx'[r].window # "unsigned"
    BY KnownStays DEF TxKeeps, Known, Signed
  <2>2. \A v \in Workers : ~At(v, "idle") => worker[v].run \in Runs
    BY DEF Shape, Workings, At
  <2> QED
    BY <1>8, <2>1, <2>2 DEF Knowing, At, Known, Signed
<1> QED
  BY <1>3, <1>4, <1>5, <1>6, <1>7, <1>8
     DEF Next, vars, DepositStep, PlannerStep, ScreenerStep, SignerStep,
         ExecutorStep, TimeStep, Arrive, IndexBlock, SettleDeposit, SaveSnapshot,
         SnapshotAges, BeginPlanning, PrepareScreening, InsertPlan, CommitPlan, NoPlan,
         CompleteScreening, ReleaseScreening, CompleteSigning, ReleaseSigning,
         BeginConfirmation, ReleaseConfirmation, CompleteConfirmationSuccess,
         CompleteConfirmationFailure, CompleteConfirmation, LeaseLost, Crash,
         ResultExpires, LeaseExpires, ScreeningLeaseExpires, BecomesDue, Solidify,
         HeadPassesExpiry

LEMMA StepSent ==
  ASSUME Sent, Knowing, RowMoves, TxKeeps, Shape PROVE Sent'
<1> SUFFICES ASSUME NEW r \in Runs, tx'[r].sent PROVE sweep'[r].status # "absent"
  BY DEF Sent, Known
<1>1. Known(r)
  BY Kinds DEF TxKeeps, Sent, Knowing
<1> QED
  BY <1>1, KnownStays DEF Known

\* A saved snapshot is not saved again, and is recent for a while.
RunMoves ==
  \A r \in Runs : run[r].saved => run'[r].saved /\ run'[r].height = run[r].height

LEMMA StepCaptured ==
  ASSUME Captured, Chained, Grows, [Next]_vars PROVE Captured' /\ RunMoves
<1>0. Len(chain) \in Nat /\ Len(chain') \in Nat /\ Len(chain) <= Len(chain')
  BY DEF Chained, Grows
<1>1. ASSUME NEW r \in Runs, NEW row \in Run, run' = [run EXCEPT ![r] = row],
             row.height \in 0 .. Len(chain), row.recent => row.saved,
             run[r].saved => row.saved /\ row.height = run[r].height
      PROVE  Captured' /\ RunMoves
  <2>1. \A q \in Runs : run'[q] = IF q = r THEN row ELSE run[q]
    BY <1>1 DEF Captured
  <2>2. run' \in [Runs -> Run]
    BY <1>1 DEF Captured
  <2>3. \A q \in Runs : run'[q].height \in 0 .. Len(chain')
    BY <1>0, <1>1, <2>1 DEF Captured
  <2> QED
    BY <1>1, <2>1, <2>2, <2>3 DEF Captured, RunMoves
<1>2. ASSUME NEW r \in Runs, NEW h \in 1 .. Len(chain), SaveSnapshot(r, h)
      PROVE  Captured' /\ RunMoves
  <2> DEFINE row == [height |-> h, saved |-> TRUE, recent |-> TRUE]
  <2>1. row \in Run /\ row.height \in 0 .. Len(chain) /\ row.saved
    BY <1>0 DEF Run
  <2>2. run' = [run EXCEPT ![r] = row] /\ ~run[r].saved
    BY <1>2 DEF SaveSnapshot
  <2> HIDE DEF row
  <2> QED
    BY <1>1, <2>1, <2>2
<1>3. ASSUME NEW r \in Runs, SnapshotAges(r) PROVE Captured' /\ RunMoves
  <2> DEFINE row == [run[r] EXCEPT !.recent = FALSE]
  <2>1. run[r] \in Run /\ run[r].height \in 0 .. Len(chain)
    BY DEF Captured
  <2>2. /\ row \in Run /\ row.height = run[r].height
        /\ row.saved = run[r].saved /\ ~row.recent
    BY <2>1 DEF Run
  <2>3. run' = [run EXCEPT ![r] = row]
    BY <1>3 DEF SnapshotAges
  <2> HIDE DEF row
  <2> QED
    BY <1>1, <2>1, <2>2, <2>3
<1>4. CASE UNCHANGED run
  BY <1>0, <1>4 DEF Captured, RunMoves
<1> QED
  BY <1>2, <1>3, <1>4
     DEF Next, vars, outside, DepositStep, PlannerStep, ScreenerStep, SignerStep,
         ExecutorStep, TimeStep, Arrive, IndexBlock, SettleDeposit, BeginPlanning,
         PrepareScreening, InsertPlan, CommitPlan, NoPlan, ClaimScreening, CompleteScreening,
         ReleaseScreening, ResultExpires, ClaimSigning, ObserveBalance, SignSweep,
         SigningError, CompleteSigning, ReleaseSigning, ClaimBroadcast,
         ClaimConfirmation, Broadcast, Rebroadcast, Send, BeginConfirmation,
         QueryTransaction, ReadHead, BehindTransaction, BehindHead, NodeError, ReleaseConfirmation,
         CompleteConfirmationSuccess, CompleteConfirmationFailure,
         CompleteConfirmation, LeaseLost, Crash, LeaseExpires, ScreeningLeaseExpires,
         BecomesDue, Solidify, HeadPassesExpiry

-----------------------------------------------------------------------------
(* Type correctness *)

\* The balance at a block is what it was: the chain before it and the amounts of
\* the sweeps in it stay.
LEMMA BalanceStays ==
  ASSUME Executions, Executions', Chained, Grows, AmountsStay, NEW h \in 0 .. Len(chain)
  PROVE  Received(h)' = Received(h) /\ Balance(h)' = Balance(h)
<1>1. Upto(h)' = Upto(h)
  BY UptoStays
<1>2. PICK S : S = Runs \cap Upto(h)
  OBVIOUS
<1>3. S \in SUBSET Runs /\ IsFiniteSet(S) /\ \A r \in S : sweep'[r].amount = sweep[r].amount
  BY <1>2, BalanceIsInt DEF AmountsStay
<1>4. PlanAmount(S)' = PlanAmount(S)
  BY <1>3, PlanStays
<1>5. Received(h)' = Received(h)
  <2>1. Received(h) = SumOf(Amount, Events \cap Upto(h))
    BY ReceivedIsSum
  <2>2. Received(h)' = SumOf(Amount, Events \cap Upto(h)')
    BY DEF Received, SumOf, MapThenSumSet, MapThenFoldSet
  <2> QED
    BY <1>1, <2>1, <2>2, Zenon
<1>6. Balance(h) = Received(h) - PlanAmount(S)
  BY <1>2, Zenon DEF Balance
<1>7. Balance(h)' = Received(h)' - PlanAmount(S)'
  BY <1>1, <1>2, Zenon DEF Balance
<1> QED
  BY <1>4, <1>5, <1>6, <1>7

LEMMA WorthStays ==
  ASSUME Executions, Executions', Chained, Grows, AmountsStay, RunMoves,
         NEW r \in Runs, NEW h \in 0 .. Len(chain), Worth(r, h)
  PROVE  Worth(r, h)'
<1>1. run'[r].saved /\ run'[r].height = h
  BY DEF Worth, RunMoves
<1>2. h \in 0 .. Len(chain') /\ Upto(h)' = Upto(h)
  BY UptoStays
<1>3. Balance(h)' >= Minimum
  BY BalanceStays DEF Worth
<1>4. \A e \in Events \cap Upto(h)' : settled'[e] = "clean"
  BY <1>2 DEF Worth, Grows
<1> QED
  BY <1>1, <1>2, <1>3, <1>4 DEF Worth

LEMMA StepPlans ==
  ASSUME Shape, Executions, Executions', Chained, Grows, AmountsStay, Captured,
         RunMoves, PlannerMoves, Plans, [Next]_vars
  PROVE  Plans'
<1> SUFFICES ASSUME NEW n \in Planners, planner'[n].run # None
             PROVE  \E r \in Runs, h \in 0 .. Len(chain') :
                      planner'[n].run = r /\ Worth(r, h)'
  BY DEF Plans
<1>1. ASSUME NEW r \in Runs, NEW h \in 0 .. Len(chain), planner'[n].run = r, Worth(r, h)
      PROVE  \E q \in Runs, k \in 0 .. Len(chain') : planner'[n].run = q /\ Worth(q, k)'
  <2>1. Worth(r, h)' /\ h \in 0 .. Len(chain')
    BY <1>1, WorthStays, UptoStays
  <2> QED
    BY <1>1, <2>1
<1>2. CASE planner'[n].run = planner[n].run
  BY <1>1, <1>2 DEF Plans
<1>3. ASSUME NEW r \in Runs, BeginPlanning(n, r), planner'[n].run = r
      PROVE  \E q \in Runs, k \in 0 .. Len(chain') : planner'[n].run = q /\ Worth(q, k)'
  <2>1. PICK h \in 0 .. Len(chain) : h = run[r].height
    BY DEF Captured
  <2>2. Worth(r, h)
    BY <1>3, <2>1 DEF BeginPlanning, Latest, Candidate, Captured, Worth
  <2> QED
    BY <1>1, <1>3, <2>2
<1> QED
  BY <1>2, <1>3 DEF PlannerMoves

\* The inductive invariant: the rows' types and constraints rest on what the
\* processes and the planners know of them.
Sound ==
  /\ Shape /\ Executions /\ Chained /\ Knowing /\ Sent /\ Captured /\ Plans

LEMMA InitSound == Init => Sound
<1> SUFFICES ASSUME Init PROVE Sound
  OBVIOUS
<1>1. Shape
  BY InitShape
<1>2. Executions
  <2>1. sweep \in [Runs -> Execution]
    BY DEF Init, Execution
  <2> QED
    BY <2>1 DEF Executions, Init, ExecutionCheck, Open, Terminal
<1>3. Chained
  <2>1. chain \in Seq(Events \cup Runs) /\ Len(chain) = 0
    BY DEF Init
  <2> QED
    BY <2>1 DEF Init, Chained
<1>4. Knowing /\ Sent
  BY DEF Init, Knowing, Sent, At, Idle
<1>5. Captured
  BY DEF Init, Captured, Run
<1>6. Plans
  BY DEF Init, Plans, NotPlanning
<1> QED
  BY <1>1, <1>2, <1>3, <1>4, <1>5, <1>6 DEF Sound

LEMMA StepSound == ASSUME Sound, [Next]_vars PROVE Sound' /\ Grows /\ AmountsStay /\ RunMoves
<1>1. Shape' /\ RowMoves /\ PlannerMoves /\ TxKeeps
  BY StepShape, StepTxKeeps DEF Sound
<1>2. Executions' /\ AmountsStay
  BY <1>1, StepExecutions DEF Sound
<1>3. Chained' /\ Grows
  BY <1>1, StepChained DEF Sound
<1>4. Knowing' /\ Sent'
  BY <1>1, StepKnowing, StepSent DEF Sound
<1>5. Captured' /\ RunMoves
  BY <1>3, StepCaptured DEF Sound
<1>6. Plans'
  BY <1>1, <1>2, <1>3, <1>5, StepPlans DEF Sound
<1> QED
  BY <1>1, <1>2, <1>3, <1>4, <1>5, <1>6 DEF Sound

\* The rows keep their types and constraints, and no worker signs, sends or
\* confirms a sweep that is not there, for any number of planners and workers.
THEOREM TypeCorrect == Spec => []TypeOK
<1>1. Sound /\ [Next]_vars => Sound'
  BY StepSound
<1>2. Sound => TypeOK
  <2> SUFFICES ASSUME Sound, NEW w \in Signers \cup Executors, worker[w] # Idle
               PROVE  sweep[worker[w].run].status # "absent"
    BY DEF Sound, Shape, Jobs, Transactions, Plannings, Workings, Histories, Executions,
       Chained, Captured, TypeOK
  <2> QED
    BY Kinds DEF Sound, Knowing, Known
<1> QED
  BY InitSound, <1>1, <1>2, PTL DEF Spec

-----------------------------------------------------------------------------
(* Only screened money is swept *)

Claimed == OpenSweeps \cup Succeeded
Clean == {e \in Events : settled[e] = "clean"}

\* What a planner found in its snapshot: what is missing from the balance is what
\* the succeeded sweeps took.
Explained(h) == Balance(h) = Received(h) - SumOf(Amounts, Succeeded)

Explains ==
  \A n \in Planners : planner[n].run # None /\ planner[n].plans = Planned =>
    \E r \in Runs, h \in 0 .. Len(chain) :
      planner[n].run = r /\ Worth(r, h) /\ Explained(h)

Covered == SumOf(Amounts, Claimed \ blind) <= SumOf(Amount, Clean)

\* While no plan is added to those that a planner knows of, no sweep is open, so
\* none succeeds or fails: what explains the balance of its snapshot still does
\* when its plan is committed.
CoverInv ==
  /\ Sound /\ PlannersSee
  /\ IsFiniteSet(Planned)
  /\ Explains /\ Covered

LEMMA Finites ==
  ASSUME Sound, IsFiniteSet(Planned)
  PROVE  /\ Claimed \subseteq Planned /\ Succeeded \subseteq Planned /\ Planned \subseteq Runs
         /\ IsFiniteSet(Claimed) /\ IsFiniteSet(Succeeded)
         /\ IsFiniteSet(Clean) /\ \A e \in Clean : Amount[e] \in Nat
<1>1. Claimed \subseteq Planned /\ Succeeded \subseteq Planned /\ Planned \subseteq Runs
  BY DEF Claimed, OpenSweeps, Succeeded, Planned, Known, Open
<1>2. Chained /\ Len(chain) \in Nat
  BY DEF Sound, Chained
<1>3. Clean \subseteq Upto(Len(chain))
  BY <1>2 DEF Clean, Chained
<1>4. IsFiniteSet(Upto(Len(chain)))
  BY <1>2, UptoFinite
<1>5. IsFiniteSet(Clean)
  BY <1>3, <1>4, FS_Subset
<1>6. \A e \in Clean : Amount[e] \in Nat
  BY AmountAssumption DEF Clean
<1> QED
  BY <1>1, <1>5, <1>6, FS_Subset

\* Sums of plans that are there do not change.
LEMMA ClaimStays ==
  ASSUME Executions, AmountsStay, NEW S, S \subseteq Planned, IsFiniteSet(S)
  PROVE  SumOf(Amounts', S) = SumOf(Amounts, S)
<1> DEFINE f == Amounts
           g == Amounts'
<1>1. \A r \in S : f[r] \in Nat /\ g[r] = f[r]
  BY DEF Amounts, AmountsStay, Planned, Known, Executions, Execution
<1> HIDE DEF f, g
<1>2. SumOf(g, S) = SumOf(f, S)
  BY <1>1, SumNat, SumSame
<1> QED
  BY <1>2 DEF f, g

LEMMA InitCover == Init => CoverInv
<1> SUFFICES ASSUME Init PROVE CoverInv
  OBVIOUS
<1>1. Sound /\ PlannersSee
  BY InitSound, InitOneOpen DEF OneOpenInv
<1>2. Planned = {} /\ Claimed \ blind = {} /\ Clean = {}
  BY DEF Init, Planned, Known, Claimed, OpenSweeps, Succeeded, Open, Clean
<1>3. IsFiniteSet(Planned)
  BY <1>2, FS_EmptySet
<1>4. Explains
  BY DEF Init, Explains, NotPlanning
<1>5. Covered
  <2>1. SumOf(Amounts, Claimed \ blind) = 0
    BY <1>2, SumEmpty, Zenon
  <2>2. SumOf(Amount, Clean) = 0
    BY <1>2, SumEmpty, Zenon
  <2> QED
    BY <2>1, <2>2 DEF Covered
<1> QED
  BY <1>1, <1>3, <1>4, <1>5 DEF CoverInv

\* At most one more plan in a step.
LEMMA StepFinite ==
  ASSUME RowMoves, IsFiniteSet(Planned) PROVE IsFiniteSet(Planned')
<1>1. PICK r : Planned' \subseteq Planned \cup {r}
  BY DEF RowMoves, Keeps, Moves, Planned, Known
<1>2. IsFiniteSet(Planned \cup {r})
  BY FS_AddElement
<1> QED
  BY <1>1, <1>2, FS_Subset

\* No sweep is open while a planner is under way, so none of them succeeds.
LEMMA SuccessWaits ==
  ASSUME RowMoves, OpenSweeps = {} PROVE Succeeded' = Succeeded
BY DEF RowMoves, Keeps, Moves, OpenSweeps, Open, Succeeded

LEMMA ExplainedStays ==
  ASSUME Sound, Sound', Grows, AmountsStay, IsFiniteSet(Planned), Succeeded' = Succeeded,
         NEW h \in 0 .. Len(chain), Explained(h)
  PROVE  Explained(h)'
<1>1. SumOf(Amounts', Succeeded) = SumOf(Amounts, Succeeded)
  BY Finites, ClaimStays DEF Sound
<1>2. SumOf(Amounts', Succeeded') = SumOf(Amounts', Succeeded)
  BY Zenon
<1>3. Received(h)' = Received(h) /\ Balance(h)' = Balance(h)
  BY BalanceStays DEF Sound
<1> QED
  BY <1>1, <1>2, <1>3 DEF Explained

LEMMA StepExplains ==
  ASSUME CoverInv, Sound', Grows, AmountsStay, RunMoves, PlannerMoves, RowMoves, [Next]_vars
  PROVE  Explains'
<1> SUFFICES ASSUME NEW n \in Planners, planner'[n].run # None, planner'[n].plans = Planned'
             PROVE  \E r \in Runs, h \in 0 .. Len(chain') :
                      planner'[n].run = r /\ Worth(r, h)' /\ Explained(h)'
  BY DEF Explains
<1>1. ASSUME NEW r \in Runs, NEW h \in 0 .. Len(chain), planner'[n].run = r,
             Worth(r, h), Explained(h), OpenSweeps = {}
      PROVE  \E q \in Runs, k \in 0 .. Len(chain') :
               planner'[n].run = q /\ Worth(q, k)' /\ Explained(k)'
  <2>1. Worth(r, h)' /\ h \in 0 .. Len(chain')
    BY <1>1, WorthStays, UptoStays DEF CoverInv, Sound
  <2>2. Explained(h)'
    BY <1>1, SuccessWaits, ExplainedStays DEF CoverInv
  <2> QED
    BY <1>1, <2>1, <2>2
<1>2. CASE planner'[n].run = planner[n].run /\ planner'[n].plans = planner[n].plans
  <2>1. planner[n].plans = Planned /\ OpenSweeps = {}
    <3>1. planner[n].plans \subseteq Planned
      BY <1>2 DEF CoverInv, PlannersSee
    <3>2. Planned \subseteq Planned'
      BY PlannedMoves DEF CoverInv, Sound
    <3>3. planner[n].plans = Planned
      BY <1>2, <3>1, <3>2
    <3> QED
      BY <1>2, <3>3 DEF CoverInv, PlannersSee
  <2>2. PICK r \in Runs, h \in 0 .. Len(chain) :
          planner[n].run = r /\ Worth(r, h) /\ Explained(h)
    BY <1>2, <2>1 DEF CoverInv, Explains
  <2> QED
    BY <1>1, <1>2, <2>1, <2>2
<1>3. ASSUME NEW r \in Runs, BeginPlanning(n, r), planner'[n].run = r
      PROVE  \E q \in Runs, k \in 0 .. Len(chain') :
               planner'[n].run = q /\ Worth(q, k)' /\ Explained(k)'
  <2>1. PICK h \in 0 .. Len(chain) : h = run[r].height
    BY DEF CoverInv, Sound, Captured
  <2>2. Worth(r, h) /\ OpenSweeps = {} /\ Balance(h) = Received(h) - PlanAmount(Succeeded)
    BY <1>3, <2>1 DEF BeginPlanning, Latest, Candidate, CoverInv, Sound, Captured, Worth
  <2>3. PlanAmount(Succeeded) = SumOf(Amounts, Succeeded)
    BY Finites, PlanIsSum DEF CoverInv, Sound
  <2>4. Explained(h)
    BY <2>2, <2>3 DEF Explained
  <2> QED
    BY <1>1, <1>3, <2>2, <2>4
<1> QED
  BY <1>2, <1>3 DEF PlannerMoves

\* What was screened and found clean only becomes more.
LEMMA CleanGrows ==
  ASSUME Sound, Sound', IsFiniteSet(Planned), IsFiniteSet(Planned'), Grows
  PROVE  /\ SumOf(Amount, Clean) \in Nat /\ SumOf(Amount, Clean') \in Nat
         /\ SumOf(Amount, Clean) <= SumOf(Amount, Clean')
<1>1. Clean \subseteq Clean'
  BY DEF Clean, Grows
<1>2. IsFiniteSet(Clean') /\ \A e \in Clean' : Amount[e] \in Nat
  <2>1. Clean' \subseteq Upto(Len(chain))'
    BY DEF Sound, Chained, Clean
  <2>2. PICK l : l = Len(chain')
    OBVIOUS
  <2>3. IsFiniteSet(Upto(Len(chain))')
    <3> DEFINE f == [i \in 1 .. l |-> chain'[i]]
               U == {chain'[i] : i \in 1 .. l}
    <3>1. l \in Nat
      BY <2>2 DEF Grows
    <3>2. f \in Surjection(1 .. l, U)
      BY DEF Surjection
    <3>3. IsFiniteSet(1 .. l)
      BY <3>1, FS_Interval
    <3> HIDE DEF f
    <3>4. IsFiniteSet(U)
      <4> HIDE DEF U
      <4> QED
        BY <3>2, <3>3, FS_Surjection
    <3> QED
      BY <2>2, <3>4 DEF Upto
  <2>4. IsFiniteSet(Clean')
    BY <2>1, <2>3, FS_Subset
  <2> QED
    BY <2>4, AmountAssumption DEF Clean
<1> QED
  BY <1>1, <1>2, SumNat, SumGrows, Finites

LEMMA StepCovered ==
  ASSUME CoverInv, Sound', IsFiniteSet(Planned'), Grows, AmountsStay, RowMoves,
         HistoryMoves, [Next]_vars
  PROVE  Covered'
<1>0. /\ Claimed \subseteq Planned /\ Succeeded \subseteq Planned /\ Planned \subseteq Runs
      /\ IsFiniteSet(Claimed) /\ IsFiniteSet(Succeeded) /\ IsFiniteSet(Clean)
  BY Finites DEF CoverInv
<1>1. /\ SumOf(Amount, Clean) \in Nat /\ SumOf(Amount, Clean') \in Nat
      /\ SumOf(Amount, Clean) <= SumOf(Amount, Clean')
  BY CleanGrows DEF CoverInv
<1>2. \A r \in Planned : Amounts[r] \in Nat
  BY DEF Planned, Amounts, CoverInv, Sound, Executions, Execution
<1>3. CASE Claimed' \ blind' \subseteq Claimed \ blind
  <2> DEFINE C == Claimed \ blind
  <2>0. C \subseteq Planned /\ IsFiniteSet(C)
    BY <1>0, FS_Difference
  <2>1. PICK S : S = Claimed' \ blind'
    OBVIOUS
  <2>2. S \subseteq Planned /\ IsFiniteSet(S) /\ S \in SUBSET C
    BY <1>3, <2>0, <2>1, FS_Subset
  <2>3. SumOf(Amounts', S) = SumOf(Amounts, S)
    BY <2>2, ClaimStays DEF CoverInv, Sound
  <2>4. SumOf(Amounts, S) \in Nat /\ SumOf(Amounts, S) <= SumOf(Amounts, C)
    <3> HIDE DEF C
    <3> QED
      BY <1>2, <2>0, <2>2, SumGrows
  <2>5. SumOf(Amounts, C) \in Nat
    <3> HIDE DEF C
    <3> QED
      BY <1>2, <2>0, SumNat
  <2>6. SumOf(Amounts, C) <= SumOf(Amount, Clean)
    BY DEF CoverInv, Covered
  <2>7. SumOf(Amounts', S) <= SumOf(Amount, Clean')
    BY <1>1, <2>3, <2>4, <2>5, <2>6
  <2> QED
    BY <2>1, <2>7 DEF Covered
<1>4. ASSUME NEW n \in Planners, CommitPlan(n), Moves(planner[n].run, "absent", "planned"),
             planner[n].run \notin blind'
      PROVE  Covered'
  <2>1. /\ planner[n].run \in Runs /\ planner[n].run # None
        /\ planner[n].plans = Planned /\ OpenSweeps = {}
    <3>1. planner[n].run \in Runs
      BY <1>4 DEF Moves
    <3>2. planner[n].plans = Planned
      BY <1>4 DEF CommitPlan
    <3> QED
      BY <3>1, <3>2, NamesAssumption DEF CoverInv, PlannersSee
  <2>2. PICK r \in Runs, h \in 0 .. Len(chain) :
          planner[n].run = r /\ Worth(r, h) /\ Explained(h)
    BY <2>1 DEF CoverInv, Explains
  <2>3. r \notin Succeeded /\ Claimed' = Succeeded \cup {r}
    BY <1>4, <2>1, <2>2 DEF Moves, Claimed, OpenSweeps, Succeeded, Open
  <2>4. Amounts'[r] = Balance(h)
    <3>1. run[r].height = h
      BY <2>2 DEF Worth
    <3>2. sweep' = [sweep EXCEPT ![r].status = "planned", ![r].amount = Balance(h)]
      BY <1>4, <2>2, <3>1 DEF CommitPlan
    <3>3. sweep[r] \in Execution
      BY DEF CoverInv, Sound, Executions
    <3>4. sweep'[r] = [sweep[r] EXCEPT !.status = "planned", !.amount = Balance(h)]
      BY <3>2 DEF CoverInv, Sound, Executions
    <3>5. sweep'[r].amount = Balance(h)
      BY <3>3, <3>4 DEF Execution
    <3> QED
      BY <3>5 DEF Amounts
  <2>5. SumOf(Amounts', Succeeded) = SumOf(Amounts, Succeeded)
    BY <1>0, ClaimStays DEF CoverInv, Sound
  <2>6. /\ Summable(Amounts', Succeeded) /\ SumOf(Amounts, Succeeded) \in Nat
        /\ \A q \in Succeeded : Amounts'[q] \in Nat
    <3>1. \A q \in Succeeded : Amounts'[q] = Amounts[q]
      BY <1>0 DEF Amounts, AmountsStay, Planned, Known
    <3> QED
      BY <1>0, <1>2, <3>1, SumNat DEF Summable
  <2>7. Balance(h) \in Int /\ Received(h) \in Nat
        /\ Received(h) = SumOf(Amount, Events \cap Upto(h))
    BY BalanceIsInt, ReceivedIsSum DEF CoverInv, Sound
  <2>8. SumOf(Amounts', Succeeded \cup {r}) = SumOf(Amounts', Succeeded) + Balance(h)
    <3> DEFINE g == Amounts'
    <3>1. g[r] = Balance(h) /\ Summable(g, Succeeded)
      BY <2>4, <2>6
    <3> HIDE DEF g
    <3>2. SumOf(g, Succeeded \cup {r}) = SumOf(g, Succeeded) + g[r]
      BY <2>3, <2>7, <3>1, SumAdd
    <3> QED
      BY <3>1, <3>2 DEF g
  <2>9. SumOf(Amounts', Succeeded \cup {r}) = Received(h)
    BY <2>2, <2>5, <2>6, <2>7, <2>8 DEF Explained
  <2>10. SumOf(Amount, Events \cap Upto(h)) <= SumOf(Amount, Clean)
    <3>1. Events \cap Upto(h) \in SUBSET Clean
      BY <2>2 DEF Worth, Clean
    <3>2. \A e \in Clean : Amount[e] \in Nat
      BY AmountAssumption DEF Clean
    <3> QED
      BY <1>0, <3>1, <3>2, SumGrows
  <2>11. /\ SumOf(Amounts', Claimed' \ blind') \in Nat
         /\ SumOf(Amounts', Claimed' \ blind') <= SumOf(Amounts', Succeeded \cup {r})
    <3> DEFINE g == Amounts'
               C == Claimed' \ blind'
    <3>1. C \in SUBSET (Succeeded \cup {r}) /\ IsFiniteSet(Succeeded \cup {r})
      BY <1>0, <2>3, FS_AddElement
    <3>2. \A q \in Succeeded \cup {r} : g[q] \in Nat
      <4>1. Balance(h) \in Nat
        BY <2>2, <2>7, AmountAssumption DEF Worth
      <4> QED
        BY <2>4, <2>6, <4>1
    <3> HIDE DEF g, C
    <3>3. SumOf(g, C) \in Nat /\ SumOf(g, C) <= SumOf(g, Succeeded \cup {r})
      BY <3>1, <3>2, SumGrows
    <3> QED
      BY <3>3 DEF g, C
  <2> QED
    BY <1>1, <2>7, <2>9, <2>10, <2>11 DEF Covered
<1>5. \/ Claimed' \ blind' \subseteq Claimed \ blind
      \/ \E n \in Planners : /\ CommitPlan(n)
                             /\ Moves(planner[n].run, "absent", "planned")
                             /\ planner[n].run \notin blind'
  <2>1. blind \subseteq blind'
    BY DEF HistoryMoves, CommitPlan
  <2>2. \/ Claimed' \subseteq Claimed
        \/ \E n \in Planners : /\ CommitPlan(n)
                               /\ Moves(planner[n].run, "absent", "planned")
                               /\ Claimed' \subseteq Claimed \cup {planner[n].run}
    BY DEF RowMoves, Keeps, Moves, Claimed, OpenSweeps, Succeeded, Open
  <2> QED
    BY <2>1, <2>2
<1> QED
  BY <1>3, <1>4, <1>5

\* The sweeps that are open or done, but for the plans of a planner that did not
\* see another's, never claim more than the deposits that were screened, allowed
\* and matched, for any number of planners.
THEOREM OnlyScreenedMoneySweptAlways == Spec => []OnlyScreenedMoneySwept
<1>1. CoverInv /\ [Next]_vars => CoverInv'
  <2> SUFFICES ASSUME CoverInv, [Next]_vars PROVE CoverInv'
    OBVIOUS
  <2>1. Sound' /\ Grows /\ AmountsStay /\ RunMoves
    BY StepSound DEF CoverInv
  <2>2. RowMoves /\ PlannerMoves /\ HistoryMoves
    BY StepShape DEF CoverInv, Sound
  <2>3. PlannersSee'
    BY <2>2, StepSee DEF CoverInv, Sound
  <2>4. IsFiniteSet(Planned')
    BY <2>2, StepFinite DEF CoverInv
  <2>5. Explains'
    BY <2>1, <2>2, StepExplains
  <2>6. Covered'
    BY <2>1, <2>2, <2>4, StepCovered
  <2> QED
    BY <2>1, <2>3, <2>4, <2>5, <2>6 DEF CoverInv
<1>2. CoverInv => OnlyScreenedMoneySwept
  <2> SUFFICES ASSUME CoverInv PROVE OnlyScreenedMoneySwept
    OBVIOUS
  <2> DEFINE C == Claimed \ blind
  <2>1. C \in SUBSET Runs /\ IsFiniteSet(C)
    BY Finites, FS_Difference DEF CoverInv
  <2>2. PlanAmount(C) = SumOf(Amounts, C)
    <3> HIDE DEF C
    <3> QED
      BY <2>1, PlanIsSum DEF CoverInv, Sound
  <2>3. PlanAmount(C) <= SumOf(Amount, Clean)
    BY <2>2 DEF CoverInv, Covered
  <2> QED
    BY <2>3 DEF OnlyScreenedMoneySwept, Claimed, Clean, SumOf
<1> QED
  BY InitCover, <1>1, <1>2, PTL DEF Spec
=============================================================================

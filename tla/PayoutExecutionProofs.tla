----------------------- MODULE PayoutExecutionProofs -----------------------
(***************************************************************************)
(* Theorems about PayoutExecution, for any number of payouts, workers and  *)
(* transactions.                                                           *)
(***************************************************************************)
EXTENDS PayoutExecution, TLAPS

-----------------------------------------------------------------------------
(* Type invariant *)

LEMMA InitType == Init => TypeOK
BY WorkersAssumption
   DEF Init, TypeOK, RowsOK, BooksOK, ChainOK, JobsOK, Row, Job, Tx,
       LifecycleCheck, JobCheck, Idle, Statuses, Terminal, InFlight, Freeze,
       Entries, Workers

\* A row rewritten to a well-formed row leaves the table well-formed.
LEMMA RowWrite ==
  ASSUME RowsOK, NEW p \in Payouts, NEW row \in Row, LifecycleCheck(row),
         payout' = [payout EXCEPT ![p] = row]
  PROVE  RowsOK'
BY DEF RowsOK

LEMMA JobWrite ==
  ASSUME JobsOK, NEW w \in Workers, NEW j \in Job, JobCheck(j),
         job' = [job EXCEPT ![w] = j]
  PROVE  JobsOK'
BY DEF JobsOK

LEMMA RowFacts ==
  ASSUME RowsOK, NEW p \in Payouts
  PROVE  payout[p] \in Row /\ LifecycleCheck(payout[p])
BY DEF RowsOK

LEMMA JobFacts ==
  ASSUME JobsOK, NEW w \in Workers, ~At(w, "idle")
  PROVE  /\ job[w] \in Job
         /\ JobCheck(job[w])
         /\ job[w].payout \in Payouts
BY WorkersAssumption DEF JobsOK, Job, JobCheck, At

LEMMA IdleJob == Idle \in Job /\ JobCheck(Idle)
BY DEF Idle, Job, JobCheck

LEMMA WorkerKinds == SigningWorkers \subseteq Workers /\ ExecutionWorkers \subseteq Workers
BY DEF Workers

LEMMA StepType == ASSUME TypeOK, [Next]_vars PROVE TypeOK'
<1> USE WorkerKinds
<1> USE DEF TypeOK
<1>1. ASSUME NEW w \in SigningWorkers, NEW p \in Payouts, ClaimSigning(w, p)
      PROVE  TypeOK'
  <2> DEFINE row == [payout[p] EXCEPT !.owner = WorkerId[w], !.live = TRUE,
                                   !.holder = w]
            j == [Idle EXCEPT !.at = "sign", !.payout = p]
  <2>1. payout[p] \in Row /\ LifecycleCheck(payout[p])
    BY RowFacts
  <2>2. row \in Row /\ LifecycleCheck(row)
    BY <1>1, <2>1, WorkersAssumption, WorkerIdAssumption DEF ClaimSigning,
       Lease, Row, LifecycleCheck, Statuses, Terminal, InFlight, At, Job,
       JobCheck, SigningSteps, ExecutionSteps, Workers
  <2>3. RowsOK'
    BY <1>1, <2>2, RowWrite DEF ClaimSigning, Lease
  <2>4. j \in Job /\ JobCheck(j)
    BY <1>1, <2>1, WorkersAssumption, TxAssumption DEF ClaimSigning, Job,
       JobCheck, SigningSteps, ExecutionSteps, Idle, At, Row, LifecycleCheck,
       Statuses, Terminal, InFlight
  <2>5. JobsOK'
    BY <1>1, <2>4, JobWrite DEF ClaimSigning, Goto
  <2> QED
    BY <1>1, <2>3, <2>5 DEF ClaimSigning, BooksOK, ChainOK
<1>2. ASSUME NEW w \in ExecutionWorkers, NEW p \in Payouts, ClaimBroadcast(w, p)
      PROVE  TypeOK'
  <2> DEFINE row == [payout[p] EXCEPT !.owner = WorkerId[w], !.live = TRUE,
                                   !.holder = w]
            j == [Idle EXCEPT !.at = "broadcast", !.payout = p, !.tx = payout[p].tx]
  <2>1. payout[p] \in Row /\ LifecycleCheck(payout[p])
    BY RowFacts
  <2>2. row \in Row /\ LifecycleCheck(row)
    BY <1>2, <2>1, WorkersAssumption, WorkerIdAssumption DEF ClaimBroadcast,
       Lease, Row, LifecycleCheck, Statuses, Terminal, InFlight, At, Job,
       JobCheck, SigningSteps, ExecutionSteps, Workers
  <2>3. RowsOK'
    BY <1>2, <2>2, RowWrite DEF ClaimBroadcast, Lease
  <2>4. j \in Job /\ JobCheck(j)
    BY <1>2, <2>1, WorkersAssumption, TxAssumption DEF ClaimBroadcast, Job,
       JobCheck, SigningSteps, ExecutionSteps, Idle, At, Row, LifecycleCheck,
       Statuses, Terminal, InFlight
  <2>5. JobsOK'
    BY <1>2, <2>4, JobWrite DEF ClaimBroadcast, Goto
  <2> QED
    BY <1>2, <2>3, <2>5 DEF ClaimBroadcast, BooksOK, ChainOK
<1>3. ASSUME NEW w \in ExecutionWorkers, NEW p \in Payouts, ClaimConfirmation(w, p)
      PROVE  TypeOK'
  <2> DEFINE row == [payout[p] EXCEPT !.owner = WorkerId[w], !.live = TRUE,
                                   !.holder = w]
            j == [Idle EXCEPT !.at = "query", !.payout = p, !.tx = payout[p].tx]
  <2>1. payout[p] \in Row /\ LifecycleCheck(payout[p])
    BY RowFacts
  <2>2. row \in Row /\ LifecycleCheck(row)
    BY <1>3, <2>1, WorkersAssumption, WorkerIdAssumption DEF
       ClaimConfirmation, Lease, Row, LifecycleCheck, Statuses, Terminal,
       InFlight, At, Job, JobCheck, SigningSteps, ExecutionSteps, Workers
  <2>3. RowsOK'
    BY <1>3, <2>2, RowWrite DEF ClaimConfirmation, Lease
  <2>4. j \in Job /\ JobCheck(j)
    BY <1>3, <2>1, WorkersAssumption, TxAssumption DEF ClaimConfirmation, Job,
       JobCheck, SigningSteps, ExecutionSteps, Idle, At, Row, LifecycleCheck,
       Statuses, Terminal, InFlight
  <2>5. JobsOK'
    BY <1>3, <2>4, JobWrite DEF ClaimConfirmation, Goto
  <2> QED
    BY <1>3, <2>3, <2>5 DEF ClaimConfirmation, BooksOK, ChainOK
<1>4. ASSUME NEW w \in SigningWorkers, CompleteSigning(w)
      PROVE  TypeOK'
  <2> DEFINE p == job[w].payout
            row == [payout[p] EXCEPT !.owner = None, !.live = FALSE,
                                   !.status = "ready_for_broadcast",
                                   !.tx = job[w].tx]
  <2>1. ~At(w, "idle")
    BY <1>4 DEF CompleteSigning, At
  <2>2. p \in Payouts /\ job[w] \in Job /\ JobCheck(job[w])
    BY <2>1, JobFacts
  <2>3. payout[p] \in Row /\ LifecycleCheck(payout[p])
    BY <2>2, RowFacts
  <2>4. row \in Row /\ LifecycleCheck(row)
    BY <1>4, <2>2, <2>3, TxAssumption DEF CompleteSigning, FencedLive, Fenced,
       Unleased, Row, LifecycleCheck, Statuses, Terminal, InFlight, At, Job,
       JobCheck, SigningSteps, ExecutionSteps, Workers
  <2>5. RowsOK'
    BY <1>4, <2>2, <2>4, RowWrite DEF CompleteSigning, FencedLive, Fenced,
       Unleased
  <2>6. JobsOK'
    BY <1>4, IdleJob, JobWrite DEF CompleteSigning, Done
  <2> QED
    BY <1>4, <2>5, <2>6 DEF CompleteSigning, BooksOK, ChainOK
<1>5. ASSUME NEW w \in SigningWorkers, ReleaseSigning(w)
      PROVE  TypeOK'
  <2> DEFINE p == job[w].payout
            row == [payout[p] EXCEPT !.owner = None, !.live = FALSE]
  <2>1. ~At(w, "idle")
    BY <1>5 DEF ReleaseSigning, At
  <2>2. p \in Payouts /\ job[w] \in Job /\ JobCheck(job[w])
    BY <2>1, JobFacts
  <2>3. payout[p] \in Row /\ LifecycleCheck(payout[p])
    BY <2>2, RowFacts
  <2>4. row \in Row /\ LifecycleCheck(row)
    BY <1>5, <2>2, <2>3 DEF ReleaseSigning, Fenced, Unleased, Row,
       LifecycleCheck, Statuses, Terminal, InFlight, At, Job, JobCheck,
       SigningSteps, ExecutionSteps, Workers
  <2>5. RowsOK'
    BY <1>5, <2>2, <2>4, RowWrite DEF ReleaseSigning, Fenced, Unleased
  <2>6. JobsOK'
    BY <1>5, IdleJob, JobWrite DEF ReleaseSigning, Done
  <2> QED
    BY <1>5, <2>5, <2>6 DEF ReleaseSigning, BooksOK, ChainOK
<1>6. ASSUME NEW w \in ExecutionWorkers, BeginConfirmation(w)
      PROVE  TypeOK'
  <2> DEFINE p == job[w].payout
            row == [payout[p] EXCEPT !.owner = None, !.live = FALSE,
                                   !.status = "confirming", !.due = TRUE]
  <2>1. ~At(w, "idle")
    BY <1>6 DEF BeginConfirmation, At
  <2>2. p \in Payouts /\ job[w] \in Job /\ JobCheck(job[w])
    BY <2>1, JobFacts
  <2>3. payout[p] \in Row /\ LifecycleCheck(payout[p])
    BY <2>2, RowFacts
  <2>4. row \in Row /\ LifecycleCheck(row)
    BY <1>6, <2>2, <2>3 DEF BeginConfirmation, FencedLive, Fenced, Unleased,
       Row, LifecycleCheck, Statuses, Terminal, InFlight, At, Job, JobCheck,
       SigningSteps, ExecutionSteps, Workers
  <2>5. RowsOK'
    BY <1>6, <2>2, <2>4, RowWrite DEF BeginConfirmation, FencedLive, Fenced,
       Unleased
  <2>6. JobsOK'
    BY <1>6, IdleJob, JobWrite DEF BeginConfirmation, Done
  <2> QED
    BY <1>6, <2>5, <2>6 DEF BeginConfirmation, BooksOK, ChainOK
<1>7. ASSUME NEW w \in ExecutionWorkers, ReleaseConfirmation(w)
      PROVE  TypeOK'
  <2> DEFINE p == job[w].payout
            row == [payout[p] EXCEPT !.owner = None, !.live = FALSE,
                                   !.due = FALSE]
  <2>1. ~At(w, "idle")
    BY <1>7 DEF ReleaseConfirmation, At
  <2>2. p \in Payouts /\ job[w] \in Job /\ JobCheck(job[w])
    BY <2>1, JobFacts
  <2>3. payout[p] \in Row /\ LifecycleCheck(payout[p])
    BY <2>2, RowFacts
  <2>4. row \in Row /\ LifecycleCheck(row)
    BY <1>7, <2>2, <2>3 DEF ReleaseConfirmation, Fenced, Unleased, Row,
       LifecycleCheck, Statuses, Terminal, InFlight, At, Job, JobCheck,
       SigningSteps, ExecutionSteps, Workers
  <2>5. RowsOK'
    BY <1>7, <2>2, <2>4, RowWrite DEF ReleaseConfirmation, Fenced, Unleased
  <2>6. JobsOK'
    BY <1>7, IdleJob, JobWrite DEF ReleaseConfirmation, Done
  <2> QED
    BY <1>7, <2>5, <2>6 DEF ReleaseConfirmation, BooksOK, ChainOK
<1>8. ASSUME NEW w \in ExecutionWorkers, CompleteConfirmationSuccess(w)
      PROVE  TypeOK'
  <2> DEFINE p == job[w].payout
            row == [payout[p] EXCEPT !.owner = None, !.live = FALSE,
                                   !.status = "succeeded"]
  <2>1. ~At(w, "idle")
    BY <1>8 DEF CompleteConfirmationSuccess, At
  <2>2. p \in Payouts /\ job[w] \in Job /\ JobCheck(job[w])
    BY <2>1, JobFacts
  <2>3. payout[p] \in Row /\ LifecycleCheck(payout[p])
    BY <2>2, RowFacts
  <2>4. row \in Row /\ LifecycleCheck(row)
    BY <1>8, <2>2, <2>3 DEF CompleteConfirmationSuccess, Finalize,
       CanFinalize, FencedLive, Fenced, Unleased, Row, LifecycleCheck,
       Statuses, Terminal, InFlight, At, Job, JobCheck, SigningSteps,
       ExecutionSteps, Workers
  <2>5. RowsOK'
    BY <1>8, <2>2, <2>4, RowWrite DEF CompleteConfirmationSuccess, Finalize,
       CanFinalize, FencedLive, Fenced, Unleased
  <2>6. BooksOK'
    BY <1>8, <2>2 DEF CompleteConfirmationSuccess, BooksOK, Entries, Finalize,
       Settlement
  <2>7. JobsOK'
    BY <1>8, IdleJob, JobWrite DEF CompleteConfirmationSuccess, Done, Finalize
  <2> QED
    BY <1>8, <2>5, <2>6, <2>7 DEF CompleteConfirmationSuccess, Finalize,
       ChainOK
<1>9. ASSUME NEW w \in ExecutionWorkers, CompleteConfirmationFailure(w)
      PROVE  TypeOK'
  <2> DEFINE p == job[w].payout
            row == [payout[p] EXCEPT !.owner = None, !.live = FALSE,
                                   !.status = "failed"]
  <2>1. ~At(w, "idle")
    BY <1>9 DEF CompleteConfirmationFailure, At
  <2>2. p \in Payouts /\ job[w] \in Job /\ JobCheck(job[w])
    BY <2>1, JobFacts
  <2>3. payout[p] \in Row /\ LifecycleCheck(payout[p])
    BY <2>2, RowFacts
  <2>4. row \in Row /\ LifecycleCheck(row)
    BY <1>9, <2>2, <2>3 DEF CompleteConfirmationFailure, Finalize,
       CanFinalize, FencedLive, Fenced, Unleased, Row, LifecycleCheck,
       Statuses, Terminal, InFlight, At, Job, JobCheck, SigningSteps,
       ExecutionSteps, Workers
  <2>5. RowsOK'
    BY <1>9, <2>2, <2>4, RowWrite DEF CompleteConfirmationFailure, Finalize,
       CanFinalize, FencedLive, Fenced, Unleased
  <2>6. BooksOK'
    BY <1>9, <2>2 DEF CompleteConfirmationFailure, BooksOK, Entries, Finalize,
       Unfreeze
  <2>7. JobsOK'
    BY <1>9, IdleJob, JobWrite DEF CompleteConfirmationFailure, Done, Finalize
  <2> QED
    BY <1>9, <2>5, <2>6, <2>7 DEF CompleteConfirmationFailure, Finalize,
       ChainOK
<1>10. ASSUME NEW w \in ExecutionWorkers, Broadcast(w)
      PROVE  TypeOK'
  <2> DEFINE p == job[w].payout
            j == [job[w] EXCEPT !.at = "sent"]
  <2>1. ~At(w, "idle")
    BY <1>10 DEF Broadcast, At
  <2>2. p \in Payouts /\ job[w] \in Job /\ JobCheck(job[w])
    BY <2>1, JobFacts
  <2>3. ChainOK'
    BY <1>10, <2>2 DEF Broadcast, ChainOK, Tx, Send, Job, JobCheck, At,
       ExecutionSteps
  <2>4. j \in Job /\ JobCheck(j)
    BY <1>10, <2>2, WorkersAssumption, TxAssumption DEF Broadcast, Job,
       JobCheck, SigningSteps, ExecutionSteps, Idle, At
  <2>5. JobsOK'
    BY <1>10, <2>4, JobWrite DEF Broadcast, Goto
  <2> QED
    BY <1>10, <2>3, <2>5 DEF Broadcast, RowsOK, BooksOK
<1>11. ASSUME NEW w \in ExecutionWorkers, Rebroadcast(w)
      PROVE  TypeOK'
  <2> DEFINE p == job[w].payout
            j == [job[w] EXCEPT !.at = "release"]
  <2>1. ~At(w, "idle")
    BY <1>11 DEF Rebroadcast, At
  <2>2. p \in Payouts /\ job[w] \in Job /\ JobCheck(job[w])
    BY <2>1, JobFacts
  <2>3. ChainOK'
    BY <1>11, <2>2 DEF Rebroadcast, ChainOK, Tx, Send, Job, JobCheck, At,
       ExecutionSteps
  <2>4. j \in Job /\ JobCheck(j)
    BY <1>11, <2>2, WorkersAssumption, TxAssumption DEF Rebroadcast, Job,
       JobCheck, SigningSteps, ExecutionSteps, Idle, At
  <2>5. JobsOK'
    BY <1>11, <2>4, JobWrite DEF Rebroadcast, Goto
  <2> QED
    BY <1>11, <2>3, <2>5 DEF Rebroadcast, RowsOK, BooksOK
<1>12. ASSUME NEW w \in ExecutionWorkers, NodeError(w)
      PROVE  TypeOK'
  <2> DEFINE p == job[w].payout
            j == [job[w] EXCEPT !.at = "release"]
  <2>1. ~At(w, "idle")
    BY <1>12 DEF NodeError, At
  <2>2. p \in Payouts /\ job[w] \in Job /\ JobCheck(job[w])
    BY <2>1, JobFacts
  <2>3. j \in Job /\ JobCheck(j)
    BY <1>12, <2>2, WorkersAssumption, TxAssumption DEF NodeError, Job,
       JobCheck, SigningSteps, ExecutionSteps, Idle, At
  <2>4. JobsOK'
    BY <1>12, <2>3, JobWrite DEF NodeError, Goto
  <2> QED
    BY <1>12, <2>4 DEF NodeError, RowsOK, BooksOK, ChainOK
<1>13. ASSUME NEW w \in ExecutionWorkers, ReadHead(w)
      PROVE  TypeOK'
  <2> DEFINE p == job[w].payout
            j == [job[w] EXCEPT !.at =
                   IF chain[job[w].tx].window = "final"
                   THEN "fail" ELSE "rebroadcast"]
  <2>1. ~At(w, "idle")
    BY <1>13 DEF ReadHead, At
  <2>2. p \in Payouts /\ job[w] \in Job /\ JobCheck(job[w])
    BY <2>1, JobFacts
  <2>3. j \in Job /\ JobCheck(j)
    BY <1>13, <2>2, WorkersAssumption, TxAssumption DEF ReadHead, Job,
       JobCheck, SigningSteps, ExecutionSteps, Idle, At
  <2>4. JobsOK'
    BY <1>13, <2>3, JobWrite DEF ReadHead, Goto
  <2> QED
    BY <1>13, <2>4 DEF ReadHead, RowsOK, BooksOK, ChainOK
<1>14. ASSUME NEW w \in Workers, LeaseLost(w)
      PROVE  TypeOK'
  <2>1. JobsOK'
    BY <1>14, IdleJob, JobWrite DEF LeaseLost, Done
  <2> QED
    BY <1>14, <2>1 DEF LeaseLost, RowsOK, BooksOK, ChainOK
<1>15. ASSUME NEW w \in Workers, Crash(w)
      PROVE  TypeOK'
  <2>1. JobsOK'
    BY <1>15, IdleJob, JobWrite DEF Crash, Done
  <2> QED
    BY <1>15, <2>1 DEF Crash, RowsOK, BooksOK, ChainOK
<1>16. ASSUME NEW p \in Payouts, LeaseExpires(p)
      PROVE  TypeOK'
  <2> DEFINE row == [payout[p] EXCEPT !.live = FALSE]
  <2>1. payout[p] \in Row /\ LifecycleCheck(payout[p])
    BY RowFacts
  <2>2. row \in Row /\ LifecycleCheck(row)
    BY <1>16, <2>1 DEF LeaseExpires, Unleased, Row, LifecycleCheck, Statuses,
       Terminal, InFlight, At, Job, JobCheck, SigningSteps, ExecutionSteps,
       Workers
  <2>3. RowsOK'
    BY <1>16, <2>2, RowWrite DEF LeaseExpires, Unleased
  <2> QED
    BY <1>16, <2>3 DEF LeaseExpires, BooksOK, ChainOK, JobsOK
<1>17. ASSUME NEW p \in Payouts, BecomesDue(p)
      PROVE  TypeOK'
  <2> DEFINE row == [payout[p] EXCEPT !.due = TRUE]
  <2>1. payout[p] \in Row /\ LifecycleCheck(payout[p])
    BY RowFacts
  <2>2. row \in Row /\ LifecycleCheck(row)
    BY <1>17, <2>1 DEF BecomesDue, Unleased, Row, LifecycleCheck, Statuses,
       Terminal, InFlight, At, Job, JobCheck, SigningSteps, ExecutionSteps,
       Workers
  <2>3. RowsOK'
    BY <1>17, <2>2, RowWrite DEF BecomesDue, Unleased
  <2> QED
    BY <1>17, <2>3 DEF BecomesDue, BooksOK, ChainOK, JobsOK
<1>18. ASSUME NEW t \in TxIds, Include(t)
      PROVE  TypeOK'
  <2>1. PICK ok \in BOOLEAN :
          chain' = [chain EXCEPT ![t].place = "block", ![t].ok = ok]
    BY <1>18 DEF Include
  <2>2. [chain[t] EXCEPT !.place = "block", !.ok = ok] \in Tx
    BY DEF ChainOK, Tx
  <2>3. ChainOK'
    BY <1>18, <2>1, <2>2 DEF Include, ChainOK
  <2> QED
    BY <1>18, <2>3 DEF Include, RowsOK, BooksOK, JobsOK
<1>19. ASSUME NEW t \in TxIds, Orphan(t)
      PROVE  TypeOK'
  <2>1. ChainOK'
    BY <1>19 DEF Orphan, ChainOK, Tx
  <2> QED
    BY <1>19, <2>1 DEF Orphan, RowsOK, BooksOK, JobsOK
<1>20. ASSUME NEW t \in TxIds, Solidify(t)
      PROVE  TypeOK'
  <2>1. ChainOK'
    BY <1>20 DEF Solidify, ChainOK, Tx
  <2> QED
    BY <1>20, <2>1 DEF Solidify, RowsOK, BooksOK, JobsOK
<1>21. ASSUME NEW t \in TxIds, GoesStale(t)
      PROVE  TypeOK'
  <2>1. ChainOK'
    BY <1>21 DEF GoesStale, ChainOK, Tx
  <2> QED
    BY <1>21, <2>1 DEF GoesStale, RowsOK, BooksOK, JobsOK
<1>22. ASSUME NEW t \in TxIds, HeadPassesExpiry(t)
      PROVE  TypeOK'
  <2>1. ChainOK'
    BY <1>22 DEF HeadPassesExpiry, ChainOK, Tx
  <2> QED
    BY <1>22, <2>1 DEF HeadPassesExpiry, RowsOK, BooksOK, JobsOK
<1>23. ASSUME NEW w \in SigningWorkers, SignTransfer(w)
      PROVE  TypeOK'
  <2> DEFINE p == job[w].payout
  <2>1. job[w] \in Job /\ JobCheck(job[w]) /\ p \in Payouts
    BY <1>23, JobFacts DEF SignTransfer, At
  <2>2. PICK t \in TxIds :
          /\ signed' = [signed EXCEPT ![p] = t]
          /\ job' = IF chain[t].window = "fresh"
                    THEN [job EXCEPT ![w].at = "signed", ![w].tx = t]
                    ELSE [job EXCEPT ![w].at = "unsigned"]
    BY <1>23 DEF SignTransfer
  <2>3. ChainOK'
    BY <1>23, <2>1, <2>2 DEF SignTransfer, ChainOK
  <2>4. JobsOK'
    <3>1. CASE chain[t].window = "fresh"
      <4> DEFINE j == [job[w] EXCEPT !.at = "signed", !.tx = t]
      <4>1. j \in Job /\ JobCheck(j)
        BY <1>23, <2>1, TxAssumption
           DEF SignTransfer, At, Job, JobCheck, SigningSteps, ExecutionSteps
      <4> QED
        BY <2>2, <3>1, <4>1, JobWrite
    <3>2. CASE chain[t].window # "fresh"
      <4> DEFINE j == [job[w] EXCEPT !.at = "unsigned"]
      <4>1. j \in Job /\ JobCheck(j)
        BY <1>23, <2>1
           DEF SignTransfer, At, Job, JobCheck, SigningSteps, ExecutionSteps
      <4> QED
        BY <2>2, <3>2, <4>1, JobWrite
    <3> QED
      BY <3>1, <3>2
  <2> QED
    BY <1>23, <2>3, <2>4 DEF SignTransfer, RowsOK, BooksOK
<1>24. ASSUME NEW w \in SigningWorkers, SignerError(w)
      PROVE  TypeOK'
  <2> DEFINE p == job[w].payout
            j == [job[w] EXCEPT !.at = "unsigned"]
  <2>1. ~At(w, "idle")
    BY <1>24 DEF SignerError, At
  <2>2. p \in Payouts /\ job[w] \in Job /\ JobCheck(job[w])
    BY <2>1, JobFacts
  <2>3. ChainOK'
    BY <1>24, <2>2 DEF SignerError, ChainOK, Tx, Resolve
  <2>4. j \in Job /\ JobCheck(j)
    BY <1>24, <2>2, WorkersAssumption, TxAssumption DEF SignerError, Job,
       JobCheck, SigningSteps, ExecutionSteps, Idle, At
  <2>5. JobsOK'
    BY <1>24, <2>4, JobWrite DEF SignerError, Goto
  <2> QED
    BY <1>24, <2>3, <2>5 DEF SignerError, RowsOK, BooksOK
<1>25. ASSUME NEW w \in ExecutionWorkers, QueryTransaction(w)
      PROVE  TypeOK'
  <2>1. job[w] \in Job /\ JobCheck(job[w])
    BY <1>25, JobFacts DEF QueryTransaction, At
  <2>2. PICK step \in {"head", "settle", "fail"} : Goto(w, step)
    BY <1>25 DEF QueryTransaction
  <2> DEFINE j == [job[w] EXCEPT !.at = step]
  <2>3. j \in Job /\ JobCheck(j)
    BY <1>25, <2>1 DEF QueryTransaction, At, Job, JobCheck, SigningSteps,
       ExecutionSteps
  <2>4. JobsOK'
    BY <2>2, <2>3, JobWrite DEF Goto
  <2> QED
    BY <1>25, <2>4 DEF QueryTransaction, RowsOK, BooksOK, ChainOK
<1>26. ASSUME NEW w \in ExecutionWorkers, BehindTransaction(w)
      PROVE  TypeOK'
  <2> DEFINE j == [job[w] EXCEPT !.at = "head"]
  <2>1. job[w] \in Job /\ JobCheck(job[w])
    BY <1>26, JobFacts DEF BehindTransaction, At
  <2>2. job[w].tx \in TxIds
    BY <1>26, <2>1 DEF BehindTransaction, At, Job, JobCheck
  <2>3. j \in Job /\ JobCheck(j)
    BY <1>26, <2>1 DEF BehindTransaction, At, Job, JobCheck, SigningSteps,
       ExecutionSteps
  <2>4. JobsOK'
    BY <1>26, <2>3, JobWrite DEF BehindTransaction, Goto
  <2> QED
    BY <1>26, <2>2, <2>4 DEF BehindTransaction, RowsOK, BooksOK, ChainOK
<1>27. ASSUME NEW w \in ExecutionWorkers, BehindHead(w)
      PROVE  TypeOK'
  <2> DEFINE j == [job[w] EXCEPT !.at = "rebroadcast"]
  <2>1. job[w] \in Job /\ JobCheck(job[w])
    BY <1>27, JobFacts DEF BehindHead, At
  <2>2. j \in Job /\ JobCheck(j)
    BY <1>27, <2>1 DEF BehindHead, At, Job, JobCheck, SigningSteps,
       ExecutionSteps
  <2>3. JobsOK'
    BY <1>27, <2>2, JobWrite DEF BehindHead, Goto
  <2> QED
    BY <1>27, <2>3 DEF BehindHead, RowsOK, BooksOK, ChainOK
<1>28. CASE UNCHANGED vars
  BY <1>28 DEF vars, RowsOK, BooksOK, ChainOK, JobsOK
<1> QED
  BY <1>1, <1>2, <1>3, <1>4, <1>5, <1>6, <1>7, <1>8, <1>9, <1>10, <1>11,
     <1>12, <1>13, <1>14, <1>15, <1>16, <1>17, <1>18, <1>19, <1>20, <1>21,
     <1>22, <1>23, <1>24, <1>25, <1>26, <1>27, <1>28
     DEF Next, SigningStep, ExecutionStep, NodeStep, ClaimExecution, ChainStep

\* Type correctness of every reachable state.
THEOREM TypeCorrect == Spec => []TypeOK
<1>1. TypeOK /\ [Next]_vars => TypeOK'
  BY StepType
<1> QED
  BY InitType, <1>1, PTL DEF Spec

-----------------------------------------------------------------------------
(* What a step does to the rows and the books *)

\* Nothing ends: no entry, no event, and no status enters or leaves an end.
NothingEnds ==
  /\ UNCHANGED <<journal, outbox>>
  /\ \A p \in Payouts :
       \/ payout'[p].status = payout[p].status
       \/ payout[p].status \in InFlight /\ payout'[p].status \in InFlight

LEMMA RowStatus ==
  ASSUME RowsOK, NEW p \in Payouts, NEW row,
         payout' = [payout EXCEPT ![p] = row],
         \/ row.status = payout[p].status
         \/ payout[p].status \in InFlight /\ row.status \in InFlight
  PROVE  \A q \in Payouts :
           \/ payout'[q].status = payout[q].status
           \/ payout[q].status \in InFlight /\ payout'[q].status \in InFlight
BY DEF RowsOK

LEMMA OnlyFinalizeEnds ==
  ASSUME TypeOK, [Next]_vars
  PROVE  \/ \E w \in ExecutionWorkers : CompleteConfirmationSuccess(w)
         \/ \E w \in ExecutionWorkers : CompleteConfirmationFailure(w)
         \/ NothingEnds
<1> USE WorkerKinds
<1> USE DEF TypeOK, NothingEnds
<1>1. ASSUME NEW w \in Workers, NEW p \in Payouts, Lease(w, p),
             UNCHANGED <<journal, outbox>>
      PROVE  NothingEnds
  <2>1. payout[p] \in Row
    BY RowFacts
  <2> DEFINE row == [payout[p] EXCEPT !.owner = WorkerId[w], !.live = TRUE,
                                      !.holder = w]
  <2>2. row.status = payout[p].status /\ payout' = [payout EXCEPT ![p] = row]
    BY <1>1, <2>1 DEF Lease, Row
  <2> QED
    BY <1>1, <2>2, RowStatus
<1>2. ASSUME NEW w \in SigningWorkers, CompleteSigning(w)
      PROVE  NothingEnds
  <2> DEFINE p == job[w].payout
             row == [Unleased(payout[p]) EXCEPT
                       !.status = "ready_for_broadcast", !.tx = job[w].tx]
  <2>1. p \in Payouts
    BY <1>2, JobFacts DEF CompleteSigning, At
  <2>2. payout[p] \in Row
    BY <2>1, RowFacts
  <2>3. payout[p].status \in InFlight /\ row.status \in InFlight
    BY <1>2, <2>2 DEF CompleteSigning, FencedLive, Fenced, Unleased, Row,
       InFlight, Statuses, Terminal
  <2>4. payout' = [payout EXCEPT ![p] = row]
    BY <1>2 DEF CompleteSigning
  <2> QED
    BY <1>2, <2>1, <2>3, <2>4, RowStatus DEF CompleteSigning
<1>3. ASSUME NEW w \in ExecutionWorkers, BeginConfirmation(w)
      PROVE  NothingEnds
  <2> DEFINE p == job[w].payout
             row == [Unleased(payout[p]) EXCEPT
                       !.status = "confirming", !.due = TRUE]
  <2>1. p \in Payouts
    BY <1>3, JobFacts DEF BeginConfirmation, At
  <2>2. payout[p] \in Row
    BY <2>1, RowFacts
  <2>3. payout[p].status \in InFlight /\ row.status \in InFlight
    BY <1>3, <2>2 DEF BeginConfirmation, FencedLive, Fenced, Unleased, Row,
       InFlight, Statuses, Terminal
  <2>4. payout' = [payout EXCEPT ![p] = row]
    BY <1>3 DEF BeginConfirmation
  <2> QED
    BY <1>3, <2>1, <2>3, <2>4, RowStatus DEF BeginConfirmation
<1>4. ASSUME NEW w \in SigningWorkers, ReleaseSigning(w)
      PROVE  NothingEnds
  <2> DEFINE p == job[w].payout
             row == Unleased(payout[p])
  <2>1. p \in Payouts
    BY <1>4, JobFacts DEF ReleaseSigning, At
  <2>2. payout[p] \in Row
    BY <2>1, RowFacts
  <2>3. row.status = payout[p].status /\ payout' = [payout EXCEPT ![p] = row]
    BY <1>4, <2>2 DEF ReleaseSigning, Unleased, Row
  <2> QED
    BY <1>4, <2>1, <2>3, RowStatus DEF ReleaseSigning
<1>5. ASSUME NEW w \in ExecutionWorkers, ReleaseConfirmation(w)
      PROVE  NothingEnds
  <2> DEFINE p == job[w].payout
             row == [Unleased(payout[p]) EXCEPT !.due = FALSE]
  <2>1. p \in Payouts
    BY <1>5, JobFacts DEF ReleaseConfirmation, At
  <2>2. payout[p] \in Row
    BY <2>1, RowFacts
  <2>3. row.status = payout[p].status /\ payout' = [payout EXCEPT ![p] = row]
    BY <1>5, <2>2 DEF ReleaseConfirmation, Unleased, Row
  <2> QED
    BY <1>5, <2>1, <2>3, RowStatus DEF ReleaseConfirmation
<1>6. ASSUME NEW p \in Payouts, LeaseExpires(p)
      PROVE  NothingEnds
  <2> DEFINE row == [payout[p] EXCEPT !.live = FALSE]
  <2>1. payout[p] \in Row
    BY RowFacts
  <2>2. row.status = payout[p].status /\ payout' = [payout EXCEPT ![p] = row]
    BY <1>6, <2>1 DEF LeaseExpires, Row
  <2> QED
    BY <1>6, <2>2, RowStatus DEF LeaseExpires
<1>7. ASSUME NEW p \in Payouts, BecomesDue(p)
      PROVE  NothingEnds
  <2> DEFINE row == [payout[p] EXCEPT !.due = TRUE]
  <2>1. payout[p] \in Row
    BY RowFacts
  <2>2. row.status = payout[p].status /\ payout' = [payout EXCEPT ![p] = row]
    BY <1>7, <2>1 DEF BecomesDue, Row
  <2> QED
    BY <1>7, <2>2, RowStatus DEF BecomesDue
<1>8. CASE UNCHANGED <<payout, journal, outbox>>
  BY <1>8
<1>9. CASE UNCHANGED vars
  BY <1>9 DEF vars
<1> QED
  BY <1>1, <1>2, <1>3, <1>4, <1>5, <1>6, <1>7, <1>8, <1>9
     DEF Next, SigningStep, ExecutionStep, ClaimExecution, ChainStep,
         ClaimSigning, ClaimBroadcast, ClaimConfirmation, SignTransfer,
         SignerError, Broadcast, QueryTransaction, ReadHead, NodeStep,
         NodeError, BehindTransaction, BehindHead,
         Rebroadcast, LeaseLost, Crash, Include, Orphan, Solidify, GoesStale,
         HeadPassesExpiry

\* The two ends: what finalizeConfirmation did to the payout of its claim.
Ended(p, status, entry, topic) ==
  /\ payout[p].status = "confirming"
  /\ payout'[p].status = status
  /\ \A q \in Payouts \ {p} : payout'[q] = payout[q]
  /\ journal' = journal \cup {entry}
  /\ outbox' = [outbox EXCEPT ![p] = Append(@, topic)]

LEMMA FinalizeEnds ==
  ASSUME TypeOK, NEW w \in Workers, ~At(w, "idle"), NEW status, NEW entry,
         NEW topic, Finalize(w, status, entry, topic)
  PROVE  /\ job[w].payout \in Payouts
         /\ Ended(job[w].payout, status, entry, topic)
         /\ UNCHANGED <<signed, chain, missed>>
<1>1. job[w].payout \in Payouts
  BY JobFacts DEF TypeOK
<1>2. payout[job[w].payout] \in Row
  BY <1>1, RowFacts DEF TypeOK
<1>3. payout'[job[w].payout].status = status
  BY <1>1, <1>2 DEF Finalize, Unleased, Row, TypeOK, RowsOK
<1> QED
  BY <1>1, <1>3
     DEF Finalize, CanFinalize, FencedLive, Fenced, Ended, TypeOK, RowsOK

-----------------------------------------------------------------------------
(* The three tables agree *)

LEMMA InitTables == Init => TablesAgree
<1> SUFFICES ASSUME Init, NEW p \in Payouts PROVE Story(p)
  BY DEF TablesAgree
<1>1. /\ payout[p].status = "approved"
      /\ outbox[p] = <<>>
      /\ Freeze(p) \in journal
  BY DEF Init
<1>2. Settlement(p) \notin journal /\ Unfreeze(p) \notin journal
  BY DEF Init, Freeze, Settlement, Unfreeze
<1> QED
  BY <1>1, <1>2 DEF Story, InFlight, Statuses, Terminal

\* An end writes its own payout's story and leaves the others as they are.
LEMMA EndTells ==
  ASSUME TypeOK, TablesAgree, NEW p \in Payouts, NEW q \in Payouts,
         \/ Ended(p, "succeeded", Settlement(p), "payout.succeeded")
         \/ Ended(p, "failed", Unfreeze(p), "payout.failed")
  PROVE  Story(q)'
<1>1. Story(q) /\ Story(p)
  BY DEF TablesAgree
<1>2. outbox[p] = <<>>
  BY <1>1 DEF Story, Ended, InFlight, Statuses, Terminal
<1>3. CASE q # p
  BY <1>1, <1>3
     DEF Story, Ended, Freeze, Settlement, Unfreeze, TypeOK, BooksOK
<1>4. CASE q = p
  <2>1. CASE Ended(p, "succeeded", Settlement(p), "payout.succeeded")
    <3>1. outbox'[p] = <<"payout.succeeded">>
      BY <1>2, <2>1 DEF Ended, TypeOK, BooksOK
    <3>2. /\ Freeze(p) \in journal'
          /\ Settlement(p) \in journal'
          /\ Unfreeze(p) \notin journal'
      BY <1>1, <2>1 DEF Story, Ended, Freeze, Settlement, Unfreeze
    <3> QED
      BY <1>4, <2>1, <3>1, <3>2
         DEF Story, Ended, InFlight, Terminal, Freeze, Settlement, Unfreeze
  <2>2. CASE Ended(p, "failed", Unfreeze(p), "payout.failed")
    <3>1. outbox'[p] = <<"payout.failed">>
      BY <1>2, <2>2 DEF Ended, TypeOK, BooksOK
    <3>2. /\ Freeze(p) \in journal'
          /\ Unfreeze(p) \in journal'
          /\ Settlement(p) \notin journal'
      BY <1>1, <2>2 DEF Story, Ended, Freeze, Settlement, Unfreeze
    <3> QED
      BY <1>4, <2>2, <3>1, <3>2
         DEF Story, Ended, InFlight, Terminal, Freeze, Settlement, Unfreeze
  <2> QED
    BY <2>1, <2>2
<1> QED
  BY <1>3, <1>4

LEMMA StepTables == ASSUME TypeOK, TablesAgree, [Next]_vars PROVE TablesAgree'
<1>1. ASSUME NEW w \in ExecutionWorkers, CompleteConfirmationSuccess(w)
      PROVE  TablesAgree'
  <2>1. PICK p \in Payouts :
          Ended(p, "succeeded", Settlement(p), "payout.succeeded")
    BY <1>1, FinalizeEnds, WorkerKinds DEF CompleteConfirmationSuccess, At
  <2> QED
    BY <2>1, EndTells DEF TablesAgree
<1>2. ASSUME NEW w \in ExecutionWorkers, CompleteConfirmationFailure(w)
      PROVE  TablesAgree'
  <2>1. PICK p \in Payouts : Ended(p, "failed", Unfreeze(p), "payout.failed")
    BY <1>2, FinalizeEnds, WorkerKinds DEF CompleteConfirmationFailure, At
  <2> QED
    BY <2>1, EndTells DEF TablesAgree
<1>3. CASE NothingEnds
  <2> SUFFICES ASSUME NEW p \in Payouts PROVE Story(p)'
    BY DEF TablesAgree
  <2> QED
    BY <1>3 DEF TablesAgree, NothingEnds, Story, InFlight, Statuses, Terminal,
       Freeze, Settlement, Unfreeze
<1> QED
  BY <1>1, <1>2, <1>3, OnlyFinalizeEnds

\* Whatever the number of workers and payouts: exactly the succeeded payouts
\* are settled, exactly the failed ones released, and each was told once.
THEOREM TablesAgreeAlways == Spec => []TablesAgree
<1>1. TypeOK /\ TablesAgree /\ [Next]_vars => TablesAgree'
  BY StepTables
<1> QED
  BY InitTables, TypeCorrect, <1>1, PTL DEF Spec

-----------------------------------------------------------------------------
(* Outcomes and the chain *)

\* The transaction moves no tokens any more: it is in a final block, where it
\* failed or was missed, or no block can hold it.
Dead(t) ==
  \/ chain[t].place = "solid" /\ (chain[t].ok => t \in missed)
  \/ chain[t].place = "none" /\ chain[t].window = "final"

Executed(t) == chain[t].place = "solid" /\ chain[t].ok

FinalBlocks == \A t \in TxIds : chain[t].window = "final" => chain[t].place # "block"

\* A payout has one signed transaction, and it is the one every worker holds.
OneTransaction ==
  \A w \in Workers :
    job[w].tx # NoTx => /\ job[w].payout \in Payouts
                        /\ job[w].tx = signed[job[w].payout]

RowTransaction ==
  \A p \in Payouts : payout[p].tx # NoTx => payout[p].tx = signed[p]

\* A verdict in a worker's hand stays true while the worker is delayed; one
\* that asks for the head knows of no solidified block that was not missed.
Verdict(w) ==
  /\ At(w, "settle") => Executed(job[w].tx)
  /\ At(w, "fail") => Dead(job[w].tx)
  /\ At(w, "head") /\ chain[job[w].tx].place = "solid" => job[w].tx \in missed

Verdicts == \A w \in Workers : Verdict(w)

Outcomes ==
  \A p \in Payouts :
    /\ payout[p].status = "succeeded" => signed[p] # NoTx /\ Executed(signed[p])
    /\ payout[p].status = "failed" => signed[p] # NoTx /\ Dead(signed[p])

OutcomeInv == FinalBlocks /\ OneTransaction /\ RowTransaction /\ Verdicts /\ Outcomes

LEMMA InitOutcome == Init => OutcomeInv
BY DEF Init, OutcomeInv, FinalBlocks, OneTransaction, RowTransaction, Verdicts,
   Verdict, Outcomes, Idle, At

\* The chain never takes back what is solidified or final.
LEMMA ChainSteady ==
  ASSUME TypeOK, FinalBlocks, [Next]_vars
  PROVE  /\ FinalBlocks'
         /\ \A t \in TxIds : /\ Executed(t) => Executed(t)'
                             /\ Dead(t) => Dead(t)'
                             /\ t \in missed => t \in missed'
<1> DEFINE Steady == /\ FinalBlocks'
                     /\ \A t \in TxIds : /\ Executed(t) => Executed(t)'
                                         /\ Dead(t) => Dead(t)'
                                         /\ t \in missed => t \in missed'
<1> USE DEF TypeOK, ChainOK, FinalBlocks, Executed, Dead
<1>1. ASSUME NEW t \in TxIds, Send(t), UNCHANGED missed
      PROVE  Steady
  <2>1. PICK reached \in BOOLEAN :
          chain' = [chain EXCEPT ![t].sent = @ \/ reached]
    BY <1>1 DEF Send
  <2>2. \A u \in TxIds : /\ chain'[u].place = chain[u].place
                         /\ chain'[u].ok = chain[u].ok
                         /\ chain'[u].window = chain[u].window
    BY <2>1 DEF Tx
  <2> QED
    BY <1>1, <2>2
<1>2. ASSUME NEW t \in TxIds, Include(t)
      PROVE  Steady
  <2>1. PICK ok \in BOOLEAN :
          chain' = [chain EXCEPT ![t].place = "block", ![t].ok = ok]
    BY <1>2 DEF Include
  <2>2. /\ \A u \in TxIds \ {t} : chain'[u] = chain[u]
        /\ chain'[t].place = "block" /\ chain'[t].window = chain[t].window
    BY <2>1 DEF Tx
  <2>3. ~Executed(t) /\ ~Dead(t) /\ chain'[t].window # "final"
    BY <1>2, <2>2 DEF Include
  <2> QED
    BY <1>2, <2>2, <2>3 DEF Include
<1>3. ASSUME NEW t \in TxIds, Orphan(t)
      PROVE  Steady
  <2>1. /\ \A u \in TxIds \ {t} : chain'[u] = chain[u]
        /\ chain'[t].place = "none"
    BY <1>3 DEF Orphan, Tx
  <2>2. ~Executed(t) /\ ~Dead(t)
    BY <1>3 DEF Orphan
  <2> QED
    BY <1>3, <2>1, <2>2 DEF Orphan
<1>4. ASSUME NEW t \in TxIds, Solidify(t)
      PROVE  Steady
  <2>1. /\ \A u \in TxIds \ {t} : chain'[u] = chain[u]
        /\ chain'[t].place = "solid"
    BY <1>4 DEF Solidify, Tx
  <2>2. ~Executed(t) /\ ~Dead(t)
    BY <1>4 DEF Solidify
  <2>3. missed \subseteq missed'
    BY <1>4 DEF Solidify
  <2> QED
    BY <2>1, <2>2, <2>3
<1>5. ASSUME NEW t \in TxIds, GoesStale(t)
      PROVE  Steady
  <2>1. /\ \A u \in TxIds \ {t} : chain'[u] = chain[u]
        /\ chain'[t].place = chain[t].place /\ chain'[t].ok = chain[t].ok
        /\ chain[t].window # "final" /\ chain'[t].window = "stale"
    BY <1>5 DEF GoesStale, Tx
  <2> QED
    BY <1>5, <2>1 DEF GoesStale
<1>6. ASSUME NEW t \in TxIds, HeadPassesExpiry(t)
      PROVE  Steady
  <2>1. /\ \A u \in TxIds \ {t} : chain'[u] = chain[u]
        /\ chain'[t].place = chain[t].place /\ chain'[t].ok = chain[t].ok
        /\ chain[t].place # "block" /\ chain[t].window = "stale"
    BY <1>6 DEF HeadPassesExpiry, Tx
  <2> QED
    BY <1>6, <2>1 DEF HeadPassesExpiry
<1>7. ASSUME NEW w \in ExecutionWorkers, Broadcast(w) \/ Rebroadcast(w)
      PROVE  Steady
  <2>1. job[w] \in Job /\ JobCheck(job[w])
    BY <1>7, JobFacts, WorkerKinds DEF Broadcast, Rebroadcast, At
  <2>2. job[w].tx \in TxIds
    BY <1>7, <2>1 DEF Broadcast, Rebroadcast, At, Job, JobCheck
  <2> QED
    BY <1>1, <1>7, <2>2 DEF Broadcast, Rebroadcast
<1>8. CASE UNCHANGED chain /\ missed \subseteq missed'
  BY <1>8
<1> QED
  BY <1>2, <1>3, <1>4, <1>5, <1>6, <1>7, <1>8
     DEF Next, vars, SigningStep, ExecutionStep, ClaimExecution, ChainStep,
         ClaimSigning, ClaimBroadcast, ClaimConfirmation, SignTransfer,
         SignerError, CompleteSigning, ReleaseSigning, BeginConfirmation,
         QueryTransaction, ReadHead, NodeStep, NodeError, BehindTransaction,
         BehindHead, ReleaseConfirmation,
         CompleteConfirmationSuccess, CompleteConfirmationFailure, Finalize,
         LeaseLost, Crash, LeaseExpires, BecomesDue

\* The signer never replaces a transaction it has stored.
LEMMA SignedSteady ==
  ASSUME TypeOK, [Next]_vars
  PROVE  \A p \in Payouts : signed[p] # NoTx => signed'[p] = signed[p]
<1> USE DEF TypeOK, ChainOK
<1>1. ASSUME NEW w \in SigningWorkers, SignTransfer(w) \/ SignerError(w),
             ~UNCHANGED signed
      PROVE  \A p \in Payouts : signed[p] # NoTx => signed'[p] = signed[p]
  <2>1. PICK t \in TxIds : /\ Resolve(job[w].payout, t)
                           /\ signed' = [signed EXCEPT ![job[w].payout] = t]
    BY <1>1 DEF SignTransfer, SignerError
  <2> QED
    BY <2>1 DEF Resolve
<1>2. CASE UNCHANGED signed
  BY <1>2
<1> QED
  BY <1>1, <1>2
     DEF Next, vars, SigningStep, ExecutionStep, ClaimExecution, ChainStep,
         ClaimSigning, ClaimBroadcast, ClaimConfirmation, CompleteSigning,
         ReleaseSigning, Broadcast, BeginConfirmation, QueryTransaction,
         ReadHead, NodeStep, NodeError, BehindTransaction, BehindHead,
         Rebroadcast, ReleaseConfirmation,
         CompleteConfirmationSuccess, CompleteConfirmationFailure, Finalize,
         LeaseLost, Crash, LeaseExpires, BecomesDue, Include, Orphan,
         Solidify, GoesStale, HeadPassesExpiry

\* Only CompleteSigning writes the transaction of a row.
LEMMA RowTxSteady ==
  ASSUME TypeOK, [Next]_vars, NEW p \in Payouts
  PROVE  \/ payout'[p].tx = payout[p].tx
         \/ \E w \in Workers : payout'[p].tx = job[w].tx /\ job[w].payout = p
<1> DEFINE Steady == \/ payout'[p].tx = payout[p].tx
                     \/ \E w \in Workers : /\ payout'[p].tx = job[w].tx
                                           /\ job[w].payout = p
<1> USE DEF TypeOK, RowsOK
<1>1. ASSUME NEW w \in Workers, NEW q \in Payouts, Lease(w, q)
      PROVE  Steady
  BY <1>1 DEF Lease, Row
<1>2. ASSUME NEW w \in SigningWorkers, CompleteSigning(w)
      PROVE  Steady
  BY <1>2, WorkerKinds DEF CompleteSigning, Row, Unleased
<1>3. ASSUME NEW w \in SigningWorkers, ReleaseSigning(w)
      PROVE  Steady
  BY <1>3 DEF ReleaseSigning, Row, Unleased
<1>4. ASSUME NEW w \in ExecutionWorkers, BeginConfirmation(w)
      PROVE  Steady
  BY <1>4 DEF BeginConfirmation, Row, Unleased
<1>5. ASSUME NEW w \in ExecutionWorkers, ReleaseConfirmation(w)
      PROVE  Steady
  BY <1>5 DEF ReleaseConfirmation, Row, Unleased
<1>6. ASSUME NEW w \in Workers, NEW status, NEW entry, NEW topic,
             Finalize(w, status, entry, topic)
      PROVE  Steady
  BY <1>6 DEF Finalize, Row, Unleased
<1>7. ASSUME NEW q \in Payouts, LeaseExpires(q) \/ BecomesDue(q)
      PROVE  Steady
  BY <1>7 DEF LeaseExpires, BecomesDue, Row
<1>8. CASE UNCHANGED payout
  BY <1>8
<1> QED
  BY <1>1, <1>2, <1>3, <1>4, <1>5, <1>6, <1>7, <1>8, WorkerKinds
     DEF Next, vars, SigningStep, ExecutionStep, ClaimExecution, ChainStep,
         ClaimSigning, ClaimBroadcast, ClaimConfirmation, SignTransfer,
         SignerError, Broadcast, QueryTransaction, ReadHead, NodeStep,
         NodeError, BehindTransaction, BehindHead,
         Rebroadcast, CompleteConfirmationSuccess,
         CompleteConfirmationFailure, LeaseLost, Crash, Include, Orphan,
         Solidify, GoesStale, HeadPassesExpiry

\* How a step moves a worker: only a query and a read of the head can bring a
\* verdict, and a transaction comes from the row or from the signer.
VerdictSteps == {"settle", "fail", "head"}

JobMove(v) ==
  \/ job'[v] = job[v]
  \/ job'[v].tx = NoTx /\ job'[v].at \notin VerdictSteps
  \/ /\ job'[v].payout \in Payouts
     /\ job'[v].tx \in {payout[job'[v].payout].tx, signed'[job'[v].payout]}
     /\ job'[v].at \notin VerdictSteps
  \/ /\ job'[v].tx = job[v].tx
     /\ job'[v].payout = job[v].payout
     /\ job'[v].at \notin VerdictSteps
  \/ v \in ExecutionWorkers
     /\ (QueryTransaction(v) \/ BehindTransaction(v) \/ ReadHead(v))

LEMMA JobMoves ==
  ASSUME TypeOK, [Next]_vars, NEW v \in Workers
  PROVE  JobMove(v)
<1> USE WorkerKinds
<1> USE DEF TypeOK, JobMove, VerdictSteps
<1>0. job[v] \in Job /\ JobCheck(job[v])
  BY DEF JobsOK
<1>1. ASSUME NEW w \in Workers, Done(w)
      PROVE  JobMove(v)
  BY <1>1 DEF Done, Idle, JobsOK
<1>2. ASSUME NEW w \in Workers, NEW step, step \notin VerdictSteps,
             Goto(w, step)
      PROVE  JobMove(v)
  BY <1>0, <1>2 DEF Goto, JobsOK, Job
<1>3. ASSUME NEW w \in SigningWorkers, NEW p \in Payouts, ClaimSigning(w, p)
      PROVE  JobMove(v)
  BY <1>3 DEF ClaimSigning, Idle, JobsOK
<1>4. ASSUME NEW w \in ExecutionWorkers, NEW p \in Payouts, ClaimExecution(w, p)
      PROVE  JobMove(v)
  <2>1. PICK step \in {"broadcast", "query"} :
          job' = [job EXCEPT ![w] =
                    [Idle EXCEPT !.at = step, !.payout = p, !.tx = payout[p].tx]]
    BY <1>4 DEF ClaimExecution, ClaimBroadcast, ClaimConfirmation
  <2>2. CASE v = w
    <3>1. job'[v].at = step /\ job'[v].payout = p /\ job'[v].tx = payout[p].tx
      BY <2>1, <2>2 DEF JobsOK, Idle
    <3> QED
      BY <3>1
  <2>3. CASE v # w
    BY <2>1, <2>3 DEF JobsOK
  <2> QED
    BY <2>2, <2>3
<1>5. ASSUME NEW w \in SigningWorkers, SignTransfer(w)
      PROVE  JobMove(v)
  <2> DEFINE p == job[w].payout
  <2>1. p \in Payouts /\ job[w].tx = NoTx /\ job[w] \in Job
    BY <1>5, JobFacts DEF SignTransfer, At, JobCheck
  <2>2. PICK t \in TxIds :
          /\ signed' = [signed EXCEPT ![p] = t]
          /\ job' = IF chain[t].window = "fresh"
                    THEN [job EXCEPT ![w].at = "signed", ![w].tx = t]
                    ELSE [job EXCEPT ![w].at = "unsigned"]
    BY <1>5 DEF SignTransfer
  <2>3. CASE v = w
    <3>1. signed'[p] = t
      BY <2>1, <2>2 DEF ChainOK
    <3>2. job'[v].payout = p /\ job'[v].at \in {"signed", "unsigned"}
      BY <2>1, <2>2, <2>3 DEF JobsOK, Job
    <3>3. job'[v].tx \in {NoTx, t}
      BY <2>1, <2>2, <2>3 DEF JobsOK, Job
    <3> QED
      BY <2>1, <3>1, <3>2, <3>3
  <2>4. CASE v # w
    BY <2>2, <2>4 DEF JobsOK
  <2> QED
    BY <2>3, <2>4
<1>6. ASSUME NEW w \in ExecutionWorkers,
             QueryTransaction(w) \/ BehindTransaction(w) \/ ReadHead(w)
      PROVE  JobMove(v)
  BY <1>6 DEF QueryTransaction, BehindTransaction, ReadHead, Goto, JobsOK
<1>7. CASE UNCHANGED job
  BY <1>7
<1> QED
  <2>1. \A step \in {"unsigned", "sent", "release", "rebroadcast"} : step \notin VerdictSteps
    OBVIOUS
  <2> HIDE DEF JobMove, VerdictSteps
  <2> QED
    BY <1>1, <1>2, <1>3, <1>4, <1>5, <1>6, <1>7, <2>1
       DEF Next, vars, SigningStep, ExecutionStep, ChainStep, SignerError,
           CompleteSigning, ReleaseSigning, Broadcast, BeginConfirmation,
           NodeStep, NodeError, BehindTransaction, BehindHead, Rebroadcast,
           ReleaseConfirmation,
           CompleteConfirmationSuccess, CompleteConfirmationFailure, Finalize,
           LeaseLost, Crash, LeaseExpires, BecomesDue, Include, Orphan,
           Solidify, GoesStale, HeadPassesExpiry

LEMMA StepRowTransaction ==
  ASSUME TypeOK, RowTransaction, OneTransaction, [Next]_vars
  PROVE  RowTransaction'
<1> SUFFICES ASSUME NEW p \in Payouts, payout'[p].tx # NoTx
             PROVE  payout'[p].tx = signed'[p]
  BY DEF RowTransaction
<1>1. payout[p].tx # NoTx => payout[p].tx = signed[p]
  BY DEF RowTransaction
<1>2. \A w \in Workers : job[w].tx # NoTx /\ job[w].payout = p
                           => job[w].tx = signed[p]
  BY DEF OneTransaction
<1>3. payout'[p].tx = signed[p]
  BY <1>1, <1>2, RowTxSteady
<1> QED
  BY <1>3, SignedSteady

LEMMA StepOneTransaction ==
  ASSUME TypeOK, RowTransaction, OneTransaction, [Next]_vars
  PROVE  OneTransaction'
<1> SUFFICES ASSUME NEW w \in Workers, job'[w].tx # NoTx
             PROVE  /\ job'[w].payout \in Payouts
                    /\ job'[w].tx = signed'[job'[w].payout]
  BY DEF OneTransaction
<1> DEFINE p == job'[w].payout
<1>1. \/ job'[w] = job[w]
      \/ p \in Payouts /\ job'[w].tx \in {payout[p].tx, signed'[p]}
      \/ job'[w].tx = job[w].tx /\ p = job[w].payout
  <2>1. ASSUME QueryTransaction(w) \/ BehindTransaction(w) \/ ReadHead(w)
        PROVE  job'[w].tx = job[w].tx /\ p = job[w].payout
    BY <2>1 DEF QueryTransaction, BehindTransaction, ReadHead, Goto, TypeOK,
       JobsOK, Job
  <2> QED
    BY <2>1, JobMoves DEF JobMove
<1>2. \/ p \in Payouts /\ job'[w].tx \in {payout[p].tx, signed'[p]}
      \/ p \in Payouts /\ job'[w].tx = signed[p]
  BY <1>1 DEF OneTransaction
<1>3. p \in Payouts /\ job'[w].tx \in {signed[p], signed'[p]}
  BY <1>2 DEF RowTransaction
<1> QED
  BY <1>3, SignedSteady

\* What changes the chain: nothing, a delivery, a solidified block, or a step
\* that executes nothing.
LEMMA ChainMoves ==
  ASSUME TypeOK, [Next]_vars
  PROVE  \/ UNCHANGED chain
         \/ \E w \in ExecutionWorkers :
              /\ Send(job[w].tx)
              /\ job[w].tx \in TxIds
              /\ UNCHANGED <<payout, journal, outbox, signed, missed>>
         \/ \E t \in TxIds : ChainStep(t)
<1>1. ASSUME NEW w \in ExecutionWorkers, Broadcast(w) \/ Rebroadcast(w)
      PROVE  /\ Send(job[w].tx)
             /\ job[w].tx \in TxIds
             /\ UNCHANGED <<payout, journal, outbox, signed, missed>>
  <2>1. job[w] \in Job /\ JobCheck(job[w])
    BY <1>1, JobFacts, WorkerKinds DEF Broadcast, Rebroadcast, At, TypeOK
  <2>2. job[w].tx \in TxIds
    BY <1>1, <2>1 DEF Broadcast, Rebroadcast, At, Job, JobCheck
  <2> QED
    BY <1>1, <2>2 DEF Broadcast, Rebroadcast
<1> QED
  BY <1>1
     DEF Next, vars, SigningStep, ExecutionStep, ClaimExecution,
         ClaimSigning, ClaimBroadcast, ClaimConfirmation, SignTransfer,
         SignerError, CompleteSigning, ReleaseSigning, BeginConfirmation,
         QueryTransaction, ReadHead, NodeStep, NodeError, BehindTransaction,
         BehindHead, ReleaseConfirmation,
         CompleteConfirmationSuccess, CompleteConfirmationFailure, Finalize,
         LeaseLost, Crash, LeaseExpires, BecomesDue

\* What solidifies while a worker stands before the head is missed by it.
LEMMA SolidifiedIsMissed ==
  ASSUME TypeOK, [Next]_vars, NEW w \in Workers, At(w, "head"),
         job[w].tx \in TxIds, chain[job[w].tx].place # "solid",
         chain'[job[w].tx].place = "solid"
  PROVE  job[w].tx \in missed'
<1> USE DEF TypeOK, ChainOK
<1>1. ASSUME NEW v \in ExecutionWorkers, Send(job[v].tx), job[v].tx \in TxIds
      PROVE  FALSE
  BY <1>1 DEF Send, Tx
<1>2. ASSUME NEW t \in TxIds, Include(t) \/ Orphan(t)
      PROVE  FALSE
  <2>1. CASE Orphan(t)
    BY <2>1 DEF Orphan, Tx
  <2>2. CASE Include(t)
    <3>1. PICK ok \in BOOLEAN :
            chain' = [chain EXCEPT ![t].place = "block", ![t].ok = ok]
      BY <2>2 DEF Include
    <3> QED
      BY <3>1 DEF Tx
  <2> QED
    BY <1>2, <2>1, <2>2
<1>3. ASSUME NEW t \in TxIds, GoesStale(t) \/ HeadPassesExpiry(t)
      PROVE  FALSE
  BY <1>3 DEF GoesStale, HeadPassesExpiry, Tx
<1>4. ASSUME NEW t \in TxIds, Solidify(t)
      PROVE  job[w].tx \in missed'
  <2>1. t = job[w].tx
    BY <1>4 DEF Solidify
  <2> QED
    BY <1>4, <2>1 DEF Solidify
<1> QED
  BY <1>1, <1>2, <1>3, <1>4, ChainMoves DEF ChainStep

LEMMA StepVerdicts ==
  ASSUME TypeOK, FinalBlocks, Verdicts, [Next]_vars
  PROVE  Verdicts'
<1> SUFFICES ASSUME NEW w \in Workers PROVE Verdict(w)'
  BY DEF Verdicts
<1>0. job[w] \in Job /\ JobCheck(job[w]) /\ Verdict(w)
  BY DEF TypeOK, JobsOK, Verdicts
<1>1. CASE job'[w] = job[w]
  <2>1. \A step \in VerdictSteps : At(w, step) => job[w].tx \in TxIds
    BY <1>0 DEF VerdictSteps, At, Job, JobCheck
  <2>2. At(w, "settle")' => Executed(job[w].tx)'
    BY <1>0, <1>1, <2>1, ChainSteady DEF Verdict, At, VerdictSteps, Executed
  <2>3. At(w, "fail")' => Dead(job[w].tx)'
    BY <1>0, <1>1, <2>1, ChainSteady DEF Verdict, At, VerdictSteps, Dead
  <2>4. (At(w, "head") /\ chain[job[w].tx].place = "solid" => job[w].tx \in missed)'
    BY <1>0, <1>1, <2>1, ChainSteady, SolidifiedIsMissed
       DEF Verdict, At, VerdictSteps
  <2> QED
    BY <2>2, <2>3, <2>4 DEF Verdict
<1>2. CASE job'[w].at \notin VerdictSteps
  BY <1>2 DEF Verdict, At, VerdictSteps
<1>3. CASE w \in ExecutionWorkers /\ QueryTransaction(w)
  <2> DEFINE tx == chain[job[w].tx]
  <2>1. UNCHANGED <<chain, missed>>
    BY <1>3 DEF QueryTransaction
  <2>2. /\ job'[w].tx = job[w].tx
        /\ job'[w].at = CASE tx.place # "solid" -> "head"
                           [] tx.place = "solid" /\ tx.ok -> "settle"
                           [] OTHER -> "fail"
    BY <1>0, <1>3 DEF QueryTransaction, Goto, TypeOK, JobsOK, Job
  <2> QED
    BY <2>1, <2>2 DEF Verdict, At, Executed, Dead
<1>4. CASE w \in ExecutionWorkers /\ BehindTransaction(w)
  <2>1. job'[w].tx = job[w].tx /\ job'[w].at = "head"
    BY <1>0, <1>4 DEF BehindTransaction, Goto, TypeOK, JobsOK, Job
  <2>2. job[w].tx \in missed'
    BY <1>4 DEF BehindTransaction
  <2> QED
    BY <2>1, <2>2 DEF Verdict, At
<1>5. CASE w \in ExecutionWorkers /\ ReadHead(w)
  <2> DEFINE tx == chain[job[w].tx]
  <2>1. job[w].tx \in TxIds
    BY <1>0, <1>5 DEF ReadHead, At, Job, JobCheck
  <2>2. job'[w].tx = job[w].tx /\ UNCHANGED <<chain, missed>>
    BY <1>0, <1>5 DEF ReadHead, Goto, TypeOK, JobsOK, Job
  <2>3. job'[w].at = IF tx.window = "final" THEN "fail" ELSE "rebroadcast"
    BY <1>0, <1>5 DEF ReadHead, Goto, TypeOK, JobsOK, Job
  <2>4. tx.window = "final" => Dead(job[w].tx)
    BY <1>0, <1>5, <2>1
       DEF ReadHead, Verdict, Dead, FinalBlocks, TypeOK, ChainOK, Tx
  <2> QED
    BY <2>2, <2>3, <2>4 DEF Verdict, At, Dead
<1> QED
  BY <1>1, <1>2, <1>3, <1>4, <1>5, JobMoves DEF JobMove

\* The outcome of a claim is about the transaction of its payout.
LEMMA VerdictTransaction ==
  ASSUME TypeOK, OneTransaction, NEW w \in Workers,
         At(w, "settle") \/ At(w, "fail")
  PROVE  /\ job[w].payout \in Payouts
         /\ job[w].tx = signed[job[w].payout]
         /\ job[w].tx \in TxIds
<1>1. job[w] \in Job /\ JobCheck(job[w])
  BY DEF TypeOK, JobsOK
<1>2. job[w].tx # NoTx /\ job[w].tx \in TxIds
  BY <1>1 DEF At, Job, JobCheck
<1> QED
  BY <1>2 DEF OneTransaction

LEMMA StepOutcomes ==
  ASSUME TypeOK, OutcomeInv, [Next]_vars
  PROVE  Outcomes'
<1> SUFFICES ASSUME NEW q \in Payouts
             PROVE  /\ payout'[q].status = "succeeded" =>
                         signed'[q] # NoTx /\ Executed(signed[q])'
                    /\ payout'[q].status = "failed" =>
                         signed'[q] # NoTx /\ Dead(signed[q])'
  BY DEF Outcomes
<1> USE DEF OutcomeInv
<1>1. ASSUME signed[q] # NoTx
      PROVE  /\ signed'[q] = signed[q]
             /\ Executed(signed[q]) => Executed(signed[q])'
             /\ Dead(signed[q]) => Dead(signed[q])'
  <2>1. signed[q] \in TxIds
    BY <1>1 DEF TypeOK, ChainOK
  <2>2. signed'[q] = signed[q]
    BY <1>1, SignedSteady
  <2> QED
    BY <2>1, <2>2, ChainSteady DEF Executed, Dead
<1>2. CASE payout'[q].status = payout[q].status
  BY <1>1, <1>2 DEF Outcomes
<1>3. ASSUME NEW w \in ExecutionWorkers, CompleteConfirmationSuccess(w)
      PROVE  \/ payout'[q].status = payout[q].status
             \/ /\ payout'[q].status = "succeeded"
                /\ signed[q] # NoTx /\ Executed(signed[q])
  <2>1. Ended(job[w].payout, "succeeded", Settlement(job[w].payout),
              "payout.succeeded")
    BY <1>3, FinalizeEnds, WorkerKinds DEF CompleteConfirmationSuccess, At
  <2>2. job[w].tx = signed[job[w].payout] /\ job[w].tx # NoTx
    BY <1>3, VerdictTransaction, TxAssumption, WorkerKinds
       DEF CompleteConfirmationSuccess
  <2>3. Executed(job[w].tx)
    BY <1>3, WorkerKinds DEF CompleteConfirmationSuccess, Verdicts, Verdict
  <2>4. CASE q = job[w].payout
    BY <2>1, <2>2, <2>3, <2>4 DEF Ended, Executed
  <2> QED
    BY <2>1, <2>4 DEF Ended
<1>4. ASSUME NEW w \in ExecutionWorkers, CompleteConfirmationFailure(w)
      PROVE  \/ payout'[q].status = payout[q].status
             \/ /\ payout'[q].status = "failed"
                /\ signed[q] # NoTx /\ Dead(signed[q])
  <2>1. Ended(job[w].payout, "failed", Unfreeze(job[w].payout), "payout.failed")
    BY <1>4, FinalizeEnds, WorkerKinds DEF CompleteConfirmationFailure, At
  <2>2. job[w].tx = signed[job[w].payout] /\ job[w].tx # NoTx
    BY <1>4, VerdictTransaction, TxAssumption, WorkerKinds
       DEF CompleteConfirmationFailure
  <2>3. Dead(job[w].tx)
    BY <1>4, WorkerKinds DEF CompleteConfirmationFailure, Verdicts, Verdict
  <2>4. CASE q = job[w].payout
    BY <2>1, <2>2, <2>3, <2>4 DEF Ended, Dead
  <2> QED
    BY <2>1, <2>4 DEF Ended
<1>5. CASE NothingEnds
  BY <1>2, <1>5 DEF NothingEnds, InFlight, Statuses, Terminal
<1> QED
  BY <1>1, <1>2, <1>3, <1>4, <1>5, OnlyFinalizeEnds

LEMMA OutcomeInvariant == Spec => []OutcomeInv
<1>1. ASSUME TypeOK, OutcomeInv, [Next]_vars
      PROVE  OutcomeInv'
  BY <1>1, ChainSteady, StepOneTransaction, StepRowTransaction, StepVerdicts,
     StepOutcomes DEF OutcomeInv
<1>2. TypeOK /\ OutcomeInv /\ [Next]_vars => OutcomeInv'
  BY <1>1
<1> QED
  BY InitOutcome, TypeCorrect, <1>2, PTL DEF Spec

\* A payout is reported succeeded only once its transfer is final.
THEOREM SucceededIsTransferredAlways == Spec => []SucceededIsTransferred
<1>1. OutcomeInv => SucceededIsTransferred
  BY DEF OutcomeInv, Outcomes, SucceededIsTransferred, Transferred, Executed
<1> QED
  BY OutcomeInvariant, <1>1, PTL

\* For any number of workers and nodes behind the chain: a payout is failed
\* with its tokens gone only when the chain was solidified further than the
\* failing round had read before it asked for the head.
THEOREM FailedTransferWasMissedAlways == Spec => []FailedTransferWasMissed
<1>1. OutcomeInv => FailedTransferWasMissed
  BY DEF OutcomeInv, Outcomes, FailedTransferWasMissed, Transferred, Dead
<1> QED
  BY OutcomeInvariant, <1>1, PTL

-----------------------------------------------------------------------------
(* Refinement of PayoutContract *)

\* No two payouts have the same transaction, and the chain sees only signed
\* transactions.
OwnTransaction ==
  \A p, q \in Payouts : signed[p] # NoTx /\ signed[p] = signed[q] => p = q

OnlySigned ==
  \A t \in TxIds : chain[t].sent \/ chain[t].place # "none"
                    => \E p \in Payouts : signed[p] = t

LEMMA InitSigned == Init => OwnTransaction /\ OnlySigned
BY TxAssumption DEF Init, OwnTransaction, OnlySigned

\* What changes the signer's table: nothing, or a first signature.
LEMMA SignedMoves ==
  ASSUME TypeOK, [Next]_vars
  PROVE  \/ UNCHANGED signed
         \/ /\ \E p \in Payouts, t \in TxIds :
                  /\ signed[p] = NoTx
                  /\ \A q \in Payouts : signed[q] # t
                  /\ signed' = [signed EXCEPT ![p] = t]
            /\ UNCHANGED <<payout, journal, outbox, chain, missed>>
<1> USE DEF TypeOK, ChainOK
<1>1. ASSUME NEW w \in SigningWorkers, SignTransfer(w) \/ SignerError(w),
             ~UNCHANGED signed
      PROVE  /\ \E p \in Payouts, t \in TxIds :
                  /\ signed[p] = NoTx
                  /\ \A q \in Payouts : signed[q] # t
                  /\ signed' = [signed EXCEPT ![p] = t]
             /\ UNCHANGED <<payout, journal, outbox, chain, missed>>
  <2>1. job[w].payout \in Payouts
    BY <1>1, JobFacts, WorkerKinds DEF SignTransfer, SignerError, At
  <2>2. PICK t \in TxIds : /\ Resolve(job[w].payout, t)
                           /\ signed' = [signed EXCEPT ![job[w].payout] = t]
    BY <1>1 DEF SignTransfer, SignerError
  <2>3. signed[job[w].payout] # t
    BY <1>1, <2>1, <2>2
  <2> QED
    BY <1>1, <2>1, <2>2, <2>3 DEF Resolve, SignTransfer, SignerError
<1>2. CASE UNCHANGED signed
  BY <1>2
<1> QED
  BY <1>1, <1>2
     DEF Next, vars, SigningStep, ExecutionStep, ClaimExecution, ChainStep,
         ClaimSigning, ClaimBroadcast, ClaimConfirmation, CompleteSigning,
         ReleaseSigning, Broadcast, BeginConfirmation, QueryTransaction,
         ReadHead, NodeStep, NodeError, BehindTransaction, BehindHead,
         Rebroadcast, ReleaseConfirmation,
         CompleteConfirmationSuccess, CompleteConfirmationFailure, Finalize,
         LeaseLost, Crash, LeaseExpires, BecomesDue, Include, Orphan,
         Solidify, GoesStale, HeadPassesExpiry

LEMMA StepOwnTransaction ==
  ASSUME TypeOK, OwnTransaction, [Next]_vars
  PROVE  OwnTransaction'
<1>1. CASE UNCHANGED signed
  BY <1>1 DEF OwnTransaction
<1>2. ASSUME NEW p \in Payouts, NEW t \in TxIds, signed[p] = NoTx,
             \A q \in Payouts : signed[q] # t,
             signed' = [signed EXCEPT ![p] = t]
      PROVE  OwnTransaction'
  BY <1>2 DEF OwnTransaction, TypeOK, ChainOK
<1> QED
  BY <1>1, <1>2, SignedMoves

LEMMA StepOnlySigned ==
  ASSUME TypeOK, OneTransaction, OnlySigned, [Next]_vars
  PROVE  OnlySigned'
<1>1. ASSUME NEW t \in TxIds, chain[t].sent \/ chain[t].place # "none"
      PROVE  \E p \in Payouts : signed'[p] = t
  <2>1. PICK p \in Payouts : signed[p] = t
    BY <1>1 DEF OnlySigned
  <2> QED
    BY <2>1, SignedSteady, TxAssumption
<1>2. CASE UNCHANGED chain
  BY <1>1, <1>2 DEF OnlySigned
<1>3. ASSUME NEW w \in ExecutionWorkers, Send(job[w].tx), job[w].tx \in TxIds
      PROVE  OnlySigned'
  <2>1. PICK p \in Payouts : signed[p] = job[w].tx
    BY <1>3, WorkerKinds, TxAssumption DEF OneTransaction
  <2>2. signed'[p] = job[w].tx
    BY <1>3, <2>1, SignedSteady, TxAssumption
  <2>3. \A t \in TxIds \ {job[w].tx} : chain'[t] = chain[t]
    BY <1>3 DEF Send, TypeOK, ChainOK
  <2> QED
    BY <1>1, <2>2, <2>3 DEF OnlySigned
<1>4. ASSUME NEW t \in TxIds, ChainStep(t)
      PROVE  OnlySigned'
  <2>1. \A u \in TxIds \ {t} : chain'[u] = chain[u]
    BY <1>4 DEF ChainStep, Include, Orphan, Solidify, GoesStale,
       HeadPassesExpiry, TypeOK, ChainOK
  <2>2. \/ chain[t].sent \/ chain[t].place # "none"
        \/ /\ chain'[t].sent = chain[t].sent
           /\ chain'[t].place = chain[t].place
    <3>1. CASE Include(t) \/ Orphan(t) \/ Solidify(t)
      BY <3>1 DEF Include, Orphan, Solidify
    <3>2. CASE GoesStale(t) \/ HeadPassesExpiry(t)
      BY <3>2 DEF GoesStale, HeadPassesExpiry, TypeOK, ChainOK, Tx
    <3> QED
      BY <1>4, <3>1, <3>2 DEF ChainStep
  <2> QED
    BY <1>1, <2>1, <2>2 DEF OnlySigned
<1> QED
  BY <1>2, <1>3, <1>4, ChainMoves

IInv == TypeOK /\ TablesAgree /\ OutcomeInv /\ OwnTransaction /\ OnlySigned

LEMMA InductiveInvariant == Spec => []IInv
<1>1. IInv /\ [Next]_vars => OwnTransaction' /\ OnlySigned'
  BY StepOwnTransaction, StepOnlySigned DEF IInv, OutcomeInv
<1>2. Init => OwnTransaction /\ OnlySigned
  BY InitSigned
<1> QED
  BY <1>1, <1>2, TypeCorrect, TablesAgreeAlways, OutcomeInvariant, PTL
     DEF Spec, IInv

\* In a settled story the journal holds a payout's freeze and its end.
LEMMA KindsOf ==
  ASSUME TypeOK, NEW p \in Payouts, Story(p)
  PROVE  /\ payout[p].status \in InFlight => Kinds(p) = {"payout_freeze"}
         /\ payout[p].status = "succeeded" =>
              Kinds(p) = {"payout_freeze", "payout_settlement"}
         /\ payout[p].status = "failed" =>
              Kinds(p) = {"payout_freeze", "payout_failure_release"}
<1>1. \A e \in journal : e.payout = p =>
        e \in {Freeze(p), Settlement(p), Unfreeze(p)}
  BY DEF TypeOK, BooksOK, Entries, Freeze, Settlement, Unfreeze
<1>2. Freeze(p) \in journal
  BY DEF Story
<1>3. CASE payout[p].status \in InFlight
  <2>1. Settlement(p) \notin journal /\ Unfreeze(p) \notin journal
    BY <1>3 DEF Story, InFlight, Terminal
  <2> QED
    BY <1>1, <1>2, <1>3, <2>1 DEF Kinds, InFlight, Terminal, Freeze
<1>4. CASE payout[p].status = "succeeded"
  <2>1. Settlement(p) \in journal /\ Unfreeze(p) \notin journal
    BY <1>4 DEF Story
  <2> QED
    BY <1>1, <1>2, <1>4, <2>1 DEF Kinds, InFlight, Terminal, Freeze, Settlement
<1>5. CASE payout[p].status = "failed"
  <2>1. Settlement(p) \notin journal /\ Unfreeze(p) \in journal
    BY <1>5 DEF Story
  <2> QED
    BY <1>1, <1>2, <1>5, <2>1 DEF Kinds, InFlight, Terminal, Freeze, Unfreeze
<1> QED
  BY <1>3, <1>4, <1>5

LEMMA InitRefines == Init => Contract!Init
<1> SUFFICES ASSUME Init PROVE Contract!Init
  OBVIOUS
<1>1. [p \in Payouts |-> Result(p)] = [p \in Payouts |-> "pending"]
  BY DEF Init, Result, Terminal
<1>2. Moved = {} /\ Unseen = {}
  BY DEF Init, Moved, Unseen, Transferred
<1>3. ASSUME NEW p \in Payouts
      PROVE  Kinds(p) = {"payout_freeze"}
  BY InitType, InitTables, KindsOf
     DEF Init, TablesAgree, InFlight, Statuses, Terminal
<1>4. outbox = [p \in Payouts |-> <<>>]
  BY DEF Init
<1> QED
  BY <1>1, <1>2, <1>3, <1>4 DEF Contract!Init

\* What changes the history: a block that solidifies or a node that is behind.
LEMMA MissedMoves ==
  ASSUME [Next]_vars
  PROVE  \/ UNCHANGED missed
         \/ \E w \in ExecutionWorkers : BehindTransaction(w)
         \/ \E t \in TxIds : Solidify(t)
BY DEF Next, vars, SigningStep, ExecutionStep, NodeStep, ClaimExecution,
       ChainStep, ClaimSigning, ClaimBroadcast, ClaimConfirmation,
       SignTransfer, SignerError, CompleteSigning, ReleaseSigning, Broadcast,
       BeginConfirmation, QueryTransaction, ReadHead, NodeError, BehindHead,
       Rebroadcast, ReleaseConfirmation, CompleteConfirmationSuccess,
       CompleteConfirmationFailure, Finalize, LeaseLost, Crash, LeaseExpires,
       BecomesDue, Include, Orphan, GoesStale, HeadPassesExpiry

\* What a step of the chain, a node or the signer is to the contract: nothing,
\* the transfer of one payout that has not ended, or a look that overlooks one.
TransferSteps ==
  \/ Moved' = Moved /\ Unseen' = Unseen
  \/ \E p \in Payouts : /\ payout[p].status \in InFlight
                        /\ p \notin Moved
                        /\ Moved' = Moved \cup {p}
                        /\ Unseen' \in {Unseen, Unseen \cup {p}}
  \/ \E p \in Moved : Moved' = Moved /\ Unseen' = Unseen \cup {p}

LEMMA MovedSteps == ASSUME IInv, [Next]_vars PROVE TransferSteps
<1> USE TxAssumption
<1> USE DEF IInv, TypeOK, ChainOK, Moved, Unseen, Transferred, TransferSteps
<1>1. CASE UNCHANGED <<signed, chain, missed>>
  BY <1>1
<1>2. ASSUME UNCHANGED <<chain, missed>>,
             NEW p \in Payouts, NEW t \in TxIds, signed[p] = NoTx,
             \A q \in Payouts : signed[q] # t,
             signed' = [signed EXCEPT ![p] = t]
      PROVE  Moved' = Moved /\ Unseen' = Unseen
  <2>1. chain[t].place = "none"
    BY <1>2 DEF OnlySigned
  <2>2. Moved' = Moved
    BY <1>2, <2>1
  <2>3. \A q \in Moved : signed'[q] = signed[q]
    BY <1>2
  <2> HIDE DEF Moved
  <2> QED
    BY <1>2, <2>2, <2>3
<1>3. ASSUME NEW t \in TxIds, Send(t), UNCHANGED <<signed, missed>>
      PROVE  Moved' = Moved /\ Unseen' = Unseen
  <2>1. \A u \in TxIds : /\ chain'[u].place = chain[u].place
                         /\ chain'[u].ok = chain[u].ok
    BY <1>3 DEF Send, Tx
  <2> QED
    BY <1>3, <2>1
<1>4. ASSUME NEW t \in TxIds, Include(t) \/ Orphan(t)
      PROVE  Moved' = Moved /\ Unseen' = Unseen
  <2>1. /\ \A u \in TxIds \ {t} : chain'[u] = chain[u]
        /\ chain[t].place # "solid" /\ chain'[t].place # "solid"
    <3>1. CASE Orphan(t)
      BY <3>1 DEF Orphan, Tx
    <3>2. CASE Include(t)
      <4>1. PICK ok \in BOOLEAN :
              chain' = [chain EXCEPT ![t].place = "block", ![t].ok = ok]
        BY <3>2 DEF Include
      <4> QED
        BY <3>2, <4>1 DEF Include, Tx
    <3> QED
      BY <1>4, <3>1, <3>2
  <2>2. UNCHANGED <<signed, missed>>
    BY <1>4 DEF Include, Orphan
  <2> QED
    BY <2>1, <2>2
<1>5. ASSUME NEW t \in TxIds, GoesStale(t) \/ HeadPassesExpiry(t)
      PROVE  Moved' = Moved /\ Unseen' = Unseen
  <2>1. \A u \in TxIds : /\ chain'[u].place = chain[u].place
                         /\ chain'[u].ok = chain[u].ok
    BY <1>5 DEF GoesStale, HeadPassesExpiry, Tx
  <2>2. UNCHANGED <<signed, missed>>
    BY <1>5 DEF GoesStale, HeadPassesExpiry
  <2> QED
    BY <2>1, <2>2
<1>6. ASSUME NEW t \in TxIds, Solidify(t)
      PROVE  TransferSteps
  <2>1. /\ \A u \in TxIds \ {t} : chain'[u] = chain[u]
        /\ chain[t].place = "block"
        /\ missed' \in {missed, missed \cup {t}}
        /\ UNCHANGED signed
    BY <1>6 DEF Solidify
  <2>2. PICK p \in Payouts : signed[p] = t
    BY <2>1 DEF OnlySigned
  <2>3. \A q \in Payouts \ {p} : signed[q] # t
    BY <2>2 DEF OwnTransaction
  <2>4. \A q \in Payouts \ {p} : /\ q \in Moved' <=> q \in Moved
                                 /\ signed[q] \in missed' <=> signed[q] \in missed
    BY <2>1, <2>3
  <2>5. p \notin Moved
    BY <2>1, <2>2
  <2>6. ~Executed(t) /\ ~Dead(t)
    BY <2>1 DEF Executed, Dead
  <2>7. payout[p].status \notin {"succeeded", "failed"}
    BY <2>2, <2>6 DEF OutcomeInv, Outcomes, Executed, Dead
  <2>8. payout[p].status \in InFlight
    BY <2>7, RowFacts DEF Row, InFlight, Terminal
  <2>9. Moved \subseteq Payouts /\ Moved' \subseteq Payouts
    OBVIOUS
  <2>10. Moved' = Moved \/ Moved' = Moved \cup {p}
    BY <2>4, <2>5
  <2> HIDE DEF Moved
  <2>11. Moved' = Moved => Unseen' = Unseen
    BY <2>1, <2>4, <2>5, <2>9
  <2>12. Moved' = Moved \cup {p} => Unseen' \in {Unseen, Unseen \cup {p}}
    BY <2>1, <2>4, <2>5, <2>9
  <2> QED
    BY <2>5, <2>8, <2>10, <2>11, <2>12
<1>7. CASE UNCHANGED <<chain, missed>>
  BY <1>1, <1>2, <1>7, SignedMoves
<1>8. ASSUME NEW w \in ExecutionWorkers, BehindTransaction(w)
      PROVE  TransferSteps
  <2> DEFINE t == job[w].tx
  <2>1. /\ chain[t].place = "solid" /\ missed' = missed \cup {t}
        /\ UNCHANGED <<signed, chain>>
    BY <1>8 DEF BehindTransaction
  <2>2. t \in TxIds
    BY <1>8, JobFacts, WorkerKinds DEF BehindTransaction, At, Job, JobCheck
  <2>3. PICK p \in Payouts : signed[p] = t
    BY <2>1, <2>2 DEF OnlySigned
  <2>4. \A q \in Payouts \ {p} : signed[q] # t
    BY <2>2, <2>3 DEF OwnTransaction
  <2>5. Moved' = Moved /\ Moved \subseteq Payouts
    BY <2>1
  <2> HIDE DEF Moved
  <2>6. CASE p \in Moved
    <3>1. Unseen' = Unseen \cup {p}
      BY <2>1, <2>3, <2>4, <2>5, <2>6
    <3> QED
      BY <2>5, <2>6, <3>1
  <2>7. CASE p \notin Moved
    <3>1. Unseen' = Unseen
      BY <2>1, <2>3, <2>4, <2>5, <2>7
    <3> QED
      BY <2>5, <3>1
  <2> QED
    BY <2>6, <2>7
<1> HIDE DEF Moved, Unseen
<1> QED
  BY <1>3, <1>4, <1>5, <1>6, <1>7, <1>8, ChainMoves, MissedMoves DEF ChainStep

\* The end of a payout is one step of the contract.
LEMMA EndRefines ==
  ASSUME TypeOK, TablesAgree, NEW p \in Payouts,
         NEW status \in Terminal,
         NEW entry, NEW topic,
         Ended(p, status, entry, topic),
         UNCHANGED <<signed, chain, missed>>,
         \/ /\ status = "succeeded" /\ entry = Settlement(p)
            /\ topic = "payout.succeeded"
         \/ /\ status = "failed" /\ entry = Unfreeze(p)
            /\ topic = "payout.failed"
  PROVE  Contract!End(p, status, entry.type, topic)
<1>1. payout[p].status \in InFlight
  BY DEF Ended, InFlight, Statuses, Terminal
<1>2. Result(p) = "pending"
  BY <1>1 DEF Result, InFlight
<1>3. \A q \in Payouts : Result(q)' = IF q = p THEN status ELSE Result(q)
  BY DEF Ended, Result
<1>4. [q \in Payouts |-> Result(q)]' =
        [[q \in Payouts |-> Result(q)] EXCEPT ![p] = status]
  BY <1>3
<1>5. \A q \in Payouts \ {p} : Kinds(q)' = Kinds(q)
  BY DEF Ended, Kinds, Settlement, Unfreeze
<1>6. Kinds(p)' = {"payout_freeze", entry.type}
  <2>1. Kinds(p) = {"payout_freeze"}
    BY <1>1, KindsOf DEF TablesAgree
  <2>2. Kinds(p)' = Kinds(p) \cup {entry.type}
    BY DEF Ended, Kinds, Settlement, Unfreeze
  <2> QED
    BY <2>1, <2>2
<1>7. [q \in Payouts |-> Kinds(q)]' =
        [[q \in Payouts |-> Kinds(q)] EXCEPT ![p] = {"payout_freeze", entry.type}]
  BY <1>5, <1>6
<1>8. outbox[p] = <<>>
  BY <1>1 DEF TablesAgree, Story
<1>9. outbox' = [outbox EXCEPT ![p] = <<topic>>]
  BY <1>8 DEF Ended, TypeOK, BooksOK
<1>10. Moved' = Moved /\ Unseen' = Unseen
  BY DEF Moved, Unseen, Transferred
<1> QED
  BY <1>2, <1>4, <1>7, <1>9, <1>10 DEF Contract!End

LEMMA StepRefines ==
  ASSUME IInv, [Next]_vars
  PROVE  [Contract!Next]_(Contract!vars)
<1> USE DEF IInv
<1>1. ASSUME NEW w \in ExecutionWorkers, CompleteConfirmationSuccess(w)
      PROVE  Contract!Next
  <2> DEFINE p == job[w].payout
  <2>1. /\ p \in Payouts
        /\ Ended(p, "succeeded", Settlement(p), "payout.succeeded")
        /\ UNCHANGED <<signed, chain, missed>>
    BY <1>1, FinalizeEnds, WorkerKinds DEF CompleteConfirmationSuccess, At
  <2>2. Contract!End(p, "succeeded", "payout_settlement", "payout.succeeded")
    BY <2>1, EndRefines DEF Terminal, Settlement
  <2>3. p \in Moved
    <3>1. /\ job[w].tx = signed[p] /\ job[w].tx \in TxIds
          /\ Executed(job[w].tx)
      BY <1>1, VerdictTransaction, WorkerKinds
         DEF OutcomeInv, Verdicts, Verdict, CompleteConfirmationSuccess
    <3> QED
      BY <2>1, <3>1, TxAssumption DEF Moved, Transferred, Executed
  <2> QED
    BY <2>1, <2>2, <2>3 DEF Contract!Next, Contract!Succeed
<1>2. ASSUME NEW w \in ExecutionWorkers, CompleteConfirmationFailure(w)
      PROVE  Contract!Next
  <2> DEFINE p == job[w].payout
  <2>1. /\ p \in Payouts
        /\ Ended(p, "failed", Unfreeze(p), "payout.failed")
        /\ UNCHANGED <<signed, chain, missed>>
    BY <1>2, FinalizeEnds, WorkerKinds DEF CompleteConfirmationFailure, At
  <2>2. Contract!End(p, "failed", "payout_failure_release", "payout.failed")
    BY <2>1, EndRefines DEF Terminal, Unfreeze
  <2>3. p \in Moved => p \in Unseen
    <3>1. job[w].tx = signed[p] /\ Dead(job[w].tx)
      BY <1>2, VerdictTransaction, WorkerKinds
         DEF OutcomeInv, Verdicts, Verdict, CompleteConfirmationFailure
    <3> QED
      BY <3>1 DEF Moved, Unseen, Transferred, Dead
  <2> QED
    BY <2>1, <2>2, <2>3 DEF Contract!Next, Contract!Fail
<1>3. CASE NothingEnds
  <2>1. [p \in Payouts |-> Result(p)]' = [p \in Payouts |-> Result(p)]
    BY <1>3 DEF NothingEnds, Result, InFlight
  <2>2. [p \in Payouts |-> Kinds(p)]' = [p \in Payouts |-> Kinds(p)]
    BY <1>3 DEF NothingEnds, Kinds
  <2>3. UNCHANGED outbox
    BY <1>3 DEF NothingEnds
  <2>4. CASE Moved' = Moved /\ Unseen' = Unseen
    BY <2>1, <2>2, <2>3, <2>4 DEF Contract!vars
  <2>5. ASSUME NEW p \in Payouts, payout[p].status \in InFlight, p \notin Moved,
               Moved' = Moved \cup {p}, Unseen' \in {Unseen, Unseen \cup {p}}
        PROVE  Contract!Next
    <3>1. Result(p) = "pending"
      BY <2>5 DEF Result, InFlight
    <3> QED
      BY <2>1, <2>2, <2>3, <2>5, <3>1 DEF Contract!Next, Contract!Transfer
  <2>6. ASSUME NEW p \in Moved, Moved' = Moved, Unseen' = Unseen \cup {p}
        PROVE  Contract!Next
    <3>1. p \in Payouts
      BY DEF Moved
    <3> QED
      BY <2>1, <2>2, <2>3, <2>6, <3>1 DEF Contract!Next, Contract!Overlook
  <2> QED
    BY <2>4, <2>5, <2>6, MovedSteps DEF TransferSteps
<1> QED
  BY <1>1, <1>2, <1>3, OnlyFinalizeEnds

\* Everything the workers do amounts to the contract: one atomic end per
\* payout, a success after its tokens moved, a failure after which they never
\* move and before which they moved only overlooked.
THEOREM Refinement == Spec => ImplementsContract
<1>1. Init => Contract!Init
  BY InitRefines
<1>2. IInv /\ [Next]_vars => [Contract!Next]_(Contract!vars)
  BY StepRefines
<1> QED
  BY <1>1, <1>2, InductiveInvariant, PTL DEF Spec, ImplementsContract, Contract!Spec

-----------------------------------------------------------------------------
(* Who writes a row *)

\* The end of a claim is written by the process that the row names.
LEMMA HolderEnds ==
  ASSUME TypeOK, NEW w \in Workers, ~At(w, "idle"), NEW status, NEW row,
         Fenced(w, status), Done(w),
         payout' = [payout EXCEPT ![job[w].payout] = row],
         payout[job[w].payout].live \/ row.status = status
  PROVE  \A p \in Payouts : FencedRow(p)
<1> USE DEF TypeOK, RowsOK
<1> SUFFICES ASSUME NEW p \in Payouts, payout'[p] # payout[p]
             PROVE  \/ payout[p].live /\ job[payout[p].holder].payout = p
                                      /\ job'[payout[p].holder] = Idle
                    \/ ~payout[p].live /\ payout'[p].status = payout[p].status
  BY DEF FencedRow
<1>1. p = job[w].payout /\ payout'[p] = row
  OBVIOUS
<1>2. payout[p].status = status /\ payout[p].holder = w
  BY <1>1 DEF Fenced
<1>3. job'[w] = Idle
  BY DEF Done, JobsOK
<1> QED
  BY <1>1, <1>2, <1>3

\* A claim takes a row that no live lease protects, and keeps its status.
LEMMA LeaseTakesFree ==
  ASSUME TypeOK, NEW w \in Workers, NEW p \in Payouts, LeaseFree(p), Lease(w, p)
  PROVE  \A q \in Payouts : FencedRow(q)
<1> SUFFICES ASSUME NEW q \in Payouts, payout'[q] # payout[q]
             PROVE  ~payout[q].live /\ payout'[q].status = payout[q].status
  BY DEF FencedRow
<1>1. payout[p] \in Row /\ LifecycleCheck(payout[p])
  BY RowFacts DEF TypeOK
<1>2. q = p
  BY DEF Lease, TypeOK, RowsOK
<1>3. ~payout[p].live
  BY <1>1 DEF LeaseFree, LifecycleCheck
<1>4. payout'[p].status = payout[p].status
  BY <1>1 DEF Lease, TypeOK, RowsOK, Row
<1> QED
  BY <1>2, <1>3, <1>4

LEMMA StepFenced ==
  ASSUME TypeOK, [Next]_vars
  PROVE  \A p \in Payouts : FencedRow(p)
<1> USE WorkerKinds
<1>1. ASSUME NEW w \in Workers, NEW p \in Payouts,
             ClaimSigning(w, p) \/ ClaimBroadcast(w, p) \/ ClaimConfirmation(w, p)
      PROVE  \A q \in Payouts : FencedRow(q)
  BY <1>1, LeaseTakesFree DEF ClaimSigning, ClaimBroadcast, ClaimConfirmation
<1>2. ASSUME NEW w \in Workers, CompleteSigning(w)
      PROVE  \A q \in Payouts : FencedRow(q)
  BY <1>2, HolderEnds DEF CompleteSigning, FencedLive, At
<1>3. ASSUME NEW w \in Workers, ReleaseSigning(w)
      PROVE  \A q \in Payouts : FencedRow(q)
  <2> DEFINE row == Unleased(payout[job[w].payout])
  <2>1. payout[job[w].payout] \in Row
    BY <1>3, JobFacts, RowFacts DEF TypeOK, ReleaseSigning, At
  <2>2. row.status = "approved"
    BY <1>3, <2>1 DEF ReleaseSigning, Fenced, Unleased, Row
  <2>3. payout' = [payout EXCEPT ![job[w].payout] = row]
    BY <1>3 DEF ReleaseSigning
  <2> HIDE DEF row
  <2> QED
    BY <1>3, <2>2, <2>3, HolderEnds DEF ReleaseSigning, At
<1>4. ASSUME NEW w \in Workers, BeginConfirmation(w)
      PROVE  \A q \in Payouts : FencedRow(q)
  BY <1>4, HolderEnds DEF BeginConfirmation, FencedLive, At
<1>5. ASSUME NEW w \in Workers, ReleaseConfirmation(w)
      PROVE  \A q \in Payouts : FencedRow(q)
  <2> DEFINE row == [Unleased(payout[job[w].payout]) EXCEPT !.due = FALSE]
  <2>1. payout[job[w].payout] \in Row
    BY <1>5, JobFacts, RowFacts DEF TypeOK, ReleaseConfirmation, At
  <2>2. row.status = "confirming"
    BY <1>5, <2>1 DEF ReleaseConfirmation, Fenced, Unleased, Row
  <2>3. payout' = [payout EXCEPT ![job[w].payout] = row]
    BY <1>5 DEF ReleaseConfirmation
  <2> HIDE DEF row
  <2> QED
    BY <1>5, <2>2, <2>3, HolderEnds DEF ReleaseConfirmation, At
<1>6. ASSUME NEW w \in Workers,
             CompleteConfirmationSuccess(w) \/ CompleteConfirmationFailure(w)
      PROVE  \A q \in Payouts : FencedRow(q)
  BY <1>6, HolderEnds
     DEF CompleteConfirmationSuccess, CompleteConfirmationFailure, Finalize,
         CanFinalize, FencedLive, At
<1>7. ASSUME NEW p \in Payouts, LeaseExpires(p) \/ BecomesDue(p)
      PROVE  \A q \in Payouts : FencedRow(q)
  BY <1>7 DEF LeaseExpires, BecomesDue, FencedRow, TypeOK, RowsOK
<1>8. CASE UNCHANGED payout
  BY <1>8 DEF FencedRow
<1>9. CASE UNCHANGED vars
  BY <1>8, <1>9 DEF vars
<1> QED
  BY <1>1, <1>2, <1>3, <1>4, <1>5, <1>6, <1>7, <1>8, <1>9
     DEF Next, SigningStep, ExecutionStep, ClaimExecution, ChainStep,
         SignTransfer, SignerError, Broadcast, QueryTransaction, ReadHead,
         NodeStep, NodeError, BehindTransaction, BehindHead, Rebroadcast,
         LeaseLost, Crash, Include, Orphan, Solidify,
         GoesStale, HeadPassesExpiry

\* For all workers, sharing identifiers or not: while a lease is live only the
\* process whose claim it is writes the row, and only to end that claim.
THEOREM OnlyHolderWritesAlways == Spec => OnlyHolderWrites
<1>1. TypeOK /\ [Next]_vars => \A p \in Payouts : FencedRow(p)
  BY StepFenced
<1>2. OnlyHolderWrites <=> [][\A p \in Payouts : FencedRow(p)]_vars
  BY DEF OnlyHolderWrites
<1> QED
  BY <1>1, <1>2, TypeCorrect, PTL DEF Spec
=============================================================================

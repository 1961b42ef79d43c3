---------------------------- MODULE TreasuryProofs ----------------------------
(***************************************************************************)
(* Theorems about Treasury, for any finite or infinite sets of movements,  *)
(* wallets and amounts.                                                    *)
(*                                                                         *)
(* The ledger side: journal is exactly the postings that the rows call     *)
(* for (BooksAgree), so the balances of the accounts are sums over rows    *)
(* (SumsAgree).  The chain side: a transfer that is solidified is in       *)
(* flight or has ended, as a success or, missed, as a failure              *)
(* (ChainAgrees).  A capture adds up the wallets that it has read as of    *)
(* the height it began at, as long as the node has not moved               *)
(* (CaptureAgrees).  Saving puts these together: the checkpoint  *)
(* is the ledger of the moment of the save, the total is of a block at or  *)
(* below the head, and what lies between the two is split by cases         *)
(* (SnapshotIsCut).                                                        *)
(***************************************************************************)
EXTENDS Treasury, SumTheorems, SequenceTheorems

-----------------------------------------------------------------------------
(* Sums of movements and of postings *)

\* The model's sum over movements, as a sum of SumTheorems.
LEMMA SumIs ==
  ASSUME NEW ms
  PROVE Sum(ms) = SumOf(Amount, ms)
BY DEF Sum, SumOf

\* Finitely many movements have a total.
LEMMA MovementsSummable ==
  ASSUME NEW ms, ms \subseteq Movements, IsFiniteSet(ms)
  PROVE Summable(Amount, ms) /\ SumOf(Amount, ms) \in Nat
BY SumNat, MovementsAssumption

\* Totals of the two sides of an account, over a journal J.
AmountOf == [j \in Posting |-> j.amount]

Debits(J, a) == SumOf(AmountOf, {j \in J : j.debit = a})
Credits(J, a) == SumOf(AmountOf, {j \in J : j.credit = a})
LedgerIn(J, a) == IF a = "custody" THEN Debits(J, a) - Credits(J, a)
                                   ELSE Credits(J, a) - Debits(J, a)

\* Finitely many postings have a total.
LEMMA PostingsSummable ==
  ASSUME NEW J, J \subseteq Posting, IsFiniteSet(J)
  PROVE Summable(AmountOf, J) /\ SumOf(AmountOf, J) \in Nat
<1>1. \A j \in J : AmountOf[j] \in Nat
  BY DEF AmountOf, Posting
<1>. QED BY <1>1, SumNat

\* The sum in Ledger, as a sum of SumTheorems.
LEMMA PostingsSum ==
  ASSUME NEW J, J \subseteq Posting, IsFiniteSet(J)
  PROVE MapThenSumSet(LAMBDA j : j.amount, J) = SumOf(AmountOf, J)
<1> DEFINE f == [j \in J |-> j.amount]
<1>1. \A j \in J : f[j] = AmountOf[j]
  BY DEF AmountOf
<1>2. SumOf(f, J) = SumOf(AmountOf, J)
  <2>. HIDE DEF f
  <2>. QED BY <1>1, PostingsSummable, SumSame
<1>3. MapThenSumSet(LAMBDA j : j.amount, J) = SumOf(f, J)
  BY AmountsSum
<1>. QED BY <1>2, <1>3

\* The balance of an account from the totals of its two sides.
LEMMA LedgerIs ==
  ASSUME journal \subseteq Posting, IsFiniteSet(journal), NEW account
  PROVE Ledger(account) = LedgerIn(journal, account)
<1> DEFINE D == {j \in journal : j.debit = account}
           C == {j \in journal : j.credit = account}
<1>1. D \subseteq Posting /\ C \subseteq Posting
  OBVIOUS
<1>2. IsFiniteSet(D) /\ IsFiniteSet(C)
  BY FS_Subset
<1>3. MapThenSumSet(LAMBDA j : j.amount, D) = SumOf(AmountOf, D)
  <2>. HIDE DEF D
  <2>. QED BY <1>1, <1>2, PostingsSum
<1>4. MapThenSumSet(LAMBDA j : j.amount, C) = SumOf(AmountOf, C)
  <2>. HIDE DEF C
  <2>. QED BY <1>1, <1>2, PostingsSum
<1>. QED BY <1>3, <1>4 DEF Ledger, LedgerIn, Debits, Credits

\* One side of an account after one more posting.
LEMMA SelectedAdd ==
  ASSUME NEW D, D \subseteq Posting, IsFiniteSet(D), NEW j \in Posting, j \notin D,
         NEW E, NEW selected \in BOOLEAN, E = IF selected THEN D \cup {j} ELSE D
  PROVE SumOf(AmountOf, E) = SumOf(AmountOf, D) + IF selected THEN j.amount ELSE 0
<1>1. Summable(AmountOf, D) /\ SumOf(AmountOf, D) \in Int
  BY PostingsSummable
<1>2. AmountOf[j] = j.amount /\ j.amount \in Nat
  BY DEF AmountOf, Posting
<1>3. CASE selected
  <2>1. SumOf(AmountOf, D \cup {j}) = SumOf(AmountOf, D) + AmountOf[j]
    BY <1>1, <1>2, SumAdd
  <2>2. E = D \cup {j}
    BY <1>3
  <2>3. SumOf(AmountOf, E) = SumOf(AmountOf, D) + AmountOf[j]
    BY <2>1, <2>2, Zenon
  <2>. QED BY <1>2, <1>3, <2>3
<1>4. CASE ~selected
  <2>1. E = D
    BY <1>4
  <2>2. SumOf(AmountOf, E) = SumOf(AmountOf, D)
    BY <2>1, Zenon
  <2>. QED BY <1>1, <1>4, <2>2
<1>. QED BY <1>3, <1>4

\* The balance of an account after one more posting.
LEMMA LedgerAfterPost ==
  ASSUME NEW J, J \subseteq Posting, IsFiniteSet(J), NEW j \in Posting, j \notin J, NEW a
  PROVE /\ LedgerIn(J, a) \in Int
        /\ LedgerIn(J \cup {j}, a) = LedgerIn(J, a)
             + IF a = "custody"
               THEN (IF j.debit = a THEN j.amount ELSE 0) - (IF j.credit = a THEN j.amount ELSE 0)
               ELSE (IF j.credit = a THEN j.amount ELSE 0) - (IF j.debit = a THEN j.amount ELSE 0)
<1>1. /\ Debits(J, a) \in Int
      /\ Debits(J \cup {j}, a) = Debits(J, a) + IF j.debit = a THEN j.amount ELSE 0
  <2> DEFINE D == {i \in J : i.debit = a}
             E == {i \in J \cup {j} : i.debit = a}
  <2>1. D \subseteq Posting /\ IsFiniteSet(D) /\ j \notin D
    BY FS_Subset
  <2>2. E = IF j.debit = a THEN D \cup {j} ELSE D
    OBVIOUS
  <2>3. SumOf(AmountOf, E) = SumOf(AmountOf, D) + IF j.debit = a THEN j.amount ELSE 0
    <3>. HIDE DEF D, E
    <3>. QED BY <2>1, <2>2, SelectedAdd
  <2>4. SumOf(AmountOf, D) \in Int
    <3>. HIDE DEF D, E
    <3>. QED BY <2>1, PostingsSummable
  <2>. QED BY <2>3, <2>4 DEF Debits
<1>2. /\ Credits(J, a) \in Int
      /\ Credits(J \cup {j}, a) = Credits(J, a) + IF j.credit = a THEN j.amount ELSE 0
  <2> DEFINE D == {i \in J : i.credit = a}
             E == {i \in J \cup {j} : i.credit = a}
  <2>1. D \subseteq Posting /\ IsFiniteSet(D) /\ j \notin D
    BY FS_Subset
  <2>2. E = IF j.credit = a THEN D \cup {j} ELSE D
    OBVIOUS
  <2>3. SumOf(AmountOf, E) = SumOf(AmountOf, D) + IF j.credit = a THEN j.amount ELSE 0
    <3>. HIDE DEF D, E
    <3>. QED BY <2>1, <2>2, SelectedAdd
  <2>4. SumOf(AmountOf, D) \in Int
    <3>. HIDE DEF D, E
    <3>. QED BY <2>1, PostingsSummable
  <2>. QED BY <2>3, <2>4 DEF Credits
<1>3. j.amount \in Int
  BY DEF Posting
<1>. QED BY <1>1, <1>2, <1>3 DEF LedgerIn

-----------------------------------------------------------------------------
(* The inductive invariant *)

\* The transaction that Post posts.
Posted(type, m, debit, credit) ==
  [type |-> type, of |-> m, debit |-> debit, credit |-> credit, amount |-> Amount[m]]

\* The payouts in these statuses.
With(statuses) == {p \in Payouts : transfer[p].status \in statuses}
Begun == {t \in Transfers : transfer[t].status # "none"}
Unfinished == {"pending_review", "ready_for_broadcast", "confirming"}

\* The postings that the rows call for.
Books ==
  {Posted("deposit", d, "custody", "available") : d \in credited}
    \cup {Posted("payout_freeze", p, "available", "frozen") : p \in With(Statuses \ {"none"})}
    \cup {Posted("payout_unfreeze", p, "frozen", "available") : p \in With({"rejected"})}
    \cup {Posted("payout_failure_release", p, "frozen", "available") : p \in With({"failed"})}
    \cup {Posted("payout_settlement", p, "frozen", "custody") : p \in With({"succeeded"})}

\* What has happened is finite, whatever the constants are.
Finite == IsFiniteSet(credited) /\ IsFiniteSet(journal) /\ IsFiniteSet(Begun)

\* The journal holds them and no others, and a release is of its status.
BooksAgree ==
  /\ journal = Books
  /\ \A p \in Payouts :
       /\ transfer[p].status = "rejected" => transfer[p].release = "payout_unfreeze"
       /\ transfer[p].status = "failed" => transfer[p].release = "payout_failure_release"

\* So the balances are sums over rows.
SumsAgree ==
  /\ LedgerIn(journal, "custody")
       = SumOf(Amount, credited) - SumOf(Amount, With({"succeeded"}))
  /\ LedgerIn(journal, "frozen") = SumOf(Amount, With(Unfinished))

\* Rows that are tied to the chain and to the registered wallets.
ChainAgrees ==
  /\ \A t \in Transfers \cap Solid :
       t \in InFlight(Transfers) \/ transfer[t].status \in {"succeeded", "failed"}
  /\ \A s \in Sweeps : transfer[s].status # "none" => Source[s] \in active
  /\ \A d \in credited : Target[d] \in active

\* What these wallets hold at a height: inner transfers cancel.
Held(ws, h) ==
  SumOf(Amount, {m \in Upto(h) : Target[m] \in ws})
    - SumOf(Amount, {m \in Upto(h) : Source[m] \in ws})

\* What a capture has added up so far.
CaptureAgrees ==
  /\ capture.at # "idle" => Hot \in capture.wallets /\ capture.wallets \subseteq active
  /\ capture.at \in {"before", "head"} => capture.total = 0
  /\ capture.at \in {"balances", "after", "save"} => capture.height <= node
  /\ capture.at = "balances" =>
       /\ capture.left \subseteq capture.wallets
       /\ capture.height = node =>
            capture.total = Held(capture.wallets \ capture.left, capture.height)
  /\ capture.at \in {"after", "save"} =>
       capture.total = Held(capture.wallets, capture.height)

\* The saved snapshot.
LatestAgrees ==
  /\ latest.height <= Len(chain)
  /\ latest # NoSnapshot => IsFiniteSet(latest.credited) /\ IsFiniteSet(latest.settled)
  /\ SnapshotAddsUp

IInv == /\ TypeOK /\ Finite /\ BooksAgree /\ SumsAgree /\ ChainAgrees
        /\ CaptureAgrees /\ LatestAgrees

-----------------------------------------------------------------------------
(* Types *)

\* A height of the chain has finitely many movements, all solidified.
LEMMA UptoFinite ==
  ASSUME chain \in Seq(Movements), NEW h \in 0 .. Len(chain)
  PROVE IsFiniteSet(Upto(h)) /\ Upto(h) \subseteq Movements /\ Upto(h) \subseteq Solid
<1> DEFINE f == [i \in 1 .. h |-> chain[i]]
<1>1. \A i \in 1 .. h : chain[i] \in Movements /\ i \in 1 .. Len(chain)
  OBVIOUS
<1>2. f \in Surjection(1 .. h, Upto(h))
  BY DEF Surjection, Upto
<1>3. h \in Nat
  OBVIOUS
<1>4. IsFiniteSet(Upto(h))
  BY <1>2, <1>3, FS_NatSurjection DEF ExistsSurjection
<1>. QED BY <1>1, <1>4 DEF Upto, Solid

\* A new block changes nothing below it.
LEMMA UptoAppend ==
  ASSUME chain \in Seq(Movements), NEW m, chain' = Append(chain, m)
  PROVE /\ \A h \in 0 .. Len(chain) : Upto(h)' = Upto(h)
        /\ Solid' = Solid \cup {m}
        /\ Len(chain') = Len(chain) + 1
<1>1. /\ Len(chain') = Len(chain) + 1 /\ Len(chain) \in Nat
      /\ chain'[Len(chain) + 1] = m
      /\ \A i \in 1 .. Len(chain) : chain'[i] = chain[i]
  OBVIOUS
<1>2. \A h \in 0 .. Len(chain) : Upto(h)' = Upto(h)
  BY <1>1 DEF Upto
<1>3. Solid' = Solid \cup {m}
  <2>1. 1 .. Len(chain') = 1 .. Len(chain) \cup {Len(chain) + 1}
    BY <1>1
  <2>. QED BY <1>1, <2>1 DEF Upto, Solid
<1>. QED BY <1>1, <1>2, <1>3

\* What is in flight has begun.
LEMMA InFlightFinite ==
  ASSUME Finite, NEW ts, ts \subseteq Transfers
  PROVE InFlight(ts) \subseteq Begun /\ IsFiniteSet(InFlight(ts)) /\ InFlight(ts) \subseteq ts
<1>1. InFlight(ts) \subseteq Begun /\ InFlight(ts) \subseteq ts
  BY DEF InFlight, Begun
<1>. QED BY <1>1, FS_Subset DEF Finite

\* The checkpoint that the snapshot command reads is one of the ledger.
LEMMA CheckpointType ==
  ASSUME TypeOK, Finite
  PROVE Checkpoint \in LedgerCheckpoint
<1>1. /\ IsFiniteSet(InFlight(Payouts)) /\ IsFiniteSet(InFlight(Sweeps))
      /\ InFlight(Payouts) \subseteq Movements /\ InFlight(Sweeps) \subseteq Movements
  BY InFlightFinite DEF Transfers, Movements
<1>2. Sum(InFlight(Payouts)) \in Nat /\ Sum(InFlight(Sweeps)) \in Nat
  BY <1>1, MovementsSummable, SumIs
<1>3. Cardinality(InFlight(Payouts)) \in Nat /\ Cardinality(InFlight(Sweeps)) \in Nat
  BY <1>1, FS_CardinalityType
<1>4. Cardinality({j \in journal : "custody" \in {j.debit, j.credit}}) \in Nat
  BY FS_Subset, FS_CardinalityType DEF Finite
<1>5. Ledger("custody") \in Int
  <2>1. journal \subseteq Posting /\ IsFiniteSet(journal)
    BY DEF TypeOK, Finite
  <2>2. LedgerIn(journal, "custody") \in Int
    <3> DEFINE D == {j \in journal : j.debit = "custody"}
               C == {j \in journal : j.credit = "custody"}
    <3>1. D \subseteq Posting /\ C \subseteq Posting /\ IsFiniteSet(D) /\ IsFiniteSet(C)
      BY <2>1, FS_Subset
    <3>2. SumOf(AmountOf, D) \in Nat /\ SumOf(AmountOf, C) \in Nat
      <4>. HIDE DEF D, C
      <4>. QED BY <3>1, PostingsSummable
    <3>. QED BY <3>2 DEF LedgerIn, Debits, Credits
  <2>. QED BY <2>1, <2>2, LedgerIs
<1>. QED BY <1>2, <1>3, <1>4, <1>5 DEF Checkpoint, LedgerCheckpoint

\* The wallet whose balance is read next is one of those left.
LEMMA SomeLeast ==
  ASSUME NEW ws \in SUBSET Wallets, ws # {}
  PROVE Min(ws) \in ws
<1> DEFINE R == {ss \in Nat \X Nat : ss[1] < ss[2]}
<1>1. IsWellFoundedOn(R, Nat)
  BY NatLessThanWellFounded DEF OpToRel
<1>2. ws \subseteq Nat
  BY MovementsAssumption
<1>3. PICK w \in ws : \A v \in ws : ~(<<v, w>> \in R)
  <2>. HIDE DEF R
  <2>. QED BY <1>1, <1>2, WFMin
<1>4. \A v \in ws : w =< v
  <2>. TAKE v \in ws
  <2>1. v \in Nat /\ w \in Nat
    BY <1>2
  <2>2. v < w => <<v, w>> \in R
    BY <2>1
  <2>. QED BY <1>3, <2>1, <2>2
<1>. QED BY <1>4 DEF Min

\* A wallet has a balance at every height.
LEMMA BalanceType ==
  ASSUME chain \in Seq(Movements), NEW h \in 0 .. Len(chain), NEW w
  PROVE TokenBalance(w, h) \in Int
<1> DEFINE T == {m \in Upto(h) : Target[m] = w}
           S == {m \in Upto(h) : Source[m] = w}
<1>1. T \subseteq Movements /\ S \subseteq Movements /\ IsFiniteSet(T) /\ IsFiniteSet(S)
  BY UptoFinite, FS_Subset
<1>2. Sum(T) \in Nat /\ Sum(S) \in Nat
  <2>. HIDE DEF T, S
  <2>. QED BY <1>1, MovementsSummable, SumIs
<1>. QED BY <1>2 DEF TokenBalance

\* No capture is a capture.
LEMMA IdleType == Idle \in Capture
BY DEF Idle, Capture

\* The types hold at the start.
LEMMA TypeStart == Init => TypeOK
<1>. SUFFICES ASSUME Init PROVE TypeOK
  OBVIOUS
<1>1. chain \in Seq(Movements) /\ node \in 0 .. Len(chain)
  BY DEF Init
<1>2. NewRow \in Row
  BY DEF NewRow, Row, Statuses
<1>3. transfer \in [Transfers -> Row] /\ \A p \in Payouts : transfer[p] = NewRow
  BY <1>2 DEF Init, Transfers
<1>4. \A p \in Payouts :
        /\ transfer[p].freeze # None <=> transfer[p].status # "none"
        /\ transfer[p].release # None <=> transfer[p].status \in {"rejected", "failed"}
        /\ transfer[p].settlement # None <=> transfer[p].status = "succeeded"
  BY <1>3 DEF NewRow
<1>. QED BY <1>1, <1>3, <1>4, IdleType, MovementsAssumption DEF Init, TypeOK

SweepEnds(s) == \E outcome \in {"succeeded", "failed"} : FinishSweep(s, outcome)

References(row) ==
  /\ row.freeze # None <=> row.status # "none"
  /\ row.release # None <=> row.status \in {"rejected", "failed"}
  /\ row.settlement # None <=> row.status = "succeeded"

\* A row may be replaced by one whose references follow its status.
LEMMA RowsKeep ==
  ASSUME transfer \in [Transfers -> Row], \A p \in Payouts : References(transfer[p]),
         NEW t \in Transfers, NEW row \in Row, transfer' = [transfer EXCEPT ![t] = row],
         t \in Payouts => References(row)
  PROVE /\ transfer' \in [Transfers -> Row]
        /\ \A p \in Payouts : References(transfer'[p])
BY DEF Transfers

\* The operations on a payout leave such a row.
LEMMA RowAfter ==
  ASSUME TypeOK, NEW p \in Payouts,
         CreatePayout(p) \/ RejectPayout(p) \/ SettlePayout(p) \/ FailPayout(p)
  PROVE \E row \in Row : References(row) /\ transfer' = [transfer EXCEPT ![p] = row]
<1>1. transfer[p] \in Row /\ References(transfer[p])
  BY DEF TypeOK, Transfers, References
<1>2. CASE CreatePayout(p)
  <2> DEFINE row == [transfer[p] EXCEPT !.status = "pending_review", !.freeze = "payout_freeze"]
  <2>1. row \in Row /\ References(row)
    BY <1>1, <1>2, MovementsAssumption DEF CreatePayout, Row, Statuses, References
  <2>2. transfer' = [transfer EXCEPT ![p] = row]
    BY <1>2 DEF CreatePayout
  <2>. QED BY <2>1, <2>2
<1>3. CASE RejectPayout(p)
  <2> DEFINE row == [transfer[p] EXCEPT !.status = "rejected", !.release = "payout_unfreeze"]
  <2>1. row \in Row /\ References(row)
    BY <1>1, <1>3, MovementsAssumption DEF RejectPayout, Row, Statuses, References
  <2>2. transfer' = [transfer EXCEPT ![p] = row]
    BY <1>3 DEF RejectPayout
  <2>. QED BY <2>1, <2>2
<1>4. CASE SettlePayout(p)
  <2> DEFINE row == [transfer[p] EXCEPT !.status = "succeeded", !.settlement = "payout_settlement"]
  <2>1. row \in Row /\ References(row)
    BY <1>1, <1>4, MovementsAssumption DEF SettlePayout, Row, Statuses, References
  <2>2. transfer' = [transfer EXCEPT ![p] = row]
    BY <1>4 DEF SettlePayout
  <2>. QED BY <2>1, <2>2
<1>5. CASE FailPayout(p)
  <2> DEFINE row == [transfer[p] EXCEPT !.status = "failed", !.release = "payout_failure_release"]
  <2>1. row \in Row /\ References(row)
    BY <1>1, <1>5, MovementsAssumption DEF FailPayout, Row, Statuses, References
  <2>2. transfer' = [transfer EXCEPT ![p] = row]
    BY <1>5 DEF FailPayout
  <2>. QED BY <2>1, <2>2
<1>. QED BY <1>2, <1>3, <1>4, <1>5

\* So do the steps of the workers between them.
LEMMA WorkRowAfter ==
  ASSUME TypeOK, NEW t \in Transfers,
         BecomesReady(t) \/ ClaimBroadcast(t) \/ BeginConfirmation(t)
  PROVE \E row \in Row : /\ t \in Payouts => References(row)
                         /\ transfer' = [transfer EXCEPT ![t] = row]
<1>1. transfer[t] \in Row /\ (t \in Payouts => References(transfer[t]))
  BY DEF TypeOK, Transfers, References
<1>2. CASE BecomesReady(t)
  <2> DEFINE row == [transfer[t] EXCEPT !.status = "ready_for_broadcast"]
  <2>1. row \in Row /\ (t \in Payouts => References(row))
    BY <1>1, <1>2 DEF BecomesReady, Row, Statuses, References
  <2>2. transfer' = [transfer EXCEPT ![t] = row]
    BY <1>2 DEF BecomesReady
  <2>. QED BY <2>1, <2>2
<1>3. CASE ClaimBroadcast(t)
  <2> DEFINE row == [transfer[t] EXCEPT !.tried = TRUE]
  <2>1. row \in Row /\ (t \in Payouts => References(row))
    BY <1>1, <1>3 DEF ClaimBroadcast, Row, Statuses, References
  <2>2. transfer' = [transfer EXCEPT ![t] = row]
    BY <1>3 DEF ClaimBroadcast
  <2>. QED BY <2>1, <2>2
<1>4. CASE BeginConfirmation(t)
  <2> DEFINE row == [transfer[t] EXCEPT !.status = "confirming"]
  <2>1. row \in Row /\ (t \in Payouts => References(row))
    BY <1>1, <1>4 DEF BeginConfirmation, Row, Statuses, References
  <2>2. transfer' = [transfer EXCEPT ![t] = row]
    BY <1>4 DEF BeginConfirmation
  <2>. QED BY <2>1, <2>2
<1>. QED BY <1>2, <1>3, <1>4

\* The types are kept, action by action.
LEMMA TypeKeeps ==
  ASSUME TypeOK, Finite, [Next]_vars
  PROVE TypeOK'
<1>0. /\ transfer \in [Transfers -> Row]
      /\ \A p \in Payouts : References(transfer[p])
  BY DEF TypeOK, References
<1>1. ASSUME NEW m \in Movements, Solidify(m)
      PROVE TypeOK'
  <2>1. chain' \in Seq(Movements) /\ Len(chain') = Len(chain) + 1 /\ Len(chain) \in Nat
    BY <1>1 DEF Solidify, TypeOK
  <2>. QED BY <1>1, <2>1 DEF Solidify, TypeOK, control
<1>2. ASSUME NEW d \in Deposits, CreditDeposit(d)
      PROVE TypeOK'
  <2>1. journal' \subseteq Posting
    BY <1>2, MovementsAssumption DEF CreditDeposit, Post, TypeOK, Posting, Accounts, Movements
  <2>. QED BY <1>2, <2>1 DEF CreditDeposit, TypeOK, control
<1>3. ASSUME NEW p \in Payouts,
             CreatePayout(p) \/ RejectPayout(p) \/ SettlePayout(p) \/ FailPayout(p)
      PROVE TypeOK'
  <2>1. journal' \subseteq Posting
    BY <1>3, MovementsAssumption DEF CreatePayout, RejectPayout, SettlePayout, FailPayout,
      Post, TypeOK, Posting, Accounts, Movements, Transfers
  <2>2. /\ transfer' \in [Transfers -> Row]
        /\ \A q \in Payouts : References(transfer'[q])
    <3>1. PICK row \in Row : References(row) /\ transfer' = [transfer EXCEPT ![p] = row]
      BY <1>3, RowAfter
    <3>. QED BY <1>0, <3>1, RowsKeep DEF Transfers
  <2>3. UNCHANGED <<chain, node, active, control>> /\ UNCHANGED credited
    BY <1>3 DEF CreatePayout, RejectPayout, SettlePayout, FailPayout
  <2>. QED BY <2>1, <2>2, <2>3 DEF TypeOK, control, References
<1>4. ASSUME NEW t \in Transfers, BecomesReady(t) \/ ClaimBroadcast(t) \/ BeginConfirmation(t)
      PROVE TypeOK'
  <2>1. /\ transfer' \in [Transfers -> Row]
        /\ \A q \in Payouts : References(transfer'[q])
    <3>1. PICK row \in Row : /\ t \in Payouts => References(row)
                             /\ transfer' = [transfer EXCEPT ![t] = row]
      BY <1>4, WorkRowAfter
    <3>. QED BY <1>0, <3>1, RowsKeep
  <2>2. UNCHANGED <<chain, node, active, control>> /\ UNCHANGED <<credited, journal>>
    BY <1>4 DEF BecomesReady, ClaimBroadcast, BeginConfirmation
  <2>. QED BY <2>1, <2>2 DEF TypeOK, control, References
<1>5. ASSUME NEW s \in Sweeps, SweepEnds(s)
      PROVE TypeOK'
  <2>1. s \notin Payouts
    BY MovementsAssumption
  <2>2. transfer' \in [Transfers -> Row] /\ \A q \in Payouts : transfer'[q] = transfer[q]
    BY <1>5, <2>1 DEF SweepEnds, FinishSweep, TypeOK, Transfers, Row, Statuses
  <2>. QED BY <1>5, <2>2 DEF SweepEnds, FinishSweep, TypeOK, control
<1>6. ASSUME NEW w \in Wallets, Register(w)
      PROVE TypeOK'
  BY <1>6 DEF Register, TypeOK, money, control
<1>7. CASE NodeCatchesUp
  BY <1>7 DEF NodeCatchesUp, TypeOK, money, control
<1>e. CASE EmptyBlock
  <2>1. capture' \in Capture
    BY <1>e DEF EmptyBlock, CaptureStep, Capture, TypeOK
  <2>. QED BY <1>e, <2>1 DEF EmptyBlock, CaptureStep, TypeOK, money
<1>8. CASE SnapshotStep
  <2>1. CASE ActiveWallets
    <3>1. capture' \in Capture
      <4>1. active \in SUBSET Wallets
        BY DEF TypeOK
      <4>2. [Idle EXCEPT !.at = "before", !.wallets = active] \in Capture
        BY <4>1, IdleType DEF Capture
      <4>. QED BY <2>1, <4>2 DEF ActiveWallets, CaptureStep
    <3>. QED BY <2>1, <3>1 DEF ActiveWallets, CaptureStep, TypeOK, money
  <2>2. CASE ReadBefore
    <3>1. capture' \in Capture
      BY <2>2, CheckpointType DEF ReadBefore, CaptureStep, Capture, TypeOK
    <3>. QED BY <2>2, <3>1 DEF ReadBefore, CaptureStep, TypeOK, money
  <2>3. CASE ReadHead
    <3>1. node \in Nat
      BY DEF TypeOK
    <3>2. capture' \in Capture
      BY <2>3, <3>1 DEF ReadHead, CaptureStep, Capture, TypeOK
    <3>. QED BY <2>3, <3>2 DEF ReadHead, CaptureStep, TypeOK, money
  <2>4. CASE ReadBalance
    <3> DEFINE rest == capture.left \ {Min(capture.left)}
               sum == capture.total + BalanceOf(Min(capture.left))
    <3>1. capture \in Capture
      BY DEF TypeOK
    <3>2. capture' = [capture EXCEPT !.left = rest, !.total = sum]
      BY <2>4 DEF ReadBalance, CaptureStep
    <3>3. rest \in SUBSET Wallets /\ sum \in Int
      BY <3>1, BalanceType DEF BalanceOf, TypeOK, Capture
    <3>4. capture' \in Capture
      <4>. HIDE DEF rest, sum
      <4>. QED BY <3>1, <3>2, <3>3 DEF Capture
    <3>. QED BY <2>4, <3>4 DEF ReadBalance, CaptureStep, TypeOK, money
  <2>5. CASE ReadEnd
    BY <2>5 DEF ReadEnd, CaptureStep, Capture, TypeOK, money
  <2>6. CASE ReadAfter
    BY <2>6 DEF ReadAfter, CaptureStep, Capture, TypeOK, money
  <2>7. CASE SaveSnapshot
    <3>1. latest' \in {NoSnapshot} \cup Snapshot
      BY <2>7, CheckpointType DEF SaveSnapshot, Capture, Snapshot, TypeOK
    <3>. QED BY <2>7, <3>1, IdleType DEF SaveSnapshot, TypeOK, money
  <2>8. CASE Refuse
    BY <2>8, IdleType DEF Refuse, TypeOK, money
  <2>. QED BY <1>8, <2>1, <2>2, <2>3, <2>4, <2>5, <2>6, <2>7, <2>8 DEF SnapshotStep
<1>9. CASE CaptureFails
  BY <1>9, IdleType DEF CaptureFails, TypeOK, money
<1>10. CASE BeginRun \/ CommitRun \/ ResolveCase
  BY <1>10 DEF BeginRun, CommitRun, ResolveCase, TypeOK, money
<1>11. CASE UNCHANGED vars
  BY <1>11 DEF vars, TypeOK
<1>. QED
  BY <1>1, <1>2, <1>3, <1>4, <1>5, <1>6, <1>7, <1>e, <1>8, <1>9, <1>10, <1>11
  DEF Next, MoneyStep, SweepEnds

-----------------------------------------------------------------------------
(* The books *)

books == <<transfer, credited, journal>>
PayoutStep(p) == CreatePayout(p) \/ RejectPayout(p) \/ SettlePayout(p) \/ FailPayout(p)
WorkStep(t) == BecomesReady(t) \/ ClaimBroadcast(t) \/ BeginConfirmation(t)

\* The steps that may touch the rows and the journal.
LEMMA BookSteps ==
  ASSUME [Next]_vars
  PROVE \/ \E d \in Deposits : CreditDeposit(d)
        \/ \E p \in Payouts : PayoutStep(p)
        \/ \E t \in Transfers : WorkStep(t)
        \/ \E s \in Sweeps : SweepEnds(s)
        \/ UNCHANGED books
<1>1. CASE MoneyStep
  BY <1>1 DEF MoneyStep, PayoutStep, WorkStep, SweepEnds, Solidify, Register, books, money
<1>2. CASE NodeCatchesUp \/ EmptyBlock \/ SnapshotStep \/ CaptureFails
  BY <1>2 DEF NodeCatchesUp, EmptyBlock, SnapshotStep, CaptureFails, ActiveWallets, ReadBefore, ReadHead,
    ReadBalance, ReadEnd, ReadAfter, CaptureStep, SaveSnapshot, Refuse, books, money
<1>3. CASE BeginRun \/ CommitRun \/ ResolveCase
  BY <1>3 DEF BeginRun, CommitRun, ResolveCase, books, money
<1>4. CASE UNCHANGED vars
  BY <1>4 DEF vars, books
<1>. QED BY <1>1, <1>2, <1>3, <1>4 DEF Next

\* Nothing has happened at the start.
LEMMA FiniteStart == Init => Finite
<1>. SUFFICES ASSUME Init PROVE Finite
  OBVIOUS
<1>1. Begun = {}
  BY DEF Init, NewRow, Begun
<1>. QED BY <1>1, FS_EmptySet DEF Init, Finite

\* A step adds at most one deposit, one posting and one transfer.
LEMMA FiniteKeeps ==
  ASSUME TypeOK, Finite, [Next]_vars
  PROVE Finite'
<1>1. ASSUME NEW d \in Deposits, CreditDeposit(d)
      PROVE Finite'
  <2>1. IsFiniteSet(credited')
    BY <1>1, FS_AddElement DEF CreditDeposit, Finite
  <2>2. IsFiniteSet(journal')
    BY <1>1, FS_AddElement DEF CreditDeposit, Post, Finite
  <2>3. Begun' = Begun
    BY <1>1 DEF CreditDeposit, Begun
  <2>. QED BY <2>1, <2>2, <2>3 DEF Finite
<1>2. ASSUME NEW t \in Transfers, NEW row, transfer' = [transfer EXCEPT ![t] = row]
      PROVE IsFiniteSet(Begun')
  <2>1. Begun' \subseteq Begun \cup {t}
    BY <1>2 DEF Begun, TypeOK
  <2>. QED BY <2>1, FS_AddElement, FS_Subset DEF Finite
<1>3. ASSUME NEW p \in Payouts, PayoutStep(p)
      PROVE Finite'
  <2>1. PICK row \in Row : transfer' = [transfer EXCEPT ![p] = row]
    BY <1>3, RowAfter DEF PayoutStep
  <2>2. IsFiniteSet(Begun')
    BY <1>2, <2>1 DEF Transfers
  <2>3. credited' = credited
    BY <1>3 DEF PayoutStep, CreatePayout, RejectPayout, SettlePayout, FailPayout
  <2>4. \E j : journal' = journal \cup {j}
    BY <1>3 DEF PayoutStep, CreatePayout, RejectPayout, SettlePayout, FailPayout, Post
  <2>5. IsFiniteSet(journal')
    BY <2>4, FS_AddElement DEF Finite
  <2>. QED BY <2>2, <2>3, <2>5 DEF Finite
<1>4. ASSUME NEW t \in Transfers, WorkStep(t)
      PROVE Finite'
  <2>1. PICK row \in Row : transfer' = [transfer EXCEPT ![t] = row]
    BY <1>4, WorkRowAfter DEF WorkStep
  <2>2. UNCHANGED <<credited, journal>>
    BY <1>4 DEF WorkStep, BecomesReady, ClaimBroadcast, BeginConfirmation
  <2>. QED BY <1>2, <2>1, <2>2 DEF Finite
<1>5. ASSUME NEW s \in Sweeps, SweepEnds(s)
      PROVE Finite'
  <2>1. \E row : transfer' = [transfer EXCEPT ![s] = row]
    BY <1>5 DEF SweepEnds, FinishSweep
  <2>2. UNCHANGED <<credited, journal>>
    BY <1>5 DEF SweepEnds, FinishSweep
  <2>. QED BY <1>2, <2>1, <2>2 DEF Finite, Transfers
<1>6. CASE UNCHANGED books
  BY <1>6 DEF books, Finite, Begun
<1>. QED BY <1>1, <1>3, <1>4, <1>5, <1>6, BookSteps

\* The sets of payouts after one of them has changed its row.
LEMMA WithAfter ==
  ASSUME transfer \in [Transfers -> Row], NEW t \in Transfers, NEW row \in Row,
         transfer' = [transfer EXCEPT ![t] = row], NEW statuses
  PROVE With(statuses)' =
          IF t \in Payouts
          THEN IF row.status \in statuses THEN With(statuses) \cup {t}
                                          ELSE With(statuses) \ {t}
          ELSE With(statuses)
BY DEF With, Transfers

\* Finitely many payouts have begun, so their amounts have a total.
LEMMA WithFinite ==
  ASSUME Finite, NEW statuses, "none" \notin statuses
  PROVE /\ IsFiniteSet(With(statuses)) /\ With(statuses) \subseteq Movements
        /\ Summable(Amount, With(statuses)) /\ SumOf(Amount, With(statuses)) \in Nat
<1>1. With(statuses) \subseteq Begun /\ With(statuses) \subseteq Movements
  BY DEF With, Begun, Transfers, Movements
<1>2. IsFiniteSet(With(statuses))
  BY <1>1, FS_Subset DEF Finite
<1>. QED BY <1>1, <1>2, MovementsSummable

\* At the start there is nothing to post.
LEMMA BooksStart == Init => BooksAgree /\ SumsAgree
<1>. SUFFICES ASSUME Init PROVE BooksAgree /\ SumsAgree
  OBVIOUS
<1>1. \A S : "none" \notin S => With(S) = {}
  BY DEF Init, NewRow, With, Transfers
<1>2. journal = {} /\ credited = {}
  BY DEF Init
<1>3. With(Statuses \ {"none"}) = {} /\ With({"rejected"}) = {} /\ With({"failed"}) = {}
      /\ With({"succeeded"}) = {} /\ With(Unfinished) = {}
  BY <1>1 DEF Unfinished
<1>4. Books = {}
  BY <1>2, <1>3 DEF Books
<1>5. BooksAgree
  BY <1>2, <1>4 DEF Init, NewRow, BooksAgree, Transfers
<1>6. \A a : {j \in journal : j.debit = a} = {} /\ {j \in journal : j.credit = a} = {}
  BY <1>2
<1>7. SumOf(AmountOf, {}) = 0 /\ SumOf(Amount, {}) = 0
  BY SumEmpty
<1>8. SumOf(Amount, credited) = 0 /\ SumOf(Amount, With({"succeeded"})) = 0
      /\ SumOf(Amount, With(Unfinished)) = 0
  BY <1>2, <1>3, <1>7, Zenon
<1>9. \A a : Debits(journal, a) = 0 /\ Credits(journal, a) = 0
  BY <1>6, <1>7, Zenon DEF Debits, Credits
<1>10. SumsAgree
  BY <1>8, <1>9 DEF SumsAgree, LedgerIn
<1>. QED BY <1>5, <1>10

\* Payouts that were created.
Known == Statuses \ {"none"}

\* What each operation on a payout does to its status and posts.
LEMMA PayoutStepIs ==
  ASSUME TypeOK, NEW p \in Payouts, PayoutStep(p)
  PROVE \E row \in Row :
          /\ transfer' = [transfer EXCEPT ![p] = row]
          /\ credited' = credited
          /\ \/ /\ transfer[p].status = "none" /\ row.status = "pending_review"
                /\ journal' = journal \cup {Posted("payout_freeze", p, "available", "frozen")}
             \/ /\ transfer[p].status = "pending_review" /\ row.status = "rejected"
                /\ row.release = "payout_unfreeze"
                /\ journal' = journal \cup {Posted("payout_unfreeze", p, "frozen", "available")}
             \/ /\ transfer[p].status = "confirming" /\ row.status = "failed"
                /\ row.release = "payout_failure_release"
                /\ journal' = journal \cup {Posted("payout_failure_release", p, "frozen", "available")}
             \/ /\ transfer[p].status = "confirming" /\ row.status = "succeeded"
                /\ journal' = journal \cup {Posted("payout_settlement", p, "frozen", "custody")}
<1>0. transfer[p] \in Row
  BY DEF TypeOK, Transfers
<1>1. PICK row \in Row : transfer' = [transfer EXCEPT ![p] = row]
  BY RowAfter DEF PayoutStep
<1>2. transfer'[p] = row
  BY <1>1 DEF TypeOK, Transfers
<1>3. CASE CreatePayout(p)
  <2>1. row.status = "pending_review"
    BY <1>0, <1>2, <1>3 DEF CreatePayout, TypeOK, Transfers, Row
  <2>. QED BY <1>1, <1>3, <2>1 DEF CreatePayout, Post, Posted
<1>4. CASE RejectPayout(p)
  <2>1. row.status = "rejected" /\ row.release = "payout_unfreeze"
    BY <1>0, <1>2, <1>4 DEF RejectPayout, TypeOK, Transfers, Row
  <2>. QED BY <1>1, <1>4, <2>1 DEF RejectPayout, Post, Posted
<1>5. CASE SettlePayout(p)
  <2>1. row.status = "succeeded"
    BY <1>0, <1>2, <1>5 DEF SettlePayout, TypeOK, Transfers, Row
  <2>. QED BY <1>1, <1>5, <2>1 DEF SettlePayout, Post, Posted
<1>6. CASE FailPayout(p)
  <2>1. row.status = "failed" /\ row.release = "payout_failure_release"
    BY <1>0, <1>2, <1>6 DEF FailPayout, TypeOK, Transfers, Row
  <2>. QED BY <1>1, <1>6, <2>1 DEF FailPayout, Post, Posted
<1>. QED BY <1>3, <1>4, <1>5, <1>6 DEF PayoutStep

\* The operations between them leave every set that the books speak of alone.
LEMMA WorkStepIs ==
  ASSUME TypeOK, NEW t \in Transfers, WorkStep(t)
  PROVE /\ UNCHANGED <<credited, journal>>
        /\ \A S \in {Known, {"rejected"}, {"failed"}, {"succeeded"}, Unfinished} :
             With(S)' = With(S)
        /\ \A p \in Payouts : transfer'[p].release = transfer[p].release
<1>0. transfer[t] \in Row /\ transfer \in [Transfers -> Row]
  BY DEF TypeOK
<1>1. PICK row \in Row : transfer' = [transfer EXCEPT ![t] = row]
  BY WorkRowAfter DEF WorkStep
<1>2. /\ transfer'[t] = row /\ transfer'[t].release = transfer[t].release
      /\ t \in Payouts => transfer[t].status \in Unfinished /\ row.status \in Unfinished
  BY <1>0, <1>1 DEF WorkStep, BecomesReady, ClaimBroadcast, BeginConfirmation, Unfinished, Row
<1>3. UNCHANGED <<credited, journal>>
  BY DEF WorkStep, BecomesReady, ClaimBroadcast, BeginConfirmation
<1>4. \A S \in {Known, {"rejected"}, {"failed"}, {"succeeded"}, Unfinished} :
        With(S)' = With(S)
  <2>. TAKE S \in {Known, {"rejected"}, {"failed"}, {"succeeded"}, Unfinished}
  <2>1. t \in Payouts => (transfer[t].status \in S <=> row.status \in S)
    BY <1>2 DEF Known, Unfinished, Statuses
  <2>. QED BY <1>0, <1>1, <2>1 DEF With, Transfers
<1>5. \A p \in Payouts : transfer'[p].release = transfer[p].release
  BY <1>0, <1>1, <1>2 DEF Transfers
<1>. QED BY <1>3, <1>4, <1>5

\* Nor does the end of a sweep touch them.
LEMMA FinishIs ==
  ASSUME TypeOK, NEW s \in Sweeps, SweepEnds(s)
  PROVE /\ UNCHANGED <<credited, journal>>
        /\ \A S : With(S)' = With(S)
        /\ \A p \in Payouts : transfer'[p] = transfer[p]
<1>1. s \notin Payouts
  BY MovementsAssumption
<1>. QED BY <1>1 DEF SweepEnds, FinishSweep, With, TypeOK, Transfers

\* Every step posts what its rows call for, and nothing else.
LEMMA BooksKeep ==
  ASSUME TypeOK, BooksAgree, [Next]_vars
  PROVE BooksAgree'
<1>0. transfer \in [Transfers -> Row] /\ journal = Books
  BY DEF TypeOK, BooksAgree
<1>1. ASSUME NEW d \in Deposits, CreditDeposit(d)
      PROVE BooksAgree'
  <2>1. /\ journal' = journal \cup {Posted("deposit", d, "custody", "available")}
        /\ credited' = credited \cup {d} /\ transfer' = transfer
    BY <1>1 DEF CreditDeposit, Post, Posted
  <2>2. \A S : With(S)' = With(S)
    BY <2>1 DEF With
  <2>3. journal' = Books'
    BY <1>0, <2>1, <2>2 DEF Books
  <2>. QED BY <2>1, <2>3 DEF BooksAgree
<1>2. ASSUME NEW p \in Payouts, PayoutStep(p)
      PROVE BooksAgree'
  <2>1. PICK row \in Row :
          /\ transfer' = [transfer EXCEPT ![p] = row]
          /\ credited' = credited
          /\ \/ /\ transfer[p].status = "none" /\ row.status = "pending_review"
                /\ journal' = journal \cup {Posted("payout_freeze", p, "available", "frozen")}
             \/ /\ transfer[p].status = "pending_review" /\ row.status = "rejected"
                /\ row.release = "payout_unfreeze"
                /\ journal' = journal \cup {Posted("payout_unfreeze", p, "frozen", "available")}
             \/ /\ transfer[p].status = "confirming" /\ row.status = "failed"
                /\ row.release = "payout_failure_release"
                /\ journal' = journal \cup {Posted("payout_failure_release", p, "frozen", "available")}
             \/ /\ transfer[p].status = "confirming" /\ row.status = "succeeded"
                /\ journal' = journal \cup {Posted("payout_settlement", p, "frozen", "custody")}
    BY <1>2, PayoutStepIs
  <2>2. /\ p \in Transfers
        /\ \A q \in Payouts : q # p => transfer'[q] = transfer[q]
        /\ transfer'[p] = row
    BY <1>0, <2>1 DEF Transfers
  <2>3. ASSUME NEW S
        PROVE /\ row.status \in S => With(S)' = With(S) \cup {p}
              /\ row.status \notin S /\ transfer[p].status \notin S => With(S)' = With(S)
    BY <2>2 DEF With
  <2>4. journal' = Books'
    <3>1. CASE /\ transfer[p].status = "none" /\ row.status = "pending_review"
               /\ journal' = journal \cup {Posted("payout_freeze", p, "available", "frozen")}
      <4>1. /\ With(Statuses \ {"none"})' = With(Statuses \ {"none"}) \cup {p}
            /\ With({"rejected"})' = With({"rejected"})
            /\ With({"failed"})' = With({"failed"})
            /\ With({"succeeded"})' = With({"succeeded"})
        BY <2>3, <3>1 DEF Statuses
      <4>. QED BY <1>0, <2>1, <3>1, <4>1 DEF Books
    <3>2. CASE /\ transfer[p].status = "pending_review" /\ row.status = "rejected"
               /\ journal' = journal \cup {Posted("payout_unfreeze", p, "frozen", "available")}
      <4>1. /\ With(Statuses \ {"none"})' = With(Statuses \ {"none"})
            /\ With({"rejected"})' = With({"rejected"}) \cup {p}
            /\ With({"failed"})' = With({"failed"})
            /\ With({"succeeded"})' = With({"succeeded"})
        BY <2>2, <2>3, <3>2 DEF Statuses, With
      <4>. QED BY <1>0, <2>1, <3>2, <4>1 DEF Books
    <3>3. CASE /\ transfer[p].status = "confirming" /\ row.status = "failed"
               /\ journal' = journal \cup {Posted("payout_failure_release", p, "frozen", "available")}
      <4>1. /\ With(Statuses \ {"none"})' = With(Statuses \ {"none"})
            /\ With({"rejected"})' = With({"rejected"})
            /\ With({"failed"})' = With({"failed"}) \cup {p}
            /\ With({"succeeded"})' = With({"succeeded"})
        BY <2>2, <2>3, <3>3 DEF Statuses, With
      <4>. QED BY <1>0, <2>1, <3>3, <4>1 DEF Books
    <3>4. CASE /\ transfer[p].status = "confirming" /\ row.status = "succeeded"
               /\ journal' = journal \cup {Posted("payout_settlement", p, "frozen", "custody")}
      <4>1. /\ With(Statuses \ {"none"})' = With(Statuses \ {"none"})
            /\ With({"rejected"})' = With({"rejected"})
            /\ With({"failed"})' = With({"failed"})
            /\ With({"succeeded"})' = With({"succeeded"}) \cup {p}
        BY <2>2, <2>3, <3>4 DEF Statuses, With
      <4>. QED BY <1>0, <2>1, <3>4, <4>1 DEF Books
    <3>. QED BY <2>1, <3>1, <3>2, <3>3, <3>4
  <2>. QED BY <2>1, <2>2, <2>4 DEF BooksAgree
<1>3. ASSUME NEW t \in Transfers, WorkStep(t)
      PROVE BooksAgree'
  <2>1. Books' = Books
    BY <1>3, WorkStepIs DEF Books, Known
  <2>2. With({"rejected"})' = With({"rejected"}) /\ With({"failed"})' = With({"failed"})
    BY <1>3, WorkStepIs
  <2>. QED BY <1>3, <2>1, <2>2, WorkStepIs DEF BooksAgree, With
<1>4. ASSUME NEW s \in Sweeps, SweepEnds(s)
      PROVE BooksAgree'
  <2>1. Books' = Books
    BY <1>4, FinishIs DEF Books
  <2>. QED BY <1>4, <2>1, FinishIs DEF BooksAgree
<1>5. CASE UNCHANGED books
  BY <1>5 DEF books, BooksAgree, Books, With
<1>. QED BY <1>1, <1>2, <1>3, <1>4, <1>5, BookSteps

\* A posting and its fields.
LEMMA PostedType ==
  ASSUME NEW m \in Movements,
         NEW type \in {"deposit", "payout_freeze", "payout_unfreeze",
                       "payout_failure_release", "payout_settlement"},
         NEW debit \in Accounts, NEW credit \in Accounts
  PROVE /\ Posted(type, m, debit, credit) \in Posting
        /\ Posted(type, m, debit, credit).debit = debit
        /\ Posted(type, m, debit, credit).credit = credit
        /\ Posted(type, m, debit, credit).amount = Amount[m]
        /\ Amount[m] \in Nat
BY MovementsAssumption DEF Posted, Posting

\* A set of payouts that one joins or leaves.
LEMMA JoinSum ==
  ASSUME Finite, NEW S, "none" \notin S, NEW p \in Payouts, p \notin With(S)
  PROVE SumOf(Amount, With(S) \cup {p}) = SumOf(Amount, With(S)) + Amount[p]
<1>1. Amount[p] \in Int
  BY MovementsAssumption DEF Movements, Transfers
<1>. QED BY <1>1, WithFinite, SumAdd

\* A payout that leaves a set takes its amount along.
LEMMA LeaveSum ==
  ASSUME Finite, NEW S, "none" \notin S, NEW p \in With(S)
  PROVE SumOf(Amount, With(S)) = Amount[p] + SumOf(Amount, With(S) \ {p})
BY WithFinite, SumRemove

\* The balances follow the rows, posting by posting.
LEMMA SumsKeep ==
  ASSUME TypeOK, Finite, BooksAgree, SumsAgree, [Next]_vars
  PROVE SumsAgree'
<1>0. /\ transfer \in [Transfers -> Row] /\ journal = Books
      /\ journal \subseteq Posting /\ IsFiniteSet(journal)
      /\ credited \subseteq Deposits /\ IsFiniteSet(credited)
  BY DEF TypeOK, BooksAgree, Finite
<1> DEFINE custody == LedgerIn(journal, "custody")
           frozen == LedgerIn(journal, "frozen")
           in == SumOf(Amount, credited)
           out == SumOf(Amount, With({"succeeded"}))
           held == SumOf(Amount, With(Unfinished))
<1>1. custody = in - out /\ frozen = held
  BY DEF SumsAgree
<1>2. in \in Int /\ out \in Int /\ held \in Int
  <2>1. in \in Nat
    BY <1>0, MovementsSummable DEF Movements
  <2>2. out \in Nat /\ held \in Nat
    BY WithFinite DEF Unfinished
  <2>. QED BY <2>1, <2>2
<1>3. ASSUME NEW d \in Deposits, CreditDeposit(d)
      PROVE SumsAgree'
  <2> DEFINE j == Posted("deposit", d, "custody", "available")
  <2>1. /\ journal' = journal \cup {j}
        /\ credited' = credited \cup {d} /\ d \notin credited /\ transfer' = transfer
    BY <1>3 DEF CreditDeposit, Post, Posted
  <2>2. j \notin journal
    BY <1>0, <2>1 DEF Books, Posted
  <2>3. /\ j \in Posting /\ j.debit = "custody" /\ j.credit = "available"
        /\ j.amount = Amount[d] /\ Amount[d] \in Int
    BY PostedType DEF Movements, Accounts
  <2>4. /\ LedgerIn(journal', "custody") = custody + Amount[d]
        /\ LedgerIn(journal', "frozen") = frozen
    <3>. HIDE DEF j
    <3>. QED BY <1>0, <2>1, <2>2, <2>3, LedgerAfterPost
  <2>5. SumOf(Amount, credited') = in + Amount[d]
    <3>1. Summable(Amount, credited)
      BY <1>0, MovementsSummable DEF Movements
    <3>. QED BY <2>1, <2>3, <3>1, SumAdd
  <2>6. With({"succeeded"})' = With({"succeeded"}) /\ With(Unfinished)' = With(Unfinished)
    BY <2>1 DEF With
  <2>7. SumOf(Amount, With({"succeeded"}))' = out /\ SumOf(Amount, With(Unfinished))' = held
    BY <2>6, Zenon
  <2>. HIDE DEF custody, frozen, in, out, held, j
  <2>. QED BY <1>1, <1>2, <2>3, <2>4, <2>5, <2>7 DEF SumsAgree
<1>4. ASSUME NEW p \in Payouts, PayoutStep(p)
      PROVE SumsAgree'
  <2>1. PICK row \in Row :
          /\ transfer' = [transfer EXCEPT ![p] = row]
          /\ credited' = credited
          /\ \/ /\ transfer[p].status = "none" /\ row.status = "pending_review"
                /\ journal' = journal \cup {Posted("payout_freeze", p, "available", "frozen")}
             \/ /\ transfer[p].status = "pending_review" /\ row.status = "rejected"
                /\ row.release = "payout_unfreeze"
                /\ journal' = journal \cup {Posted("payout_unfreeze", p, "frozen", "available")}
             \/ /\ transfer[p].status = "confirming" /\ row.status = "failed"
                /\ row.release = "payout_failure_release"
                /\ journal' = journal \cup {Posted("payout_failure_release", p, "frozen", "available")}
             \/ /\ transfer[p].status = "confirming" /\ row.status = "succeeded"
                /\ journal' = journal \cup {Posted("payout_settlement", p, "frozen", "custody")}
    BY <1>4, PayoutStepIs
  <2>2. /\ p \in Transfers
        /\ \A q \in Payouts : q # p => transfer'[q] = transfer[q]
        /\ transfer'[p] = row
    BY <1>0, <2>1 DEF Transfers
  <2>3. SumOf(Amount, credited') = in
    BY <2>1
  <2>4. CASE /\ transfer[p].status = "none" /\ row.status = "pending_review"
             /\ journal' = journal \cup {Posted("payout_freeze", p, "available", "frozen")}
    <3> DEFINE j == Posted("payout_freeze", p, "available", "frozen")
    <3>0. journal' = journal \cup {j}
      BY <2>4
    <3>1. j \notin journal
      BY <1>0, <2>4 DEF Books, Posted, With, Statuses
    <3>2. /\ j \in Posting /\ j.debit = "available" /\ j.credit = "frozen"
          /\ j.amount = Amount[p] /\ Amount[p] \in Int
      BY PostedType DEF Movements, Transfers, Accounts
    <3>3. /\ LedgerIn(journal', "custody") = custody
          /\ LedgerIn(journal', "frozen") = frozen + Amount[p]
      <4>. HIDE DEF j
      <4>. QED BY <1>0, <3>0, <3>1, <3>2, LedgerAfterPost
    <3>4. /\ p \notin With(Unfinished)
          /\ With(Unfinished)' = With(Unfinished) \cup {p}
          /\ With({"succeeded"})' = With({"succeeded"})
      BY <2>2, <2>4 DEF With, Unfinished
    <3>5. SumOf(Amount, With(Unfinished) \cup {p}) = held + Amount[p]
      BY <3>4, JoinSum DEF Unfinished
    <3>6. /\ SumOf(Amount, With(Unfinished))' = held + Amount[p]
          /\ SumOf(Amount, With({"succeeded"}))' = out
      BY <3>4, <3>5, Zenon
    <3>. HIDE DEF custody, frozen, in, out, held, j
    <3>. QED BY <1>1, <1>2, <2>3, <3>2, <3>3, <3>6 DEF SumsAgree
  <2>5. CASE /\ transfer[p].status = "pending_review" /\ row.status = "rejected"
             /\ journal' = journal \cup {Posted("payout_unfreeze", p, "frozen", "available")}
    <3> DEFINE j == Posted("payout_unfreeze", p, "frozen", "available")
    <3>0. journal' = journal \cup {j}
      BY <2>5
    <3>1. j \notin journal
      BY <1>0, <2>5 DEF Books, Posted, With, Statuses
    <3>2. /\ j \in Posting /\ j.debit = "frozen" /\ j.credit = "available"
          /\ j.amount = Amount[p] /\ Amount[p] \in Int
      BY PostedType DEF Movements, Transfers, Accounts
    <3>3. /\ LedgerIn(journal', "custody") = custody
          /\ LedgerIn(journal', "frozen") = frozen - Amount[p]
      <4>. HIDE DEF j
      <4>. QED BY <1>0, <3>0, <3>1, <3>2, LedgerAfterPost
    <3>4. /\ p \in With(Unfinished) /\ p \notin With({"succeeded"})
          /\ With(Unfinished)' = With(Unfinished) \ {p}
          /\ With({"succeeded"})' = With({"succeeded"})
      BY <2>2, <2>5 DEF With, Unfinished
    <3>5. /\ SumOf(Amount, With(Unfinished)) = Amount[p] + SumOf(Amount, With(Unfinished) \ {p})
          /\ SumOf(Amount, With({"succeeded"}) \cup {p}) = out + Amount[p]
      BY <3>4, JoinSum, LeaveSum DEF Unfinished
    <3>6. /\ held = Amount[p] + SumOf(Amount, With(Unfinished))'
          /\ SumOf(Amount, With({"succeeded"}))' = out
      BY <3>4, <3>5, Zenon
    <3>7. SumOf(Amount, With(Unfinished))' \in Int
      <4>1. With(Unfinished) \ {p} \subseteq Movements /\ IsFiniteSet(With(Unfinished) \ {p})
        BY WithFinite, FS_Subset DEF Unfinished
      <4>2. SumOf(Amount, With(Unfinished) \ {p}) \in Nat
        BY <4>1, MovementsSummable
      <4>3. SumOf(Amount, With(Unfinished))' \in Nat
        BY <3>4, <4>2, Zenon
      <4>. QED BY <4>3
    <3>. HIDE DEF custody, frozen, in, out, held, j
    <3>. QED BY <1>1, <1>2, <2>3, <3>2, <3>3, <3>6, <3>7 DEF SumsAgree
  <2>6. CASE /\ transfer[p].status = "confirming" /\ row.status = "failed"
             /\ journal' = journal \cup {Posted("payout_failure_release", p, "frozen", "available")}
    <3> DEFINE j == Posted("payout_failure_release", p, "frozen", "available")
    <3>0. journal' = journal \cup {j}
      BY <2>6
    <3>1. j \notin journal
      BY <1>0, <2>6 DEF Books, Posted, With, Statuses
    <3>2. /\ j \in Posting /\ j.debit = "frozen" /\ j.credit = "available"
          /\ j.amount = Amount[p] /\ Amount[p] \in Int
      BY PostedType DEF Movements, Transfers, Accounts
    <3>3. /\ LedgerIn(journal', "custody") = custody
          /\ LedgerIn(journal', "frozen") = frozen - Amount[p]
      <4>. HIDE DEF j
      <4>. QED BY <1>0, <3>0, <3>1, <3>2, LedgerAfterPost
    <3>4. /\ p \in With(Unfinished) /\ p \notin With({"succeeded"})
          /\ With(Unfinished)' = With(Unfinished) \ {p}
          /\ With({"succeeded"})' = With({"succeeded"})
      BY <2>2, <2>6 DEF With, Unfinished
    <3>5. /\ SumOf(Amount, With(Unfinished)) = Amount[p] + SumOf(Amount, With(Unfinished) \ {p})
          /\ SumOf(Amount, With({"succeeded"}) \cup {p}) = out + Amount[p]
      BY <3>4, JoinSum, LeaveSum DEF Unfinished
    <3>6. /\ held = Amount[p] + SumOf(Amount, With(Unfinished))'
          /\ SumOf(Amount, With({"succeeded"}))' = out
      BY <3>4, <3>5, Zenon
    <3>7. SumOf(Amount, With(Unfinished))' \in Int
      <4>1. With(Unfinished) \ {p} \subseteq Movements /\ IsFiniteSet(With(Unfinished) \ {p})
        BY WithFinite, FS_Subset DEF Unfinished
      <4>2. SumOf(Amount, With(Unfinished) \ {p}) \in Nat
        BY <4>1, MovementsSummable
      <4>3. SumOf(Amount, With(Unfinished))' \in Nat
        BY <3>4, <4>2, Zenon
      <4>. QED BY <4>3
    <3>. HIDE DEF custody, frozen, in, out, held, j
    <3>. QED BY <1>1, <1>2, <2>3, <3>2, <3>3, <3>6, <3>7 DEF SumsAgree
  <2>7. CASE /\ transfer[p].status = "confirming" /\ row.status = "succeeded"
             /\ journal' = journal \cup {Posted("payout_settlement", p, "frozen", "custody")}
    <3> DEFINE j == Posted("payout_settlement", p, "frozen", "custody")
    <3>0. journal' = journal \cup {j}
      BY <2>7
    <3>1. j \notin journal
      BY <1>0, <2>7 DEF Books, Posted, With, Statuses
    <3>2. /\ j \in Posting /\ j.debit = "frozen" /\ j.credit = "custody"
          /\ j.amount = Amount[p] /\ Amount[p] \in Int
      BY PostedType DEF Movements, Transfers, Accounts
    <3>3. /\ LedgerIn(journal', "custody") = custody - Amount[p]
          /\ LedgerIn(journal', "frozen") = frozen - Amount[p]
      <4>. HIDE DEF j
      <4>. QED BY <1>0, <3>0, <3>1, <3>2, LedgerAfterPost
    <3>4. /\ p \in With(Unfinished) /\ p \notin With({"succeeded"})
          /\ With(Unfinished)' = With(Unfinished) \ {p}
          /\ With({"succeeded"})' = With({"succeeded"}) \cup {p}
      BY <2>2, <2>7 DEF With, Unfinished
    <3>5. /\ SumOf(Amount, With(Unfinished)) = Amount[p] + SumOf(Amount, With(Unfinished) \ {p})
          /\ SumOf(Amount, With({"succeeded"}) \cup {p}) = out + Amount[p]
      BY <3>4, JoinSum, LeaveSum DEF Unfinished
    <3>6. /\ held = Amount[p] + SumOf(Amount, With(Unfinished))'
          /\ SumOf(Amount, With({"succeeded"}))' = out + Amount[p]
      BY <3>4, <3>5, Zenon
    <3>7. SumOf(Amount, With(Unfinished))' \in Int
      <4>1. With(Unfinished) \ {p} \subseteq Movements /\ IsFiniteSet(With(Unfinished) \ {p})
        BY WithFinite, FS_Subset DEF Unfinished
      <4>2. SumOf(Amount, With(Unfinished) \ {p}) \in Nat
        BY <4>1, MovementsSummable
      <4>3. SumOf(Amount, With(Unfinished))' \in Nat
        BY <3>4, <4>2, Zenon
      <4>. QED BY <4>3
    <3>. HIDE DEF custody, frozen, in, out, held, j
    <3>. QED BY <1>1, <1>2, <2>3, <3>2, <3>3, <3>6, <3>7 DEF SumsAgree
  <2>. QED BY <2>1, <2>4, <2>5, <2>6, <2>7
<1>5. ASSUME NEW t \in Transfers, WorkStep(t)
      PROVE SumsAgree'
  <2>1. /\ UNCHANGED <<credited, journal>>
        /\ With(Unfinished)' = With(Unfinished)
        /\ With({"succeeded"})' = With({"succeeded"})
    BY <1>5, WorkStepIs
  <2>2. SumOf(Amount, With({"succeeded"}))' = out /\ SumOf(Amount, With(Unfinished))' = held
    BY <2>1, Zenon
  <2>. QED BY <1>1, <2>1, <2>2 DEF SumsAgree
<1>6. ASSUME NEW s \in Sweeps, SweepEnds(s)
      PROVE SumsAgree'
  <2>1. /\ UNCHANGED <<credited, journal>>
        /\ With(Unfinished)' = With(Unfinished)
        /\ With({"succeeded"})' = With({"succeeded"})
    BY <1>6, FinishIs
  <2>2. SumOf(Amount, With({"succeeded"}))' = out /\ SumOf(Amount, With(Unfinished))' = held
    BY <2>1, Zenon
  <2>. QED BY <1>1, <2>1, <2>2 DEF SumsAgree
<1>7. CASE UNCHANGED books
  <2>1. /\ UNCHANGED <<credited, journal>>
        /\ With(Unfinished)' = With(Unfinished)
        /\ With({"succeeded"})' = With({"succeeded"})
    BY <1>7 DEF books, With
  <2>2. SumOf(Amount, With({"succeeded"}))' = out /\ SumOf(Amount, With(Unfinished))' = held
    BY <2>1, Zenon
  <2>. QED BY <1>1, <2>1, <2>2 DEF SumsAgree
<1>. QED BY <1>3, <1>4, <1>5, <1>6, <1>7, BookSteps

-----------------------------------------------------------------------------
(* The chain and the rows of transfers *)

\* Nothing is solidified at the start.
LEMMA ChainStart == Init => ChainAgrees
BY DEF Init, ChainAgrees, Solid, Upto, NewRow, Transfers

\* Only what is in flight is solidified, and what has ended stays ended.
LEMMA ChainKeeps ==
  ASSUME TypeOK, ChainAgrees, [Next]_vars
  PROVE ChainAgrees'
<1>0. transfer \in [Transfers -> Row] /\ chain \in Seq(Movements)
  BY DEF TypeOK
<1>a. ASSUME UNCHANGED <<chain, active, credited>>, NEW t \in Transfers, NEW row,
             transfer' = [transfer EXCEPT ![t] = row],
             t \in Solid => \/ row.status \in {"confirming", "succeeded", "failed"}
                            \/ row.status = "ready_for_broadcast" /\ row.tried,
             t \in Sweeps => Source[t] \in active
      PROVE ChainAgrees'
  <2>1. /\ transfer'[t] = row
        /\ \A u \in Transfers : u # t => transfer'[u] = transfer[u]
        /\ Solid' = Solid
    BY <1>0, <1>a DEF Solid, Upto
  <2>2. \A u \in Transfers \cap Solid' :
          u \in InFlight(Transfers)' \/ transfer'[u].status \in {"succeeded", "failed"}
    <3>. TAKE u \in Transfers \cap Solid'
    <3>1. CASE u = t
      BY <1>a, <2>1, <3>1 DEF InFlight
    <3>2. CASE u # t
      BY <2>1, <3>2 DEF ChainAgrees, InFlight
    <3>. QED BY <3>1, <3>2
  <2>3. \A s \in Sweeps : transfer'[s].status # "none" => Source[s] \in active'
    BY <1>a, <2>1 DEF ChainAgrees, Transfers
  <2>. QED BY <1>a, <2>2, <2>3 DEF ChainAgrees
<1>1. ASSUME NEW m \in Movements, Solidify(m)
      PROVE ChainAgrees'
  <2>1. Solid' = Solid \cup {m}
    BY <1>0, <1>1, UptoAppend DEF Solidify
  <2>. QED BY <1>1, <2>1 DEF Solidify, ChainAgrees, InFlight
<1>2. ASSUME NEW d \in Deposits, CreditDeposit(d)
      PROVE ChainAgrees'
  BY <1>2 DEF CreditDeposit, ChainAgrees, InFlight, Solid, Upto
<1>3. ASSUME NEW p \in Payouts, PayoutStep(p)
      PROVE ChainAgrees'
  <2>1. PICK row \in Row : transfer' = [transfer EXCEPT ![p] = row]
    BY <1>3, PayoutStepIs
  <2>2. UNCHANGED <<chain, active, credited>>
    BY <1>3 DEF PayoutStep, CreatePayout, RejectPayout, SettlePayout, FailPayout
  <2>3. p \in Transfers /\ p \notin Sweeps
    BY MovementsAssumption DEF Transfers
  <2>4. row.status = transfer'[p].status
    BY <1>0, <2>1, <2>3
  <2>5. p \in Solid => row.status \in {"succeeded", "failed"}
    BY <1>0, <1>3, <2>1, <2>3, <2>4
    DEF ChainAgrees, InFlight, PayoutStep, CreatePayout, RejectPayout, SettlePayout, FailPayout, Row
  <2>. QED BY <1>a, <2>1, <2>2, <2>3, <2>5
<1>4. ASSUME NEW t \in Transfers, WorkStep(t)
      PROVE ChainAgrees'
  <2>1. PICK row \in Row : transfer' = [transfer EXCEPT ![t] = row]
    BY <1>4, WorkRowAfter DEF WorkStep
  <2>2. UNCHANGED <<chain, active, credited>>
    BY <1>4 DEF WorkStep, BecomesReady, ClaimBroadcast, BeginConfirmation
  <2>3. row = transfer'[t]
    BY <1>0, <2>1
  <2>4. t \in Solid => \/ row.status \in {"confirming", "succeeded", "failed"}
                       \/ row.status = "ready_for_broadcast" /\ row.tried
    BY <1>0, <1>4, <2>3
    DEF ChainAgrees, InFlight, WorkStep, BecomesReady, ClaimBroadcast, BeginConfirmation, Row
  <2>5. t \in Sweeps => Source[t] \in active
    BY <1>4 DEF ChainAgrees, WorkStep, BecomesReady, ClaimBroadcast, BeginConfirmation
  <2>. QED BY <1>a, <2>1, <2>2, <2>4, <2>5
<1>5. ASSUME NEW s \in Sweeps, SweepEnds(s)
      PROVE ChainAgrees'
  <2>1. PICK row : transfer' = [transfer EXCEPT ![s] = row]
    BY <1>5 DEF SweepEnds, FinishSweep
  <2>2. UNCHANGED <<chain, active, credited>> /\ s \in Transfers
    BY <1>5 DEF SweepEnds, FinishSweep, Transfers
  <2>3. row = transfer'[s]
    BY <1>0, <2>1, <2>2
  <2>4. row.status \in {"succeeded", "failed"}
    BY <1>0, <1>5, <2>2, <2>3 DEF SweepEnds, FinishSweep, Row
  <2>5. Source[s] \in active
    BY <1>5 DEF ChainAgrees, SweepEnds, FinishSweep
  <2>. QED BY <1>a, <2>1, <2>2, <2>4, <2>5
<1>6. ASSUME NEW w \in Wallets, Register(w)
      PROVE ChainAgrees'
  BY <1>6 DEF Register, money, ChainAgrees, InFlight, Solid, Upto
<1>7. CASE UNCHANGED <<money, active>>
  BY <1>7 DEF money, ChainAgrees, InFlight, Solid, Upto
<1>8. CASE NodeCatchesUp \/ EmptyBlock \/ SnapshotStep \/ CaptureFails \/ BeginRun \/ CommitRun \/ ResolveCase
           \/ UNCHANGED vars
  <2>1. UNCHANGED <<money, active>>
    BY <1>8 DEF NodeCatchesUp, EmptyBlock, SnapshotStep, CaptureFails, ActiveWallets, ReadBefore, ReadHead,
      ReadBalance, ReadEnd, ReadAfter, CaptureStep, SaveSnapshot, Refuse, BeginRun, CommitRun,
      ResolveCase, vars, money
  <2>. QED BY <1>7, <2>1
<1>. QED
  BY <1>1, <1>2, <1>3, <1>4, <1>5, <1>6, <1>8 DEF Next, MoneyStep, PayoutStep, WorkStep, SweepEnds

-----------------------------------------------------------------------------
(* The capture of a snapshot *)

\* No wallets hold nothing.
LEMMA HeldNothing ==
  ASSUME NEW h
  PROVE Held({}, h) = 0
<1>1. {m \in Upto(h) : Target[m] \in {}} = {} /\ {m \in Upto(h) : Source[m] \in {}} = {}
  OBVIOUS
<1>2. /\ SumOf(Amount, {m \in Upto(h) : Target[m] \in {}}) = SumOf(Amount, {})
      /\ SumOf(Amount, {m \in Upto(h) : Source[m] \in {}}) = SumOf(Amount, {})
  BY <1>1, Zenon
<1>. QED BY <1>2, SumEmpty DEF Held

\* One more wallet adds its balance.
LEMMA HeldOneMore ==
  ASSUME chain \in Seq(Movements), NEW h \in 0 .. Len(chain), NEW ws, NEW w, w \notin ws
  PROVE Held(ws \cup {w}, h) = Held(ws, h) + TokenBalance(w, h)
<1> DEFINE T == {m \in Upto(h) : Target[m] \in ws}
           S == {m \in Upto(h) : Source[m] \in ws}
           Tw == {m \in Upto(h) : Target[m] = w}
           Sw == {m \in Upto(h) : Source[m] = w}
           T2 == {m \in Upto(h) : Target[m] \in ws \cup {w}}
           S2 == {m \in Upto(h) : Source[m] \in ws \cup {w}}
<1>1. /\ T \subseteq Upto(h) /\ S \subseteq Upto(h) /\ Tw \subseteq Upto(h) /\ Sw \subseteq Upto(h)
      /\ T2 = T \cup Tw /\ S2 = S \cup Sw
      /\ T \cap Tw = {} /\ S \cap Sw = {}
  OBVIOUS
<1>2. Sum(Tw) = SumOf(Amount, Tw) /\ Sum(Sw) = SumOf(Amount, Sw)
  BY SumIs
<1>3. /\ Held(ws, h) = SumOf(Amount, T) - SumOf(Amount, S)
      /\ Held(ws \cup {w}, h) = SumOf(Amount, T2) - SumOf(Amount, S2)
      /\ TokenBalance(w, h) = SumOf(Amount, Tw) - SumOf(Amount, Sw)
  BY <1>2 DEF Held, TokenBalance
<1>. HIDE DEF T, S, Tw, Sw, T2, S2
<1>4. \A ms \in {T, S, Tw, Sw} : Summable(Amount, ms) /\ SumOf(Amount, ms) \in Nat
  <2>. TAKE ms \in {T, S, Tw, Sw}
  <2>1. ms \subseteq Movements /\ IsFiniteSet(ms)
    BY <1>1, UptoFinite, FS_Subset
  <2>. QED BY <2>1, MovementsSummable
<1>5. /\ SumOf(Amount, T \cup Tw) = SumOf(Amount, T) + SumOf(Amount, Tw)
      /\ SumOf(Amount, S \cup Sw) = SumOf(Amount, S) + SumOf(Amount, Sw)
  BY <1>1, <1>4, SumUnion
<1>6. SumOf(Amount, T2) = SumOf(Amount, T \cup Tw) /\ SumOf(Amount, S2) = SumOf(Amount, S \cup Sw)
  BY <1>1, Zenon
<1>. QED BY <1>3, <1>4, <1>5, <1>6

\* At the start no capture runs.
LEMMA CaptureStart == Init => CaptureAgrees
BY DEF Init, CaptureAgrees, Idle

\* A capture keeps the total of what it has read, at the height it reads.
LEMMA CaptureKeeps ==
  ASSUME TypeOK, CaptureAgrees, [Next]_vars
  PROVE CaptureAgrees'
<1>0. /\ chain \in Seq(Movements) /\ node \in 0 .. Len(chain) /\ capture \in Capture
      /\ node \in Nat
  BY DEF TypeOK
<1>1. ASSUME NEW m \in Movements, Solidify(m)
      PROVE CaptureAgrees'
  <2>1. \A h \in 0 .. Len(chain) : Upto(h)' = Upto(h)
    BY <1>0, <1>1, UptoAppend DEF Solidify
  <2>2. UNCHANGED <<capture, node, active>>
    BY <1>1 DEF Solidify, control
  <2>3. CASE capture.at \in {"balances", "after", "save"}
    <3>1. Upto(capture.height)' = Upto(capture.height)
      <4>1. capture.height \in 0 .. Len(chain)
        BY <1>0, <2>3 DEF CaptureAgrees, Capture
      <4>. QED BY <2>1, <2>2, <4>1
    <3>2. \A ws : Held(ws, capture.height)' = Held(ws, capture.height)
      BY <2>2, <3>1 DEF Held
    <3>. QED BY <2>2, <2>3, <3>2 DEF CaptureAgrees
  <2>4. CASE capture.at \notin {"balances", "after", "save"}
    BY <2>2, <2>4 DEF CaptureAgrees
  <2>. QED BY <2>3, <2>4
<1>2. CASE NodeCatchesUp
  <2>1. PICK h \in node + 1 .. Len(chain) : node' = h
    BY <1>2 DEF NodeCatchesUp
  <2>2. UNCHANGED <<chain, capture, active>>
    BY <1>2 DEF NodeCatchesUp, money, control
  <2>3. h > node /\ h \in Int
    BY <1>0, <2>1
  <2>4. \A ws : Held(ws, capture.height)' = Held(ws, capture.height)
    BY <2>2 DEF Held, Upto
  <2>. QED BY <1>0, <2>1, <2>2, <2>3, <2>4 DEF CaptureAgrees, Capture
<1>e. CASE EmptyBlock
  <2>1. /\ capture.at = "balances" /\ capture' = [capture EXCEPT !.moved = TRUE]
        /\ UNCHANGED <<chain, node, active>>
    BY <1>e DEF EmptyBlock, CaptureStep, money
  <2>2. /\ capture'.at = capture.at /\ capture'.wallets = capture.wallets
        /\ capture'.left = capture.left /\ capture'.height = capture.height
        /\ capture'.total = capture.total
    BY <1>0, <2>1 DEF Capture
  <2>3. /\ Held(capture.wallets \ capture.left, capture.height)'
             = Held(capture.wallets \ capture.left, capture.height)
    BY <2>1, <2>2 DEF Held, Upto
  <2>. QED BY <2>1, <2>2, <2>3 DEF CaptureAgrees
<1>3. ASSUME NEW w \in Wallets, Register(w)
      PROVE CaptureAgrees'
  <2>1. UNCHANGED <<chain, node, capture>> /\ active \subseteq active'
    BY <1>3 DEF Register, money, control
  <2>2. \A ws : Held(ws, capture.height)' = Held(ws, capture.height)
    BY <2>1 DEF Held, Upto
  <2>. QED BY <2>1, <2>2 DEF CaptureAgrees
<1>4. CASE UNCHANGED <<chain, node, active, capture>>
  <2>1. \A ws : Held(ws, capture.height)' = Held(ws, capture.height)
    BY <1>4 DEF Held, Upto
  <2>. QED BY <1>4, <2>1 DEF CaptureAgrees
<1>5. CASE SnapshotStep \/ CaptureFails
  <2>0. UNCHANGED <<chain, node, active>>
    BY <1>5 DEF SnapshotStep, CaptureFails, ActiveWallets, ReadBefore, ReadHead,
      ReadBalance, ReadEnd, ReadAfter, CaptureStep, SaveSnapshot, Refuse, money
  <2>1. \A ws, h : Held(ws, h)' = Held(ws, h')
    BY <2>0 DEF Held, Upto
  <2>2. CASE ActiveWallets
    <3>1. capture' = [Idle EXCEPT !.at = "before", !.wallets = active]
      BY <2>2 DEF ActiveWallets, CaptureStep
    <3>. QED BY <2>0, <3>1 DEF CaptureAgrees, Idle, TypeOK
  <2>3. CASE ReadBefore
    BY <1>0, <2>0, <2>3 DEF ReadBefore, CaptureStep, CaptureAgrees, Capture
  <2>4. CASE ReadHead
    <3>1. /\ capture.at = "head"
          /\ capture' = [capture EXCEPT !.at = "balances", !.height = node, !.moved = FALSE,
                                        !.left = capture.wallets]
      BY <2>4 DEF ReadHead, CaptureStep
    <3>2. /\ capture'.at = "balances" /\ capture'.height = node /\ capture'.left = capture.wallets
          /\ capture'.wallets = capture.wallets /\ capture'.total = 0
      BY <1>0, <3>1 DEF CaptureAgrees, Capture
    <3>3. capture'.wallets \ capture'.left = {}
      BY <3>2
    <3>4. Held(capture.wallets \ capture.left, capture.height)' = 0
      <4>1. Held({}, capture'.height) = 0
        BY HeldNothing
      <4>2. Held(capture.wallets \ capture.left, capture.height)' = Held({}, capture'.height)
        BY <2>0, <3>3 DEF Held, Upto
      <4>. QED BY <4>1, <4>2
    <3>. QED BY <1>0, <2>0, <3>1, <3>2, <3>4 DEF CaptureAgrees
  <2>5. CASE ReadBalance
    <3> DEFINE w == Min(capture.left)
    <3>1. /\ capture.at = "balances" /\ capture.left # {}
          /\ capture' = [capture EXCEPT !.left = @ \ {w}, !.total = @ + TokenBalance(w, node)]
      BY <2>5 DEF ReadBalance, CaptureStep, BalanceOf
    <3>2. w \in capture.left
      BY <1>0, <3>1, SomeLeast DEF Capture
    <3>. HIDE DEF w
    <3>3. /\ capture'.at = "balances" /\ capture'.left = capture.left \ {w}
          /\ capture'.total = capture.total + TokenBalance(w, node)
          /\ capture'.height = capture.height /\ capture'.wallets = capture.wallets
      BY <1>0, <3>1 DEF Capture
    <3>4. ASSUME capture.height = node
          PROVE capture'.total = Held(capture.wallets \ capture.left, capture.height)'
      <4> DEFINE ws == capture.wallets \ capture.left
      <4>1. Held(ws \cup {w}, node) = Held(ws, node) + TokenBalance(w, node)
        BY <1>0, <3>2, HeldOneMore
      <4>2. capture.total = Held(ws, node)
        BY <3>1, <3>4 DEF CaptureAgrees
      <4>3. ws \cup {w} = capture'.wallets \ capture'.left
        BY <3>1, <3>2, <3>3 DEF CaptureAgrees
      <4>4. Held(capture.wallets \ capture.left, capture.height)' = Held(ws \cup {w}, node)
        BY <2>0, <3>3, <3>4, <4>3 DEF Held, Upto
      <4>. HIDE DEF ws
      <4>. QED BY <3>3, <4>1, <4>2, <4>4
    <3>. QED BY <2>0, <3>1, <3>3, <3>4 DEF CaptureAgrees
  <2>6. CASE ReadEnd
    <3>1. /\ capture.at = "balances" /\ capture.left = {} /\ node = capture.height
          /\ capture' = [capture EXCEPT !.at = "after"]
      BY <2>6 DEF ReadEnd, CaptureStep
    <3>2. /\ capture'.at = "after" /\ capture'.wallets = capture.wallets
          /\ capture'.height = capture.height /\ capture'.total = capture.total
      BY <1>0, <3>1 DEF Capture
    <3>3. capture.wallets \ capture.left = capture.wallets
      BY <3>1
    <3>4. capture.total = Held(capture.wallets \ capture.left, capture.height)
      BY <3>1 DEF CaptureAgrees
    <3>5. capture.total = Held(capture.wallets, capture.height)
      BY <3>3, <3>4, Zenon
    <3>6. Held(capture.wallets, capture.height)' = Held(capture.wallets, capture.height)
      BY <2>0, <3>2 DEF Held, Upto
    <3>. QED BY <2>0, <3>1, <3>2, <3>5, <3>6 DEF CaptureAgrees
  <2>7. CASE ReadAfter
    <3>1. capture.at = "after" /\ capture' = [capture EXCEPT !.at = "save"]
      BY <2>7 DEF ReadAfter, CaptureStep
    <3>2. /\ capture'.at = "save" /\ capture'.wallets = capture.wallets
          /\ capture'.height = capture.height /\ capture'.total = capture.total
      BY <1>0, <3>1 DEF Capture
    <3>3. Held(capture.wallets, capture.height)' = Held(capture.wallets, capture.height)
      BY <2>0, <3>2 DEF Held, Upto
    <3>. QED BY <2>0, <3>1, <3>2, <3>3 DEF CaptureAgrees
  <2>8. CASE SaveSnapshot \/ Refuse \/ CaptureFails
    BY <2>8 DEF SaveSnapshot, Refuse, CaptureFails, Idle, CaptureAgrees
  <2>. QED BY <1>5, <2>2, <2>3, <2>4, <2>5, <2>6, <2>7, <2>8 DEF SnapshotStep
<1>6. CASE MoneyStep
  <2>1. \/ \E m \in Movements : Solidify(m)
        \/ \E w \in Wallets : Register(w)
        \/ UNCHANGED <<chain, node, active, capture>>
    BY <1>6 DEF MoneyStep, CreditDeposit, CreatePayout, RejectPayout, SettlePayout, FailPayout,
      BecomesReady, ClaimBroadcast, BeginConfirmation, SweepEnds, FinishSweep, control
  <2>. QED BY <1>1, <1>3, <1>4, <2>1
<1>7. CASE BeginRun \/ CommitRun \/ ResolveCase \/ UNCHANGED vars
  BY <1>4, <1>7 DEF BeginRun, CommitRun, ResolveCase, vars, money
<1>. QED BY <1>2, <1>e, <1>5, <1>6, <1>7 DEF Next

-----------------------------------------------------------------------------
(* The snapshot *)

\* A total by cases of membership in another set.
LEMMA PartSum ==
  ASSUME NEW ms, ms \subseteq Movements, IsFiniteSet(ms), NEW us
  PROVE /\ SumOf(Amount, ms \cap us) \in Nat /\ SumOf(Amount, ms \ us) \in Nat
        /\ SumOf(Amount, ms) = SumOf(Amount, ms \cap us) + SumOf(Amount, ms \ us)
<1>1. Summable(Amount, ms)
  BY MovementsSummable
<1>2. /\ ms \cap us \subseteq Movements /\ IsFiniteSet(ms \cap us)
      /\ ms \ us \subseteq Movements /\ IsFiniteSet(ms \ us)
  BY FS_Subset
<1>3. SumOf(Amount, ms \cap us) \in Nat
  BY <1>2, MovementsSummable
<1>4. SumOf(Amount, ms \ us) \in Nat
  BY <1>2, MovementsSummable
<1>5. SumOf(Amount, ms) = SumOf(Amount, ms \cap us) + SumOf(Amount, ms \ us)
  BY <1>1, SumSplit
<1>. QED BY <1>3, <1>4, <1>5

\* What the active wallets hold at a height, against the ledger of now.
LEMMA SnapshotIsCut ==
  ASSUME TypeOK, Finite, SumsAgree, ChainAgrees, NEW h \in 0 .. Len(chain),
         NEW settled, settled = With({"succeeded"}),
         NEW failed, failed = With({"failed"})
  PROVE /\ Held(active, h) - Ledger("custody")
             = Sum(Uncredited(h, active, credited)) - Sum((Payouts \cap Upto(h)) \ settled)
                 - Sum(Lost(h, active)) - Sum(credited \ Upto(h)) + Sum(settled \ Upto(h))
        /\ Sum(((Payouts \cap Upto(h)) \ settled) \ failed) <= Sum(InFlight(Payouts))
<1> DEFINE U == Upto(h)
           T == {m \in U : Target[m] \in active}
           S == {m \in U : Source[m] \in active}
           DU == {d \in Deposits \cap U : Target[d] \in active}
           SU == Sweeps \cap U
           PU == Payouts \cap U
           LU == Lost(h, active)
           uncredited == Uncredited(h, active, credited)
           flying == InFlight(Payouts)
           opened == (PU \ settled) \ failed
<1>1. /\ IsFiniteSet(U) /\ U \subseteq Movements /\ U \subseteq Solid
      /\ IsFiniteSet(credited) /\ credited \subseteq Movements
      /\ IsFiniteSet(settled) /\ settled \subseteq Movements /\ settled \subseteq Payouts
      /\ IsFiniteSet(flying) /\ flying \subseteq Movements
  BY UptoFinite, WithFinite, InFlightFinite DEF TypeOK, Finite, Movements, Transfers, With
<1>2. \A s \in Sweeps \cap U : Source[s] \in active
  BY <1>1 DEF ChainAgrees, InFlight, Transfers
<1>3. /\ T = DU \cup SU /\ DU \cap SU = {}
      /\ S = (PU \cup SU) \cup LU /\ PU \cap SU = {} /\ (PU \cup SU) \cap LU = {}
  <2>1. /\ active \subseteq Wallets /\ Hot \in active /\ None \notin active
        /\ U \subseteq Deposits \cup Payouts \cup Sweeps \cup Losses
    BY <1>1, MovementsAssumption DEF TypeOK, Movements, Transfers
  <2>2. \A m \in U :
          /\ m \in Deposits => Source[m] \notin active /\ m \notin Sweeps
          /\ m \in Payouts => Source[m] \in active /\ Target[m] \notin active /\ m \notin Sweeps
          /\ m \in Sweeps => Source[m] \in active /\ Target[m] \in active
          /\ m \in Losses => Target[m] \notin active /\ m \notin Sweeps /\ m \notin Payouts
    BY <1>2, <2>1, MovementsAssumption
  <2>3. \A m \in U : m \in T <=> m \in DU \cup SU
    BY <2>1, <2>2
  <2>4. \A m \in U : m \in S <=> m \in (PU \cup SU) \cup LU
    BY <2>1, <2>2 DEF Lost
  <2>5. DU \subseteq U /\ SU \subseteq U /\ PU \subseteq U /\ LU \subseteq U
    BY DEF Lost
  <2>6. DU \cap SU = {} /\ PU \cap SU = {} /\ (PU \cup SU) \cap LU = {}
    BY <2>2, <2>5 DEF Lost
  <2>7. T \subseteq U /\ S \subseteq U
    OBVIOUS
  <2>. HIDE DEF T, S, DU, SU, PU, LU
  <2>. QED BY <2>3, <2>4, <2>5, <2>6, <2>7
<1>4. /\ DU \cap credited = credited \cap U /\ DU \ credited = uncredited
  BY DEF ChainAgrees, Uncredited, TypeOK
<1>5. PU \cap settled = settled \cap U
  BY <1>1
<1>6. opened \subseteq flying
  BY <1>1 DEF ChainAgrees, InFlight, Transfers, With
<1>7. flying \cap opened = opened
  BY <1>6
<1>8. \A ms \in {DU, SU, PU, LU, PU \cup SU} : ms \subseteq Movements /\ IsFiniteSet(ms)
  <2>1. \A ms \in {DU, SU, PU, LU, PU \cup SU} : ms \subseteq U
    BY DEF Lost
  <2>. HIDE DEF U, DU, SU, PU, LU
  <2>. QED BY <1>1, <2>1, FS_Subset
<1>9. Held(active, h) = SumOf(Amount, T) - SumOf(Amount, S)
  BY DEF Held
<1>10. Ledger("custody") = SumOf(Amount, credited) - SumOf(Amount, settled)
  <2>1. Ledger("custody") = LedgerIn(journal, "custody")
    BY LedgerIs DEF TypeOK, Finite
  <2>. QED BY <2>1 DEF SumsAgree
<1>11. /\ Sum(uncredited) = SumOf(Amount, uncredited) /\ Sum(PU \ settled) = SumOf(Amount, PU \ settled)
       /\ Sum(opened) = SumOf(Amount, opened)
       /\ Sum(LU) = SumOf(Amount, LU) /\ Sum(flying) = SumOf(Amount, flying)
       /\ Sum(credited \ U) = SumOf(Amount, credited \ U)
       /\ Sum(settled \ U) = SumOf(Amount, settled \ U)
  BY SumIs
<1>. HIDE DEF U, T, S, DU, SU, PU, LU, uncredited, flying, opened
<1>12. \A ms \in {DU, SU, PU, LU, PU \cup SU} : Summable(Amount, ms) /\ SumOf(Amount, ms) \in Nat
  BY <1>8, MovementsSummable
<1>13. /\ SumOf(Amount, DU \cup SU) = SumOf(Amount, DU) + SumOf(Amount, SU)
       /\ SumOf(Amount, PU \cup SU) = SumOf(Amount, PU) + SumOf(Amount, SU)
       /\ SumOf(Amount, (PU \cup SU) \cup LU) = SumOf(Amount, PU \cup SU) + SumOf(Amount, LU)
  BY <1>3, <1>12, SumUnion
<1>14. /\ SumOf(Amount, T) = SumOf(Amount, DU \cup SU)
       /\ SumOf(Amount, S) = SumOf(Amount, (PU \cup SU) \cup LU)
  BY <1>3, Zenon
<1>15. /\ SumOf(Amount, DU) = SumOf(Amount, DU \cap credited) + SumOf(Amount, DU \ credited)
       /\ SumOf(Amount, PU) = SumOf(Amount, PU \cap settled) + SumOf(Amount, PU \ settled)
       /\ SumOf(Amount, credited) = SumOf(Amount, credited \cap U) + SumOf(Amount, credited \ U)
       /\ SumOf(Amount, settled) = SumOf(Amount, settled \cap U) + SumOf(Amount, settled \ U)
       /\ SumOf(Amount, flying) = SumOf(Amount, flying \cap opened) + SumOf(Amount, flying \ opened)
       /\ SumOf(Amount, flying \cap opened) \in Nat /\ SumOf(Amount, flying \ opened) \in Nat
       /\ SumOf(Amount, DU \cap credited) \in Nat /\ SumOf(Amount, DU \ credited) \in Nat
       /\ SumOf(Amount, PU \cap settled) \in Nat /\ SumOf(Amount, PU \ settled) \in Nat
       /\ SumOf(Amount, credited \ U) \in Nat /\ SumOf(Amount, settled \ U) \in Nat
  BY <1>1, <1>8, PartSum
<1>16. /\ SumOf(Amount, DU \cap credited) = SumOf(Amount, credited \cap U)
       /\ SumOf(Amount, DU \ credited) = SumOf(Amount, uncredited)
       /\ SumOf(Amount, PU \cap settled) = SumOf(Amount, settled \cap U)
       /\ SumOf(Amount, flying \cap opened) = SumOf(Amount, opened)
  BY <1>4, <1>5, <1>7, Zenon
<1>17. /\ Held(active, h) - Ledger("custody")
            = Sum(uncredited) - Sum(PU \ settled) - Sum(LU) - Sum(credited \ U) + Sum(settled \ U)
       /\ Sum(opened) <= Sum(flying)
  <2>1. /\ SumOf(Amount, DU) \in Int /\ SumOf(Amount, SU) \in Int /\ SumOf(Amount, PU) \in Int
        /\ SumOf(Amount, LU) \in Int
    BY <1>12
  <2>2. /\ SumOf(Amount, credited \cap U) \in Int /\ SumOf(Amount, settled \cap U) \in Int
        /\ SumOf(Amount, uncredited) \in Int
    BY <1>15, <1>16
  <2>3. Held(active, h) = SumOf(Amount, DU) - SumOf(Amount, PU) - SumOf(Amount, LU)
    <3>1. SumOf(Amount, T) = SumOf(Amount, DU) + SumOf(Amount, SU)
      BY <1>13, <1>14
    <3>2. SumOf(Amount, S) = SumOf(Amount, PU) + SumOf(Amount, SU) + SumOf(Amount, LU)
      BY <1>13, <1>14
    <3>. QED BY <1>9, <2>1, <3>1, <3>2
  <2>4. Ledger("custody") = (SumOf(Amount, credited \cap U) + SumOf(Amount, credited \ U))
                              - (SumOf(Amount, settled \cap U) + SumOf(Amount, settled \ U))
    BY <1>10, <1>15
  <2>5. /\ SumOf(Amount, DU) = SumOf(Amount, credited \cap U) + SumOf(Amount, uncredited)
        /\ SumOf(Amount, PU) = SumOf(Amount, settled \cap U) + SumOf(Amount, PU \ settled)
    BY <1>15, <1>16
  <2>6. Sum(opened) <= Sum(flying)
    BY <1>11, <1>15, <1>16
  <2>7. SumOf(Amount, PU \ settled) \in Int /\ SumOf(Amount, credited \ U) \in Int
        /\ SumOf(Amount, settled \ U) \in Int
    BY <1>15
  <2>8. Held(active, h) - Ledger("custody")
          = SumOf(Amount, uncredited) - SumOf(Amount, PU \ settled) - SumOf(Amount, LU)
              - SumOf(Amount, credited \ U) + SumOf(Amount, settled \ U)
    <3> DEFINE same == SumOf(Amount, credited \cap U) - SumOf(Amount, settled \cap U)
               new == SumOf(Amount, uncredited) - SumOf(Amount, PU \ settled) - SumOf(Amount, LU)
               ahead == SumOf(Amount, credited \ U) - SumOf(Amount, settled \ U)
    <3>1. same \in Int /\ new \in Int /\ ahead \in Int
      BY <2>1, <2>2, <2>7
    <3>2. Held(active, h) = same + new
      BY <2>1, <2>2, <2>3, <2>5, <2>7
    <3>3. Ledger("custody") = same + ahead
      BY <2>2, <2>4, <2>7
    <3>4. Held(active, h) - Ledger("custody") = new - ahead
      <4>. HIDE DEF same, new, ahead
      <4>. QED BY <3>1, <3>2, <3>3
    <3>. QED BY <2>1, <2>2, <2>7, <3>4
  <2>. QED BY <1>11, <2>6, <2>8
<1>. QED BY <1>17 DEF U, PU, LU, uncredited, flying, opened

\* At the start there is no snapshot.
LEMMA LatestStart == Init => LatestAgrees
BY DEF Init, LatestAgrees, SnapshotAddsUp, NoSnapshot

\* A saved snapshot is a cut, and later blocks leave it one.
LEMMA LatestKeeps ==
  ASSUME TypeOK, Finite, SumsAgree, ChainAgrees, CaptureAgrees, LatestAgrees, [Next]_vars
  PROVE LatestAgrees'
<1>0. /\ chain \in Seq(Movements) /\ node \in 0 .. Len(chain) /\ capture \in Capture
      /\ latest.height \in 0 .. Len(chain) /\ node \in Nat
  BY DEF TypeOK, LatestAgrees, NoSnapshot, Snapshot
<1>1. ASSUME UNCHANGED latest, Upto(latest.height)' = Upto(latest.height), Len(chain) <= Len(chain')
      PROVE LatestAgrees'
  <2>1. latest'.height <= Len(chain')
    <3>1. latest'.height = latest.height /\ latest.height \in Nat /\ Len(chain) \in Nat
      BY <1>0, <1>1
    <3>. QED BY <1>0, <1>1, <3>1 DEF LatestAgrees
  <2>2. SnapshotAddsUp'
    BY <1>1 DEF LatestAgrees, SnapshotAddsUp, Missing, Pending, Unsettled, Ahead, Lost, Uncredited
  <2>. QED BY <1>1, <2>1, <2>2 DEF LatestAgrees
<1>2. ASSUME NEW m \in Movements, Solidify(m)
      PROVE LatestAgrees'
  <2>1. latest' = latest
    BY <1>2 DEF Solidify, control
  <2>2. /\ \A h \in 0 .. Len(chain) : Upto(h)' = Upto(h)
        /\ Len(chain') = Len(chain) + 1
    BY <1>0, <1>2, UptoAppend DEF Solidify
  <2>3. Upto(latest.height)' = Upto(latest.height)
    BY <1>0, <2>1, <2>2
  <2>4. Len(chain) <= Len(chain')
    BY <1>0, <2>2
  <2>. QED BY <1>1, <2>1, <2>3, <2>4
<1>3. CASE UNCHANGED <<chain, latest>>
  <2>1. Upto(latest.height)' = Upto(latest.height) /\ Len(chain) <= Len(chain')
    BY <1>0, <1>3 DEF Upto
  <2>. QED BY <1>1, <1>3, <2>1
<1>4. CASE SaveSnapshot
  <2>1. CASE capture.height < latest.height
    BY <1>3, <1>4, <2>1 DEF SaveSnapshot, money
  <2>2. CASE ~(capture.height < latest.height)
    <3> DEFINE h == capture.height
               settled == {p \in Payouts : transfer[p].status = "succeeded"}
               failed == {p \in Payouts : transfer[p].status = "failed"}
    <3>1. /\ chain' = chain
          /\ latest' = [height |-> h, wallets |-> active, total |-> capture.total,
                        ledger |-> Checkpoint, credited |-> credited, settled |-> settled,
                        failed |-> failed]
      BY <1>4, <2>2 DEF SaveSnapshot, money
    <3>2. capture.at = "save" /\ active = capture.wallets
      BY <1>4 DEF SaveSnapshot
    <3>3. h \in 0 .. Len(chain) /\ h <= Len(chain)
      BY <1>0, <3>2 DEF CaptureAgrees, Capture
    <3>4. settled = With({"succeeded"}) /\ settled \subseteq Payouts /\ failed = With({"failed"})
      BY DEF With
    <3>5. capture.total = Held(active, h)
      BY <3>2 DEF CaptureAgrees
    <3>. HIDE DEF settled, failed, h
    <3>6. /\ Held(active, h) - Ledger("custody")
               = Sum(Uncredited(h, active, credited)) - Sum((Payouts \cap Upto(h)) \ settled)
                   - Sum(Lost(h, active)) - Sum(credited \ Upto(h)) + Sum(settled \ Upto(h))
          /\ Sum(((Payouts \cap Upto(h)) \ settled) \ failed) <= Sum(InFlight(Payouts))
      BY <3>3, <3>4, SnapshotIsCut
    <3>7. /\ latest'.height = h /\ latest'.wallets = active /\ latest'.total = capture.total
          /\ latest'.credited = credited /\ latest'.settled = settled
          /\ latest'.failed = failed
          /\ latest'.ledger.balance = Ledger("custody")
          /\ latest'.ledger.payoutAmount = Sum(InFlight(Payouts))
      BY <3>1 DEF Checkpoint
    <3>8. \A k : Upto(k)' = Upto(k')
      BY <3>1 DEF Upto
    <3>9. Upto(latest.height)' = Upto(h)
      BY <3>1, <3>7 DEF Upto
    <3>10. /\ Pending' = Sum(Uncredited(h, active, credited))
           /\ Missing' = Sum(Lost(h, active))
           /\ Unsettled' = (Payouts \cap Upto(h)) \ settled
           /\ (Unsettled \ latest.failed)' = ((Payouts \cap Upto(h)) \ settled) \ failed
           /\ Ahead' = (credited \cup settled) \ Upto(h)
      BY <3>7, <3>9 DEF Pending, Missing, Unsettled, Ahead, Uncredited, Lost
    <3>11. ((credited \cup settled) \ Upto(h)) \cap Deposits = credited \ Upto(h)
           /\ ((credited \cup settled) \ Upto(h)) \cap Payouts = settled \ Upto(h)
      BY <3>4, MovementsAssumption DEF TypeOK
    <3>12. /\ (Ahead \cap Deposits)' = credited \ Upto(h)
           /\ (Ahead \cap Payouts)' = settled \ Upto(h)
      BY <3>10, <3>11
    <3>13. /\ Sum(Ahead \cap Deposits)' = Sum(credited \ Upto(h))
           /\ Sum(Ahead \cap Payouts)' = Sum(settled \ Upto(h))
           /\ Sum(Unsettled)' = Sum((Payouts \cap Upto(h)) \ settled)
           /\ Sum(Unsettled \ latest.failed)' = Sum(((Payouts \cap Upto(h)) \ settled) \ failed)
      BY <3>10, <3>12, Zenon
    <3>14. SnapshotAddsUp'
      BY <3>5, <3>6, <3>7, <3>10, <3>13 DEF SnapshotAddsUp
    <3>15. IsFiniteSet(credited) /\ IsFiniteSet(settled)
      BY <3>4, WithFinite DEF Finite
    <3>. QED BY <3>1, <3>3, <3>7, <3>14, <3>15 DEF LatestAgrees
  <2>. QED BY <2>1, <2>2
<1>5. CASE MoneyStep
  <2>1. (\E m \in Movements : Solidify(m)) \/ UNCHANGED <<chain, latest>>
    BY <1>5 DEF MoneyStep, Register, CreditDeposit, CreatePayout, RejectPayout, SettlePayout,
      FailPayout, BecomesReady, ClaimBroadcast, BeginConfirmation, SweepEnds, FinishSweep, control, money
  <2>. QED BY <1>2, <1>3, <2>1
<1>6. CASE NodeCatchesUp \/ EmptyBlock \/ SnapshotStep \/ CaptureFails
  <2>1. SaveSnapshot \/ UNCHANGED <<chain, latest>>
    BY <1>6 DEF NodeCatchesUp, EmptyBlock, SnapshotStep, CaptureFails, ActiveWallets, ReadBefore, ReadHead,
      ReadBalance, ReadEnd, ReadAfter, CaptureStep, Refuse, money, control
  <2>. QED BY <1>3, <1>4, <2>1
<1>7. CASE BeginRun \/ CommitRun \/ ResolveCase \/ UNCHANGED vars
  BY <1>3, <1>7 DEF BeginRun, CommitRun, ResolveCase, vars, money
<1>. QED BY <1>5, <1>6, <1>7 DEF Next

-----------------------------------------------------------------------------
(* What the invariant says of the detectors *)

\* The verdicts follow from the equation of a snapshot alone.
LEMMA Verdict ==
  ASSUME TypeOK, LatestAgrees
  PROVE VerdictIsTrue
<1>. SUFFICES ASSUME latest # NoSnapshot PROVE VerdictIsTrue
  BY DEF VerdictIsTrue
<1>1. /\ latest.height \in 0 .. Len(chain) /\ chain \in Seq(Movements)
      /\ latest.credited \subseteq Deposits /\ latest.settled \subseteq Payouts
      /\ IsFiniteSet(latest.credited) /\ IsFiniteSet(latest.settled)
      /\ latest.total \in Int /\ latest.ledger.balance \in Int
      /\ latest.ledger.payoutAmount \in Nat
  BY DEF TypeOK, LatestAgrees, Snapshot, LedgerCheckpoint
<1>2. IsFiniteSet(Upto(latest.height)) /\ Upto(latest.height) \subseteq Movements
  BY <1>1, UptoFinite
<1>3. ASSUME NEW ms, ms \subseteq Upto(latest.height) \/ ms \subseteq latest.credited
               \/ ms \subseteq latest.settled
      PROVE Sum(ms) \in Nat
  <2>1. ms \subseteq Movements /\ IsFiniteSet(ms)
    BY <1>1, <1>2, <1>3, FS_Subset DEF Movements, Transfers
  <2>. QED BY <2>1, MovementsSummable, SumIs
<1>4. /\ Ahead \cap Deposits \subseteq latest.credited
      /\ Ahead \cap Payouts \subseteq latest.settled
  BY <1>1, MovementsAssumption DEF Ahead
<1>5. /\ Missing \in Nat /\ Pending \in Nat /\ Sum(Unsettled) \in Nat
      /\ Sum(Misjudged) \in Nat /\ Sum(Unsettled \ latest.failed) \in Nat
      /\ Sum(Ahead \cap Deposits) \in Nat /\ Sum(Ahead \cap Payouts) \in Nat
  BY <1>3, <1>4 DEF Missing, Pending, Misjudged, Unsettled, Lost, Uncredited
<1>6. ASSUME NEW ms, ms = {}
      PROVE Sum(ms) = 0
  BY <1>6, SumIs, SumEmpty
<1>7. /\ Sum(Ahead \cap Deposits) # 0 => Ahead \cap Deposits # {}
      /\ Sum(Ahead \cap Payouts) # 0 => Ahead \cap Payouts # {}
      /\ Sum(Misjudged) # 0 => Misjudged # {}
  BY <1>6
<1>8. /\ latest.total - latest.ledger.balance
           = Pending - Sum(Unsettled) - Missing
               - Sum(Ahead \cap Deposits) + Sum(Ahead \cap Payouts)
      /\ Sum(Unsettled \ latest.failed) <= latest.ledger.payoutAmount
  BY DEF LatestAgrees, SnapshotAddsUp
<1>s. Sum(Unsettled) = Sum(Misjudged) + Sum(Unsettled \ latest.failed)
  <2>1. Unsettled \subseteq Movements /\ IsFiniteSet(Unsettled)
    BY <1>2, FS_Subset DEF Unsettled
  <2>2. SumOf(Amount, Unsettled)
          = SumOf(Amount, Unsettled \cap latest.failed) + SumOf(Amount, Unsettled \ latest.failed)
    BY <2>1, PartSum
  <2>. QED BY <2>2, SumIs DEF Misjudged
<1> DEFINE gap == latest.total - latest.ledger.balance
           in == Pending + Sum(Ahead \cap Payouts)
           out == Missing + Sum(Misjudged) + Sum(Ahead \cap Deposits)
           open == Sum(Unsettled \ latest.failed)
<1>9. /\ gap \in Int /\ in \in Nat /\ out \in Nat
      /\ gap = in - out - open
  <2>1. gap \in Int
    BY <1>1
  <2>2. in \in Nat /\ out \in Nat
    BY <1>5
  <2>3. gap = Pending - Sum(Unsettled) - Missing
                - Sum(Ahead \cap Deposits) + Sum(Ahead \cap Payouts)
    BY <1>8
  <2>4. gap = in - out - open
    <3>. HIDE DEF gap
    <3>. QED BY <1>5, <1>s, <2>3
  <2>. QED BY <2>1, <2>2, <2>4
<1>10. /\ in <= gap + latest.ledger.payoutAmount + out
       /\ gap <= in - out
       /\ 0 <= gap + latest.ledger.payoutAmount => out <= in + latest.ledger.payoutAmount
  <2>1. open \in Nat /\ latest.ledger.payoutAmount \in Nat
        /\ open <= latest.ledger.payoutAmount
    BY <1>1, <1>5, <1>8
  <2>. HIDE DEF gap, in, out, open
  <2>2. gap <= in - out
    BY <1>9, <2>1
  <2>3. in <= gap + latest.ledger.payoutAmount + out
    BY <1>9, <2>1
  <2>4. 0 <= gap + latest.ledger.payoutAmount => out <= in + latest.ledger.payoutAmount
    BY <1>9, <2>1, <2>2
  <2>. QED BY <2>2, <2>3, <2>4
<1>11. ASSUME "shortfall" \in WalletFindings(latest)
       PROVE Missing > 0 \/ Misjudged # {} \/ Ahead \cap Deposits # {}
  <2>1. latest.ledger.balance > latest.total + latest.ledger.payoutAmount
    BY <1>11 DEF WalletFindings
  <2>2. gap + latest.ledger.payoutAmount < 0
    BY <1>1, <2>1
  <2>3. out # 0
    <3>. HIDE DEF gap, in, out, open
    <3>. QED BY <1>1, <1>9, <1>10, <2>2
  <2>. QED BY <1>5, <1>7, <2>3
<1>12. ASSUME "excess" \in WalletFindings(latest)
       PROVE Pending > 0 \/ Ahead \cap Payouts # {}
  <2>1. latest.ledger.balance < latest.total
    BY <1>12 DEF WalletFindings
  <2>2. gap > 0
    BY <1>1, <2>1
  <2>3. in # 0
    <3>. HIDE DEF gap, in, out, open
    <3>. QED BY <1>9, <1>10, <2>2
  <2>. QED BY <1>5, <1>7, <2>3
<1>13. ASSUME AuditPasses
       PROVE Missing + Sum(Misjudged)
               <= Pending + latest.ledger.payoutAmount + Sum(Ahead \cap Payouts)
  <2>1. ~(latest.ledger.balance > latest.total + latest.ledger.payoutAmount)
    BY <1>13 DEF AuditPasses, WalletFindings
  <2>2. 0 <= gap + latest.ledger.payoutAmount
    BY <1>1, <2>1
  <2>3. out <= in + latest.ledger.payoutAmount
    BY <1>10, <2>2
  <2>4. Missing + Sum(Misjudged) <= out
    BY <1>5
  <2>5. Missing + Sum(Misjudged) <= in + latest.ledger.payoutAmount
    <3>. HIDE DEF in, out
    <3>. QED BY <1>1, <1>5, <1>9, <2>3, <2>4
  <2>. QED BY <1>1, <1>5, <2>5
<1>. QED BY <1>11, <1>12, <1>13 DEF VerdictIsTrue

\* The one posting behind a reference.
LEMMA LinkedIs ==
  ASSUME BooksAgree, NEW m
  PROVE /\ m \in credited =>
             Linked(m, "deposit") = {Posted("deposit", m, "custody", "available")}
        /\ m \in With(Statuses \ {"none"}) =>
             Linked(m, "payout_freeze") = {Posted("payout_freeze", m, "available", "frozen")}
        /\ m \in With({"rejected"}) =>
             Linked(m, "payout_unfreeze") = {Posted("payout_unfreeze", m, "frozen", "available")}
        /\ m \in With({"failed"}) =>
             Linked(m, "payout_failure_release")
               = {Posted("payout_failure_release", m, "frozen", "available")}
        /\ m \in With({"succeeded"}) =>
             Linked(m, "payout_settlement") = {Posted("payout_settlement", m, "frozen", "custody")}
<1>1. journal = Books
  BY DEF BooksAgree
<1>2. m \in credited =>
        Linked(m, "deposit") = {Posted("deposit", m, "custody", "available")}
  BY <1>1 DEF Books, Linked, Posted
<1>3. m \in With(Statuses \ {"none"}) =>
        Linked(m, "payout_freeze") = {Posted("payout_freeze", m, "available", "frozen")}
  BY <1>1 DEF Books, Linked, Posted
<1>4. m \in With({"rejected"}) =>
        Linked(m, "payout_unfreeze") = {Posted("payout_unfreeze", m, "frozen", "available")}
  BY <1>1 DEF Books, Linked, Posted
<1>5. m \in With({"failed"}) =>
        Linked(m, "payout_failure_release")
          = {Posted("payout_failure_release", m, "frozen", "available")}
  BY <1>1 DEF Books, Linked, Posted
<1>6. m \in With({"succeeded"}) =>
        Linked(m, "payout_settlement") = {Posted("payout_settlement", m, "frozen", "custody")}
  BY <1>1 DEF Books, Linked, Posted
<1>. QED BY <1>2, <1>3, <1>4, <1>5, <1>6

\* Every reference of a payout is of the type its status calls for and leads to its posting.
LEMMA LinkIsKept ==
  ASSUME TypeOK, BooksAgree, NEW p \in Payouts, NEW link \in Links(p), link.type # None
  PROVE /\ link.type = ExpectedType(p, link.kind)
        /\ \E debit, credit :
             /\ ExpectedLines(link.kind) = <<debit, credit>>
             /\ Linked(p, link.type) = {Posted(link.type, p, debit, credit)}
<1>1. transfer[p] \in Row /\ References(transfer[p])
  BY DEF TypeOK, Transfers, References
<1>2. CASE link = [kind |-> "freeze", type |-> transfer[p].freeze]
  <2>1. link.type = "payout_freeze" /\ link.kind = "freeze" /\ p \in With(Statuses \ {"none"})
    BY <1>1, <1>2 DEF Row, References, With
  <2>2. ExpectedType(p, link.kind) = "payout_freeze"
        /\ ExpectedLines(link.kind) = <<"available", "frozen">>
    BY <2>1 DEF ExpectedType, ExpectedLines
  <2>3. Linked(p, link.type) = {Posted(link.type, p, "available", "frozen")}
    BY <2>1, LinkedIs
  <2>. QED BY <2>1, <2>2, <2>3
<1>3. CASE link = [kind |-> "release", type |-> transfer[p].release]
  <2>1. transfer[p].status \in {"rejected", "failed"} /\ link.kind = "release"
    BY <1>1, <1>3 DEF References
  <2>2. ExpectedLines(link.kind) = <<"frozen", "available">>
    BY <2>1 DEF ExpectedLines
  <2>3. CASE transfer[p].status = "rejected"
    <3>1. link.type = "payout_unfreeze" /\ p \in With({"rejected"})
      BY <1>3, <2>3 DEF BooksAgree, With
    <3>2. ExpectedType(p, link.kind) = "payout_unfreeze"
      BY <2>1, <2>3 DEF ExpectedType
    <3>3. Linked(p, link.type) = {Posted(link.type, p, "frozen", "available")}
      BY <3>1, LinkedIs
    <3>. QED BY <2>2, <3>1, <3>2, <3>3
  <2>4. CASE transfer[p].status = "failed"
    <3>1. link.type = "payout_failure_release" /\ p \in With({"failed"})
      BY <1>3, <2>4 DEF BooksAgree, With
    <3>2. ExpectedType(p, link.kind) = "payout_failure_release"
      BY <2>1, <2>4 DEF ExpectedType
    <3>3. Linked(p, link.type) = {Posted(link.type, p, "frozen", "available")}
      BY <3>1, LinkedIs
    <3>. QED BY <2>2, <3>1, <3>2, <3>3
  <2>. QED BY <2>1, <2>3, <2>4
<1>4. CASE link = [kind |-> "settlement", type |-> transfer[p].settlement]
  <2>1. /\ link.type = "payout_settlement" /\ link.kind = "settlement"
        /\ p \in With({"succeeded"}) /\ transfer[p].status = "succeeded"
    BY <1>1, <1>4 DEF Row, References, With
  <2>2. /\ ExpectedType(p, link.kind) = "payout_settlement"
        /\ ExpectedLines(link.kind) = <<"frozen", "custody">>
    BY <2>1 DEF ExpectedType, ExpectedLines
  <2>3. Linked(p, link.type) = {Posted(link.type, p, "frozen", "custody")}
    BY <2>1, LinkedIs
  <2>. QED BY <2>1, <2>2, <2>3
<1>. QED BY <1>2, <1>3, <1>4 DEF Links

\* The detectors of the ledger find nothing, and the frozen money is that of the payouts under way.
LEMMA Quiet ==
  ASSUME TypeOK, Finite, BooksAgree, SumsAgree
  PROVE LedgerIsQuiet
<1>1. DepositFindings = {}
  <2>. SUFFICES ASSUME NEW d \in credited
                PROVE /\ Linked(d, "deposit") # {}
                      /\ \A j \in Linked(d, "deposit") :
                           <<j.debit, j.credit, j.amount>> = <<"custody", "available", Amount[d]>>
    BY DEF DepositFindings
  <2>1. Linked(d, "deposit") = {Posted("deposit", d, "custody", "available")}
    BY LinkedIs
  <2>2. /\ Posted("deposit", d, "custody", "available").debit = "custody"
        /\ Posted("deposit", d, "custody", "available").credit = "available"
        /\ Posted("deposit", d, "custody", "available").amount = Amount[d]
    BY DEF Posted
  <2>. QED BY <2>1, <2>2
<1>2. PayoutReferenceFindings = {}
  <2>. SUFFICES ASSUME NEW p \in Payouts, NEW link \in Links(p), link.type # None
                PROVE link.type = ExpectedType(p, link.kind) /\ Linked(p, link.type) # {}
    BY DEF PayoutReferenceFindings
  <2>. QED BY LinkIsKept
<1>3. PayoutSemanticFindings = {}
  <2>. SUFFICES ASSUME NEW p \in Payouts, NEW link \in Links(p), link.type # None
                PROVE {<<<<j.debit, j.credit>>, j.amount>> : j \in Linked(p, link.type)}
                        = {<<ExpectedLines(link.kind), Amount[p]>>}
    BY DEF PayoutSemanticFindings
  <2>1. PICK debit, credit :
          /\ ExpectedLines(link.kind) = <<debit, credit>>
          /\ Linked(p, link.type) = {Posted(link.type, p, debit, credit)}
    BY LinkIsKept
  <2>. QED BY <2>1 DEF Posted
<1>4. Ledger("frozen") = Sum(PendingWork \cap Payouts)
  <2>1. PendingWork \cap Payouts = With(Unfinished)
    BY DEF PendingWork, With, Unfinished, Transfers
  <2>2. Sum(PendingWork \cap Payouts) = SumOf(Amount, With(Unfinished))
    BY <2>1, SumIs, Zenon
  <2>3. Ledger("frozen") = LedgerIn(journal, "frozen")
    BY LedgerIs DEF TypeOK, Finite
  <2>. QED BY <2>2, <2>3 DEF SumsAgree
<1>. QED BY <1>1, <1>2, <1>3, <1>4 DEF LedgerIsQuiet, LedgerFindings

-----------------------------------------------------------------------------
(* The theorems *)

\* The invariant holds at the start and every step keeps it.
LEMMA Inductive == Spec => []IInv
<1>1. Init => IInv
  BY TypeStart, FiniteStart, BooksStart, ChainStart, CaptureStart, LatestStart DEF IInv
<1>2. IInv /\ [Next]_vars => IInv'
  BY TypeKeeps, FiniteKeeps, BooksKeep, SumsKeep, ChainKeeps, CaptureKeeps, LatestKeeps DEF IInv
<1>. QED BY <1>1, <1>2, PTL DEF Spec

\* The rows keep their types and a payout's ledger references follow its status.
THEOREM TreasuryTypeCorrect == Spec => []TypeOK
<1>1. IInv => TypeOK
  BY DEF IInv
<1>. QED BY <1>1, Inductive, PTL

\* Whatever moves between the reads of a snapshot, the difference of what it saved
\* of chain and ledger is exactly what was not credited, not settled, lost or not
\* yet seen, and every executed payout that has not ended was in flight.
THEOREM SnapshotAlwaysAddsUp == Spec => []SnapshotAddsUp
<1>1. IInv => SnapshotAddsUp
  BY DEF IInv, LatestAgrees
<1>. QED BY <1>1, Inductive, PTL

\* A reported shortfall means lost tokens, an executed payout that was released as
\* failed, or a node behind a credited deposit; a reported excess a deposit to be
\* credited or a node behind a settled payout; and an audit that passes bounds what
\* was lost or paid out unnoticed.
THEOREM VerdictAlwaysTrue == Spec => []VerdictIsTrue
<1>1. IInv => VerdictIsTrue
  BY Verdict DEF IInv
<1>. QED BY <1>1, Inductive, PTL

\* For any payouts and deposits the detectors of the ledger are silent, and the
\* frozen balance is the sum of the payouts that somebody still works on.
THEOREM LedgerAlwaysQuiet == Spec => []LedgerIsQuiet
<1>1. IInv => LedgerIsQuiet
  BY Quiet DEF IInv
<1>. QED BY <1>1, Inductive, PTL
=============================================================================

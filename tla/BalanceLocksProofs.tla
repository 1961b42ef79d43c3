------------------------- MODULE BalanceLocksProofs -------------------------
(***************************************************************************)
(* Theorems about BalanceLocks, for any number of connections, payouts and *)
(* deposits, and any amounts.                                              *)
(***************************************************************************)
EXTENDS BalanceLocks, SumTheorems

-----------------------------------------------------------------------------
(* The plans *)

LEMMA Modes ==
  ASSUME NEW r, NEW q
  PROVE  /\ Update(r).row = r /\ Update(r).mode = "update"
         /\ Share(r).row = r /\ Share(r).mode = "share"
         /\ Conflict(Update(r), Update(q)) <=> r = q
         /\ Conflict(Update(r), Share(q)) <=> r = q
         /\ ~Conflict(Share(r), Share(q))
BY DEF Update, Share, Conflict

LEMMA PlanRows ==
  ASSUME NEW x
  PROVE  /\ Plan("create", x) = <<Update("merchant"), Update("available"), Update("frozen")>>
         /\ Plan("again", x) = <<Update("merchant"), Update(x)>>
         /\ Plan("reject", x) = <<Update(x), Update("available"), Update("frozen")>>
         /\ Plan("settle", x) = <<Update(x), Update("frozen"), Update("custody")>>
         /\ Plan("release", x) = <<Update(x), Update("frozen"), Update("available")>>
         /\ Plan("credit", x) = <<Update(x), Share("custody"), Share("available")>>
BY DEF Plan

LEMMA PlanLength ==
  ASSUME NEW kind \in Kinds, NEW x
  PROVE  Len(Plan(kind, x)) = IF kind = "again" THEN 2 ELSE 3
BY PlanRows DEF Kinds

-----------------------------------------------------------------------------
(* The inductive invariant *)

HeldBy(x) ==
  IF x.kind # "none" THEN {Plan(x.kind, x.subject)[i] : i \in 1 .. x.step} ELSE {}

WellFormed(x) ==
  /\ x = [kind |-> x.kind, subject |-> x.subject, step |-> x.step, read |-> x.read]
  /\ x.kind \in Kinds \cup {"none"}
  /\ x.kind # "none" =>
       /\ x.subject \in Payouts \cup Deposits
       /\ x.step \in 0 .. Len(Plan(x.kind, x.subject))
  /\ x.read # NotRead =>
       /\ x.kind \in DOMAIN From
       /\ x.step = Len(Plan(x.kind, x.subject))

\* TypeOK but for the status and the journal.
Shape == DOMAIN session = Sessions /\ \A s \in Sessions : WellFormed(session[s])

\* No two transactions hold locks that conflict.
Exclusive ==
  \A s, u \in Sessions : s # u =>
    \A a \in Held(s), b \in Held(u) : ~Conflict(a, b)

IInv == Shape /\ Exclusive /\ CheckedBalanceStands

LEMMA HeldIs ==
  ASSUME NEW s
  PROVE  Held(s) = HeldBy(session[s])
BY DEF Held, HeldBy, Open, Locks

LEMMA IdleWellFormed ==
  WellFormed(Idle) /\ HeldBy(Idle) = {} /\ Idle.read = NotRead /\ Idle.kind = "none"
BY DEF WellFormed, HeldBy, Idle

LEMMA InitIInv == Init => IInv
<1> SUFFICES ASSUME Init PROVE IInv
  OBVIOUS
<1>1. DOMAIN session = Sessions /\ \A s \in Sessions : session[s] = Idle
  BY DEF Init
<1> QED
  BY <1>1, IdleWellFormed, HeldIs DEF IInv, Shape, Exclusive, CheckedBalanceStands

\* A transaction that has read holds the account it read for itself.
LEMMA ReaderHolds ==
  ASSUME NEW x, WellFormed(x), x.read # NotRead
  PROVE  Update(Debits[Posting[x.kind]]) \in HeldBy(x)
<1>1. x.kind \in {"create", "reject", "settle", "release"}
  BY DEF WellFormed, From
<1>2. x.step = 3 /\ x.kind # "none"
  BY <1>1, PlanLength DEF WellFormed, Kinds
<1>3. /\ Plan(x.kind, x.subject)[1] \in HeldBy(x)
      /\ Plan(x.kind, x.subject)[2] \in HeldBy(x)
      /\ Plan(x.kind, x.subject)[3] \in HeldBy(x)
  BY <1>2 DEF HeldBy
<1> QED
  BY <1>1, <1>3, PlanRows DEF Debits, Posting

\* A transaction that posts holds the accounts that its entry moves money between.
LEMMA PosterHolds ==
  ASSUME NEW x, WellFormed(x), x.kind \in DOMAIN Posting,
         x.step = Len(Plan(x.kind, x.subject))
  PROVE  /\ \E a \in HeldBy(x) : a.row = Debits[Posting[x.kind]]
         /\ \E a \in HeldBy(x) : a.row = Credits[Posting[x.kind]]
<1>1. x.kind \in {"create", "reject", "settle", "release", "credit"}
  BY DEF Posting
<1>2. x.step = 3 /\ x.kind # "none"
  BY <1>1, PlanLength DEF Kinds
<1>3. /\ Plan(x.kind, x.subject)[1] \in HeldBy(x)
      /\ Plan(x.kind, x.subject)[2] \in HeldBy(x)
      /\ Plan(x.kind, x.subject)[3] \in HeldBy(x)
  BY <1>2 DEF HeldBy
<1>4. \A r : Update(r) \in HeldBy(x) \/ Share(r) \in HeldBy(x) =>
        \E a \in HeldBy(x) : a.row = r
  BY Modes
<1>5. CASE x.kind \in {"create", "reject", "release"}
  <2>1. Update("available") \in HeldBy(x) /\ Update("frozen") \in HeldBy(x)
    BY <1>3, <1>5, PlanRows
  <2>2. /\ Debits[Posting[x.kind]] \in {"available", "frozen"}
        /\ Credits[Posting[x.kind]] \in {"available", "frozen"}
    BY <1>5 DEF Debits, Credits, Posting
  <2> QED
    BY <1>4, <2>1, <2>2
<1>6. CASE x.kind = "settle"
  <2>1. Update("frozen") \in HeldBy(x) /\ Update("custody") \in HeldBy(x)
    BY <1>3, <1>6, PlanRows
  <2>2. Debits[Posting[x.kind]] = "frozen" /\ Credits[Posting[x.kind]] = "custody"
    BY <1>6 DEF Debits, Credits, Posting
  <2> QED
    BY <1>4, <2>1, <2>2
<1>7. CASE x.kind = "credit"
  <2>1. Share("custody") \in HeldBy(x) /\ Share("available") \in HeldBy(x)
    BY <1>3, <1>7, PlanRows
  <2>2. Debits[Posting[x.kind]] = "custody" /\ Credits[Posting[x.kind]] = "available"
    BY <1>7 DEF Debits, Credits, Posting
  <2> QED
    BY <1>4, <2>1, <2>2
<1> QED
  BY <1>1, <1>5, <1>6, <1>7

\* An account whose entries stay has the same balance.
LEMMA SameEntries ==
  ASSUME NEW account,
         {e \in journal' : Credits[e.type] = account} = {e \in journal : Credits[e.type] = account},
         {e \in journal' : Debits[e.type] = account} = {e \in journal : Debits[e.type] = account}
  PROVE  Balance(account)' = Balance(account)
BY DEF Balance

-----------------------------------------------------------------------------
(* What a step may change *)

\* A step of one session that posts nothing.
LEMMA SessionKeeps ==
  ASSUME IInv, NEW s \in Sessions, NEW x, WellFormed(x),
         session' = [session EXCEPT ![s] = x], UNCHANGED journal,
         \A u \in Sessions \ {s} : \A a \in HeldBy(x), b \in Held(u) : ~Conflict(a, b),
         x.read # NotRead => x.read = Balance(Debits[Posting[x.kind]])
  PROVE  IInv'
<1>1. /\ DOMAIN session' = Sessions
      /\ \A u \in Sessions : session'[u] = IF u = s THEN x ELSE session[u]
  BY DEF IInv, Shape
<1>2. Shape'
  BY <1>1 DEF IInv, Shape
<1>3. \A u \in Sessions : Held(u)' = IF u = s THEN HeldBy(x) ELSE Held(u)
  <2> SUFFICES ASSUME NEW u \in Sessions
               PROVE  Held(u)' = IF u = s THEN HeldBy(x) ELSE Held(u)
    OBVIOUS
  <2>1. Held(u)' = HeldBy(session'[u])
    BY DEF Held, HeldBy, Open, Locks
  <2>2. Held(u) = HeldBy(session[u])
    BY HeldIs
  <2> QED
    BY <1>1, <2>1, <2>2
<1>4. \A a, b : Conflict(a, b) => Conflict(b, a)
  BY DEF Conflict
<1>5. Exclusive'
  <2> SUFFICES ASSUME NEW t \in Sessions, NEW u \in Sessions, t # u
               PROVE  \A a \in Held(t)', b \in Held(u)' : ~Conflict(a, b)
    BY DEF Exclusive
  <2> QED
    BY <1>3, <1>4 DEF IInv, Exclusive
<1>6. \A account : Balance(account)' = Balance(account)
  BY SameEntries
<1>7. CheckedBalanceStands'
  BY <1>1, <1>6 DEF IInv, CheckedBalanceStands
<1> QED
  BY <1>2, <1>5, <1>7 DEF IInv

LEMMA FinishKeeps ==
  ASSUME IInv, NEW s \in Sessions, Finish(s), UNCHANGED journal
  PROVE  IInv'
BY IdleWellFormed, SessionKeeps DEF Finish

LEMMA BeginKeeps ==
  ASSUME IInv, NEW s \in Sessions, BeginAny(s) PROVE IInv'
<1>1. PICK kind \in Kinds, subject \in Payouts \cup Deposits : Begin(s, kind, subject)
  BY DEF BeginAny, Kinds
<1>2. PICK x : x = [Idle EXCEPT !.kind = kind, !.subject = subject]
  OBVIOUS
<1>3. /\ x = [kind |-> kind, subject |-> subject, step |-> 0, read |-> NotRead]
  BY <1>2 DEF Idle
<1>4. WellFormed(x) /\ x.read = NotRead
  BY <1>3, PlanLength DEF WellFormed
<1>5. HeldBy(x) = {}
  BY <1>3 DEF HeldBy
<1> QED
  BY <1>1, <1>2, <1>4, <1>5, SessionKeeps DEF Begin

LEMMA LockKeeps ==
  ASSUME IInv, NEW s \in Sessions, Lock(s) PROVE IInv'
<1>1. PICK y : y = session[s]
  OBVIOUS
<1>2. /\ WellFormed(y) /\ y.kind \in Kinds /\ y.step \in Nat
      /\ y.step # Len(Plan(y.kind, y.subject))
      /\ y.step <= Len(Plan(y.kind, y.subject))
      /\ Len(Plan(y.kind, y.subject)) \in Nat
  BY <1>1, PlanLength DEF Lock, Waiting, Ready, Open, Locks, IInv, Shape, WellFormed
<1>3. PICK x : x = [y EXCEPT !.step = y.step + 1]
  OBVIOUS
<1>4. x = [kind |-> y.kind, subject |-> y.subject, step |-> y.step + 1, read |-> y.read]
  BY <1>2, <1>3 DEF WellFormed
<1>5. WellFormed(x) /\ x.read = NotRead
  BY <1>2, <1>4 DEF WellFormed
<1>6. session' = [session EXCEPT ![s] = x] /\ UNCHANGED journal
  BY <1>1, <1>3 DEF Lock
<1>7. \A a \in HeldBy(x) : a \in HeldBy(y) \/ a = Wanted(s)
  BY <1>1, <1>2, <1>4 DEF HeldBy, Wanted, Locks
<1>8. \A u \in Sessions \ {s} : \A b \in Held(u) : ~Conflict(b, Wanted(s))
  BY DEF Lock, WaitsFor
<1>9. \A a, b : Conflict(a, b) => Conflict(b, a)
  BY DEF Conflict
<1>10. \A u \in Sessions \ {s} : \A a \in HeldBy(x), b \in Held(u) : ~Conflict(a, b)
  BY <1>1, <1>7, <1>8, <1>9, HeldIs DEF IInv, Exclusive
<1> QED
  BY <1>5, <1>6, <1>10, SessionKeeps

LEMMA ReadKeeps ==
  ASSUME IInv, NEW s \in Sessions, ReadBalance(s) PROVE IInv'
<1>1. PICK y : y = session[s]
  OBVIOUS
<1>2. /\ WellFormed(y) /\ y.kind \in DOMAIN From
      /\ y.step = Len(Plan(y.kind, y.subject))
  BY <1>1 DEF ReadBalance, Ready, Checks, Locks, IInv, Shape
<1>3. PICK read : read = Balance(Debits[Posting[y.kind]])
  OBVIOUS
<1>4. PICK x : x = [y EXCEPT !.read = read]
  OBVIOUS
<1>5. x = [kind |-> y.kind, subject |-> y.subject, step |-> y.step, read |-> read]
  BY <1>2, <1>4 DEF WellFormed
<1>6. WellFormed(x) /\ HeldBy(x) = Held(s)
  BY <1>1, <1>2, <1>5, HeldIs DEF WellFormed, HeldBy
<1>7. session' = [session EXCEPT ![s] = x] /\ UNCHANGED journal
  BY <1>1, <1>3, <1>4 DEF ReadBalance
<1>8. \A u \in Sessions \ {s} : \A a \in HeldBy(x), b \in Held(u) : ~Conflict(a, b)
  BY <1>6 DEF IInv, Exclusive
<1> QED
  BY <1>3, <1>5, <1>6, <1>7, <1>8, SessionKeeps

\* An entry is posted under locks on both its accounts, so no balance that another
\* transaction has read is of one of them.
LEMMA PostKeeps ==
  ASSUME IInv, NEW s \in Sessions, Ready(s), session[s].kind \in DOMAIN Posting,
         Finish(s),
         journal' = journal \cup {Entry(Posting[session[s].kind], session[s].subject)}
  PROVE  IInv'
<1>1. PICK kind, subject : kind = session[s].kind /\ subject = session[s].subject
  OBVIOUS
<1>2. /\ \E a \in Held(s) : a.row = Debits[Posting[kind]]
      /\ \E a \in Held(s) : a.row = Credits[Posting[kind]]
  BY <1>1, PosterHolds, HeldIs DEF Ready, Locks, IInv, Shape
<1>3. ASSUME NEW u \in Sessions, u # s, session[u].read # NotRead
      PROVE  session[u].read = Balance(Debits[Posting[session[u].kind]])'
  <2>1. PICK account : account = Debits[Posting[session[u].kind]]
    OBVIOUS
  <2>2. Update(account) \in Held(u)
    BY <1>3, <2>1, ReaderHolds, HeldIs DEF IInv, Shape
  <2>3. \A a \in Held(s) : a.row # account
    BY <1>3, <2>2, Modes DEF IInv, Exclusive, Conflict
  <2>4. account # Debits[Posting[kind]] /\ account # Credits[Posting[kind]]
    BY <1>2, <2>3
  <2>5. /\ journal' = journal \cup {Entry(Posting[kind], subject)}
        /\ Entry(Posting[kind], subject).type = Posting[kind]
    BY <1>1 DEF Entry
  <2>6. Balance(account)' = Balance(account)
    BY <2>4, <2>5, SameEntries
  <2>7. session[u].read = Balance(account)
    BY <1>3, <2>1 DEF IInv, CheckedBalanceStands
  <2>8. session'[u] = session[u]
    BY <1>3 DEF Finish, IInv, Shape
  <2> QED
    BY <2>1, <2>6, <2>7, <2>8
<1>4. /\ DOMAIN session' = Sessions
      /\ \A u \in Sessions : session'[u] = IF u = s THEN Idle ELSE session[u]
  BY DEF Finish, IInv, Shape
<1>5. Shape'
  BY <1>4, IdleWellFormed DEF IInv, Shape
<1>6. Exclusive'
  <2>1. \A u \in Sessions : Held(u)' = IF u = s THEN {} ELSE Held(u)
    BY <1>4, IdleWellFormed DEF Held, Open, Locks
  <2> QED
    BY <2>1 DEF IInv, Exclusive
<1>7. CheckedBalanceStands'
  BY <1>3, <1>4, IdleWellFormed DEF CheckedBalanceStands
<1> QED
  BY <1>5, <1>6, <1>7 DEF IInv

LEMMA CommitKeeps ==
  ASSUME IInv, NEW s \in Sessions, Commit(s) PROVE IInv'
<1>1. CASE Post(s)
  <2>1. session[s].kind \in DOMAIN Posting
    BY <1>1 DEF Post, Checks, From, Posting
  <2> QED
    BY <1>1, <2>1, PostKeeps DEF Commit, Post
<1>2. CASE session[s].kind = "credit" /\ ~Post(s)
  <2>1. session[s].kind \in DOMAIN Posting /\ Posting[session[s].kind] = "deposit"
    BY <1>2 DEF Posting
  <2> QED
    BY <1>2, <2>1, PostKeeps DEF Commit
<1>3. CASE UNCHANGED journal
  BY <1>3, FinishKeeps DEF Commit
<1> QED
  BY <1>1, <1>2, <1>3 DEF Commit

LEMMA NextIInv == IInv /\ [Next]_vars => IInv'
<1> SUFFICES ASSUME IInv, [Next]_vars PROVE IInv'
  OBVIOUS
<1>1. ASSUME NEW s \in Sessions, BeginAny(s) \/ LockStep(s) \/ PostStep(s) PROVE IInv'
  BY <1>1, BeginKeeps, LockKeeps, ReadKeeps, CommitKeeps, FinishKeeps
     DEF LockStep, PostStep, Refuse
<1>2. ASSUME NEW s \in Sessions, Rollback(s) PROVE IInv'
  BY <1>2, FinishKeeps DEF Rollback
<1>3. ASSUME NEW C \in SUBSET Sessions, AbortDeadlocked(C) PROVE IInv'
  BY <1>2, <1>3 DEF AbortDeadlocked
<1>4. ASSUME UNCHANGED <<session, journal>> PROVE IInv'
  <2>1. \A account : Balance(account)' = Balance(account)
    BY <1>4, SameEntries
  <2> QED
    BY <1>4, <2>1 DEF IInv, Shape, Exclusive, CheckedBalanceStands, Held, Open, Locks
<1>5. ASSUME NEW p \in Payouts, Approve(p) PROVE IInv'
  BY <1>4, <1>5 DEF Approve
<1>6. CASE UNCHANGED vars
  BY <1>4, <1>6 DEF vars
<1> QED
  BY <1>1, <1>2, <1>3, <1>5, <1>6 DEF Next

LEMMA Invariant == Spec => []IInv
BY InitIInv, NextIInv, PTL DEF Spec

-----------------------------------------------------------------------------
(* The theorems *)

\* A transaction spends the balance it has checked: until it commits nobody posts
\* to that account, whatever the other connections do.
THEOREM CheckedBalanceStandsAlways == Spec => []CheckedBalanceStands
<1>1. IInv => CheckedBalanceStands
  BY DEF IInv
<1> QED
  BY <1>1, Invariant, PTL

-----------------------------------------------------------------------------
(* Deadlocks *)

Subjects == Payouts \cup Deposits

\* What a transaction that finalizes no payout holds and wants while it waits: the
\* merchant comes before a payout or intent, that before available, frozen is last,
\* and custody is only shared.
LEMMA WaitsInOrder ==
  ASSUME Shape, NEW s \in Sessions, Waiting(s),
         session[s].kind \notin {"settle", "release"}
  PROVE  /\ Wanted(s).row \in {"merchant", "available", "frozen", "custody"} \cup Subjects
         /\ Wanted(s).row = "custody" => Wanted(s).mode = "share"
         /\ \A a \in Held(s) :
              /\ a.row # "frozen"
              /\ a.row = "available" => Wanted(s).row = "frozen"
              /\ a.row = "custody" => a.mode = "share"
              /\ a.row \in Subjects => Wanted(s).row \in {"available", "frozen", "custody"}
              /\ a.row = "merchant" => Wanted(s).row # "merchant"
<1>1. PICK kind, x, step :
        kind = session[s].kind /\ x = session[s].subject /\ step = session[s].step
  OBVIOUS
<1>2. /\ kind \in {"create", "again", "reject", "credit"} /\ x \in Subjects
      /\ step \in 0 .. Len(Plan(kind, x)) /\ step # Len(Plan(kind, x))
  BY <1>1 DEF Shape, WellFormed, Waiting, Open, Ready, Locks, Kinds, Subjects
<1>3. /\ Wanted(s) = Plan(kind, x)[step + 1]
      /\ Held(s) = {Plan(kind, x)[i] : i \in 1 .. step}
  BY <1>1, <1>2 DEF Wanted, Held, Locks, Open
<1>4. step \in {0, 1, 2} /\ (kind = "again" => step \in {0, 1})
  <2>1. Len(Plan(kind, x)) = IF kind = "again" THEN 2 ELSE 3
    BY <1>2, PlanLength DEF Kinds
  <2> QED
    BY <1>2, <2>1
<1>5. Subjects \cap {"merchant", "available", "frozen", "custody"} = {}
  BY SubjectsAssumption DEF Subjects
<1>6. \A a \in Held(s) :
        \/ step \in {1, 2} /\ a = Plan(kind, x)[1]
        \/ step = 2 /\ a = Plan(kind, x)[2]
  BY <1>3, <1>4
<1>7. CASE kind = "create"
  <2>1. /\ Wanted(s).row = IF step = 0 THEN "merchant" ELSE IF step = 1 THEN "available" ELSE "frozen"
        /\ \A a \in Held(s) : a.row = "merchant" \/ a.row = "available"
        /\ \A a \in Held(s) : a.row = "available" => step = 2
        /\ \A a \in Held(s) : step \in {1, 2}
    BY <1>3, <1>4, <1>6, <1>7, PlanRows DEF Update
  <2> QED
    BY <1>2, <1>4, <1>5, <2>1
<1>8. CASE kind = "again"
  <2>1. /\ Wanted(s).row = IF step = 0 THEN "merchant" ELSE x
        /\ \A a \in Held(s) : a.row = "merchant" /\ step = 1
    BY <1>3, <1>4, <1>6, <1>8, PlanRows DEF Update
  <2> QED
    BY <1>2, <1>4, <1>5, <2>1
<1>9. CASE kind = "reject"
  <2>1. /\ Wanted(s).row = IF step = 0 THEN x ELSE IF step = 1 THEN "available" ELSE "frozen"
        /\ \A a \in Held(s) : a.row = x \/ a.row = "available"
        /\ \A a \in Held(s) : a.row = "available" => step = 2
        /\ \A a \in Held(s) : step \in {1, 2}
    BY <1>2, <1>3, <1>4, <1>5, <1>6, <1>9, PlanRows DEF Update
  <2> QED
    BY <1>2, <1>4, <1>5, <2>1
<1>10. CASE kind = "credit"
  <2>1. /\ Wanted(s).row = IF step = 0 THEN x ELSE IF step = 1 THEN "custody" ELSE "available"
        /\ step # 0 => Wanted(s).mode = "share"
        /\ \A a \in Held(s) : a.row = x \/ (a.row = "custody" /\ a.mode = "share")
        /\ \A a \in Held(s) : step \in {1, 2}
    BY <1>3, <1>4, <1>6, <1>10, PlanRows DEF Update, Share
  <2> QED
    BY <1>2, <1>4, <1>5, <2>1
<1> QED
  BY <1>2, <1>7, <1>8, <1>9, <1>10

\* A ring of waiting transactions of any size contains one that finalizes a payout.
THEOREM DeadlockNeedsFinalizationAlways == Spec => []DeadlockNeedsFinalization
<1>1. ASSUME IInv PROVE DeadlockNeedsFinalization
  <2> SUFFICES ASSUME NEW C \in SUBSET Sessions, Cycle(C),
                      \A s \in C : session[s].kind \notin {"settle", "release"}
               PROVE  FALSE
    BY DEF DeadlockNeedsFinalization
  <2>1. \A s \in C : Waiting(s) /\ \E u \in C : \E a \in Held(u) : Conflict(a, Wanted(s))
    BY DEF Cycle, WaitsFor
  <2>2. \A s \in C :
          /\ Wanted(s).row \in {"merchant", "available", "frozen", "custody"} \cup Subjects
          /\ Wanted(s).row = "custody" => Wanted(s).mode = "share"
          /\ \A a \in Held(s) :
               /\ a.row # "frozen"
               /\ a.row = "available" => Wanted(s).row = "frozen"
               /\ a.row = "custody" => a.mode = "share"
               /\ a.row \in Subjects => Wanted(s).row \in {"available", "frozen", "custody"}
               /\ a.row = "merchant" => Wanted(s).row # "merchant"
    BY <1>1, <2>1, WaitsInOrder DEF IInv
  <2>3. \A s \in C : Wanted(s).row # "frozen"
    BY <2>1, <2>2 DEF Conflict
  <2>4. \A s \in C : Wanted(s).row # "available"
    BY <2>1, <2>2, <2>3 DEF Conflict
  <2>5. \A s \in C : Wanted(s).row # "custody"
    BY <2>1, <2>2 DEF Conflict
  <2>6. \A s \in C : Wanted(s).row \notin Subjects
    BY <2>1, <2>2, <2>3, <2>4, <2>5 DEF Conflict
  <2>7. \A s \in C : Wanted(s).row = "merchant"
    BY <2>2, <2>3, <2>4, <2>5, <2>6
  <2>8. \A s \in C : FALSE
    BY <2>1, <2>2, <2>7 DEF Conflict
  <2> QED
    BY <2>8 DEF Cycle
<1> QED
  BY <1>1, Invariant, PTL

-----------------------------------------------------------------------------
(***************************************************************************)
(* The refinement.  A transaction posts what MerchantBalance does in one   *)
(* step: what its first statement found is still so when it commits        *)
(* (StillExpected, by the lock of that statement), the balance is what it  *)
(* read (CheckedBalanceStands), and the entry is new (EntriesTold), so     *)
(* that the balances move by its amount.                                   *)
(***************************************************************************)

Entries == [type : DOMAIN Debits, subject : Payouts \cup Deposits]
Worth == [e \in Entries |-> Amount[e.subject]]

Tables ==
  /\ status \in [Payouts -> Statuses]
  /\ journal \subseteq Entries /\ IsFiniteSet(journal)

\* The status of a payout tells which of its entries may have been posted.
EntriesTold ==
  \A p \in Payouts :
    /\ Entry("payout_freeze", p) \in journal => status[p] # "absent"
    /\ Entry("payout_unfreeze", p) \in journal => status[p] = "rejected"
    /\ Entry("payout_settlement", p) \in journal => status[p] = "succeeded"
    /\ Entry("payout_failure_release", p) \in journal => status[p] = "failed"

SubjectsFit ==
  \A s \in Sessions : Open(s) =>
    session[s].subject \in IF session[s].kind = "credit" THEN Deposits ELSE Payouts

Begun(s) == Open(s) /\ session[s].step > 0 /\ session[s].kind # "again"
StillExpected == \A s \in Sessions : Begun(s) => Expected(s)

MoneyInv == IInv /\ Tables /\ EntriesTold /\ SubjectsFit /\ StillExpected

\* What the statement with the first lock finds, kind by kind.
LEMMA ExpectedIs ==
  ASSUME NEW s
  PROVE  LET x == session[s].subject IN
         /\ session[s].kind = "credit" =>
              (Expected(s) <=> Entry("deposit", x) \notin journal)
         /\ session[s].kind = "create" => (Expected(s) <=> status[x] = "absent")
         /\ session[s].kind = "reject" => (Expected(s) <=> status[x] = "pending_review")
         /\ session[s].kind \in {"settle", "release"} =>
              (Expected(s) <=> status[x] = "confirming")
BY DEF Expected, From

\* The lock of that statement.
LEMMA FirstLock ==
  ASSUME IInv, NEW s \in Sessions, Begun(s)
  PROVE  /\ session[s].kind \in {"create", "reject", "settle", "release", "credit"}
         /\ session[s].kind = "create" => Update("merchant") \in Held(s)
         /\ session[s].kind # "create" => Update(session[s].subject) \in Held(s)
<1>1. /\ WellFormed(session[s]) /\ session[s].kind # "none"
      /\ session[s].kind # "again" /\ session[s].step > 0
  BY DEF IInv, Shape, Begun, Open
<1>2. session[s].kind \in {"create", "reject", "settle", "release", "credit"}
  BY <1>1 DEF WellFormed, Kinds
<1>3. session[s].step \in Nat
  BY <1>1, <1>2, PlanLength DEF WellFormed, Kinds
<1>4. Plan(session[s].kind, session[s].subject)[1] \in Held(s)
  BY <1>1, <1>3, HeldIs DEF HeldBy
<1> QED
  BY <1>2, <1>4, PlanRows

\* Two transactions that have begun and expect one thing of one subject are one.
LEMMA ExpectedOfOne ==
  ASSUME MoneyInv, NEW s \in Sessions, Begun(s), NEW u \in Sessions, Begun(u), u # s,
         session[s].subject = session[u].subject
  PROVE  /\ session[s].kind = "create" <=> session[u].kind # "create"
         /\ session[u].kind = "credit" <=> session[s].kind = "credit"
<1>1. \A a \in Held(s), b \in Held(u) : ~Conflict(a, b)
  BY DEF MoneyInv, IInv, Exclusive
<1>2. ~(session[s].kind = "create" /\ session[u].kind = "create")
  BY <1>1, FirstLock, Modes DEF MoneyInv
<1>3. ~(session[s].kind # "create" /\ session[u].kind # "create")
  BY <1>1, FirstLock, Modes DEF MoneyInv
<1>4. session[u].kind = "credit" <=> session[s].kind = "credit"
  BY SubjectsAssumption DEF MoneyInv, SubjectsFit, Begun
<1> QED
  BY <1>2, <1>3, <1>4

LEMMA InitMoney == Init => MoneyInv
<1> SUFFICES ASSUME Init PROVE MoneyInv
  OBVIOUS
<1>1. Tables /\ EntriesTold
  BY FS_EmptySet DEF Init, Tables, EntriesTold, Statuses
<1>2. SubjectsFit /\ StillExpected
  BY IdleWellFormed DEF Init, SubjectsFit, StillExpected, Begun, Open
<1> QED
  BY <1>1, <1>2, InitIInv DEF MoneyInv

-----------------------------------------------------------------------------
(* The invariant of the tables *)

\* A step of one session that posts nothing.
LEMMA SessionMoney ==
  ASSUME MoneyInv, IInv', NEW s \in Sessions, NEW x,
         session' = [session EXCEPT ![s] = x], UNCHANGED <<status, journal>>,
         x.kind # "none" =>
           x.subject \in IF x.kind = "credit" THEN Deposits ELSE Payouts,
         Begun(s)' => Expected(s)'
  PROVE  MoneyInv'
<1>1. \A u \in Sessions : session'[u] = IF u = s THEN x ELSE session[u]
  BY DEF MoneyInv, IInv, Shape
<1>2. Tables' /\ EntriesTold'
  BY DEF MoneyInv, Tables, EntriesTold
<1>3. SubjectsFit'
  BY <1>1 DEF MoneyInv, SubjectsFit, Open
<1>4. ASSUME NEW u \in Sessions, u # s, Begun(u)' PROVE Expected(u)'
  <2>1. session'[u] = session[u]
    BY <1>1, <1>4
  <2>2. Begun(u)
    BY <1>4, <2>1 DEF Begun, Open
  <2>3. Expected(u)
    BY <1>4, <2>2 DEF MoneyInv, StillExpected
  <2> QED
    BY <2>1, <2>3 DEF Expected
<1>5. StillExpected'
  BY <1>4 DEF StillExpected
<1> QED
  BY <1>2, <1>3, <1>5 DEF MoneyInv

LEMMA FinishMoney ==
  ASSUME MoneyInv, IInv', NEW s \in Sessions, Finish(s), UNCHANGED <<status, journal>>
  PROVE  MoneyInv'
<1>1. ~Begun(s)'
  BY IdleWellFormed DEF Finish, Begun, Open, MoneyInv, IInv, Shape
<1> QED
  BY <1>1, IdleWellFormed, SessionMoney DEF Finish

LEMMA BeginMoney ==
  ASSUME MoneyInv, IInv', NEW s \in Sessions, BeginAny(s) PROVE MoneyInv'
<1>1. PICK kind \in Kinds, subject \in Payouts \cup Deposits :
        /\ Begin(s, kind, subject)
        /\ subject \in IF kind = "credit" THEN Deposits ELSE Payouts
  BY DEF BeginAny, Kinds
<1>2. PICK x : x = [Idle EXCEPT !.kind = kind, !.subject = subject]
  OBVIOUS
<1>3. x = [kind |-> kind, subject |-> subject, step |-> 0, read |-> NotRead]
  BY <1>2 DEF Idle
<1>4. session' = [session EXCEPT ![s] = x] /\ UNCHANGED <<status, journal>>
  BY <1>1, <1>2 DEF Begin
<1>5. ~Begun(s)'
  BY <1>3, <1>4 DEF Begun, MoneyInv, IInv, Shape
<1> QED
  BY <1>1, <1>3, <1>4, <1>5, SessionMoney

LEMMA LockMoney ==
  ASSUME MoneyInv, IInv', NEW s \in Sessions, Lock(s) PROVE MoneyInv'
<1>1. PICK y : y = session[s]
  OBVIOUS
<1>2. PICK x : x = [y EXCEPT !.step = y.step + 1]
  OBVIOUS
<1>3. WellFormed(y) /\ y.kind # "none"
  BY <1>1 DEF Lock, Waiting, Open, MoneyInv, IInv, Shape
<1>4. x = [kind |-> y.kind, subject |-> y.subject, step |-> y.step + 1, read |-> y.read]
  BY <1>2, <1>3 DEF WellFormed
<1>5. session' = [session EXCEPT ![s] = x] /\ UNCHANGED <<status, journal>>
  BY <1>1, <1>2 DEF Lock
<1>6. y.step \in Nat
  BY <1>3, PlanLength DEF WellFormed
<1>7. ASSUME y.kind # "again" PROVE Expected(s)
  <2>1. CASE y.step = 0
    BY <1>1, <2>1 DEF Lock
  <2>2. CASE y.step # 0
    BY <1>1, <1>3, <1>6, <1>7, <2>2 DEF MoneyInv, StillExpected, Begun, Open
  <2> QED
    BY <2>1, <2>2
<1>8. session'[s] = x
  BY <1>5 DEF MoneyInv, IInv, Shape
<1>9. Begun(s)' => Expected(s)'
  BY <1>1, <1>4, <1>5, <1>7, <1>8 DEF Begun, Expected
<1>10. x.subject \in IF x.kind = "credit" THEN Deposits ELSE Payouts
  BY <1>1, <1>3, <1>4 DEF MoneyInv, SubjectsFit, Open
<1> QED
  BY <1>5, <1>9, <1>10, SessionMoney

LEMMA ReadMoney ==
  ASSUME MoneyInv, IInv', NEW s \in Sessions, ReadBalance(s) PROVE MoneyInv'
<1>1. PICK y : y = session[s]
  OBVIOUS
<1>2. PICK read : read = Balance(Debits[Posting[y.kind]])
  OBVIOUS
<1>3. PICK x : x = [y EXCEPT !.read = read]
  OBVIOUS
<1>4. WellFormed(y)
  BY <1>1 DEF MoneyInv, IInv, Shape
<1>5. x = [kind |-> y.kind, subject |-> y.subject, step |-> y.step, read |-> read]
  BY <1>3, <1>4 DEF WellFormed
<1>6. session' = [session EXCEPT ![s] = x] /\ UNCHANGED <<status, journal>>
  BY <1>1, <1>2, <1>3 DEF ReadBalance
<1>7. session'[s] = x
  BY <1>6 DEF MoneyInv, IInv, Shape
<1>8. Begun(s)' => Expected(s)'
  BY <1>1, <1>5, <1>6, <1>7 DEF MoneyInv, StillExpected, Begun, Open, Expected
<1>9. x.kind # "none" => x.subject \in IF x.kind = "credit" THEN Deposits ELSE Payouts
  BY <1>1, <1>5 DEF MoneyInv, SubjectsFit, Open
<1> QED
  BY <1>6, <1>8, <1>9, SessionMoney

\* The posting of a transaction, and the status it leads to.
Posts(s) ==
  LET kind == session[s].kind
      x == session[s].subject
  IN /\ Ready(s) /\ Begun(s) /\ Expected(s) /\ Finish(s)
     /\ journal' = journal \cup {Entry(Posting[kind], x)}
     /\ IF kind = "credit" THEN UNCHANGED status
        ELSE /\ status' = [status EXCEPT ![x] = To[kind]]
             /\ session[s].read >= Amount[x] /\ session[s].read # NotRead

LEMMA CommitPosts ==
  ASSUME MoneyInv, NEW s \in Sessions, Commit(s)
  PROVE  Posts(s) \/ (Finish(s) /\ UNCHANGED <<status, journal>>)
<1> SUFFICES ASSUME ~(Finish(s) /\ UNCHANGED <<status, journal>>) PROVE Posts(s)
  OBVIOUS
<1>1. session[s].kind \in {"create", "reject", "settle", "release", "credit"}
  BY DEF Commit, Post, Checks, From
<1>2. Begun(s) /\ Expected(s)
  <2>1. session[s].step = Len(Plan(session[s].kind, session[s].subject))
    BY DEF Commit, Ready, Locks
  <2>2. session[s].step = 3
    BY <1>1, <2>1, PlanLength DEF Kinds
  <2>3. Begun(s)
    BY <1>1, <2>2 DEF Begun, Open
  <2> QED
    BY <2>3 DEF MoneyInv, StillExpected
<1>3. CASE session[s].kind = "credit"
  BY <1>2, <1>3 DEF Commit, Post, Checks, From, Posts, Posting
<1>4. CASE session[s].kind # "credit"
  <2>1. Post(s)
    BY <1>1, <1>4 DEF Commit
  <2>2. Amount[session[s].subject] \in Nat
    BY <1>4, <1>2, AmountAssumption DEF MoneyInv, SubjectsFit, Begun
  <2>3. session[s].read # NotRead
    BY <2>1, <2>2 DEF Post, NotRead
  <2> QED
    BY <1>2, <1>4, <2>1, <2>3 DEF Commit, Post, Posts
<1> QED
  BY <1>3, <1>4

LEMMA EntryIs ==
  ASSUME NEW t, NEW x
  PROVE  /\ Entry(t, x).type = t /\ Entry(t, x).subject = x
         /\ \A v, y : (Entry(t, x) = Entry(v, y)) <=> (t = v /\ x = y)
BY DEF Entry

\* A posting and what it does to the status, kind by kind.
LEMMA PostingIs ==
  ASSUME MoneyInv, NEW s \in Sessions, Posts(s),
         NEW kind, kind = session[s].kind, NEW x, x = session[s].subject
  PROVE  /\ kind = "credit" => x \in Deposits /\ Entry("deposit", x) \notin journal
         /\ kind # "credit" => x \in Payouts /\ status[x] = From[kind]
         /\ kind \in {"create", "reject", "settle", "release", "credit"}
         /\ Entry(Posting[kind], x) \in Entries
         /\ Entry(Posting[kind], x) \notin journal
<1>1. kind \in {"create", "reject", "settle", "release", "credit"}
  BY FirstLock DEF Posts, MoneyInv
<1>2. x \in IF kind = "credit" THEN Deposits ELSE Payouts
  BY DEF Posts, Begun, MoneyInv, SubjectsFit
<1>3. kind = "credit" => Entry("deposit", x) \notin journal
  BY ExpectedIs DEF Posts
<1>4. kind # "credit" => status[x] = From[kind]
  BY <1>1, ExpectedIs DEF Posts, From
<1>5. Entry(Posting[kind], x) \in Entries
  BY <1>1, <1>2 DEF Entry, Entries, Posting, Debits
<1>6. Entry(Posting[kind], x) \notin journal
  BY <1>1, <1>2, <1>3, <1>4 DEF Posting, From, MoneyInv, EntriesTold
<1> QED
  BY <1>1, <1>2, <1>3, <1>4, <1>5, <1>6

LEMMA PostsMoney ==
  ASSUME MoneyInv, IInv', NEW s \in Sessions, Posts(s) PROVE MoneyInv'
<1>1. PICK kind, x : kind = session[s].kind /\ x = session[s].subject
  OBVIOUS
<1>2. /\ kind = "credit" => x \in Deposits /\ Entry("deposit", x) \notin journal
      /\ kind # "credit" => x \in Payouts /\ status[x] = From[kind]
      /\ kind \in {"create", "reject", "settle", "release", "credit"}
      /\ Entry(Posting[kind], x) \in Entries
  BY <1>1, PostingIs
<1>3. /\ journal' = journal \cup {Entry(Posting[kind], x)}
      /\ kind = "credit" => status' = status
      /\ kind # "credit" => status' = [status EXCEPT ![x] = To[kind]]
  BY <1>1 DEF Posts
<1>4. \A u \in Sessions : session'[u] = IF u = s THEN Idle ELSE session[u]
  BY DEF Posts, Finish, MoneyInv, IInv, Shape
<1>5. Tables'
  <2>1. IsFiniteSet(journal')
    BY <1>3, FS_AddElement DEF MoneyInv, Tables
  <2>2. status' \in [Payouts -> Statuses]
    BY <1>2, <1>3 DEF MoneyInv, Tables, To, Statuses
  <2> QED
    BY <1>2, <1>3, <2>1, <2>2 DEF MoneyInv, Tables
<1>6. \A p \in Payouts : status'[p] = IF p = x /\ kind # "credit" THEN To[kind] ELSE status[p]
  BY <1>2, <1>3 DEF MoneyInv, Tables
<1>7. \A t, p : Entry(t, p) \in journal' <=>
                  Entry(t, p) \in journal \/ (t = Posting[kind] /\ p = x)
  BY <1>3, EntryIs
<1>8. EntriesTold'
  <2> SUFFICES ASSUME NEW p \in Payouts
               PROVE  /\ Entry("payout_freeze", p) \in journal' => status'[p] # "absent"
                      /\ Entry("payout_unfreeze", p) \in journal' => status'[p] = "rejected"
                      /\ Entry("payout_settlement", p) \in journal' =>
                           status'[p] = "succeeded"
                      /\ Entry("payout_failure_release", p) \in journal' =>
                           status'[p] = "failed"
    BY DEF EntriesTold
  <2>1. /\ Entry("payout_freeze", p) \in journal => status[p] # "absent"
        /\ Entry("payout_unfreeze", p) \in journal => status[p] = "rejected"
        /\ Entry("payout_settlement", p) \in journal => status[p] = "succeeded"
        /\ Entry("payout_failure_release", p) \in journal => status[p] = "failed"
    BY DEF MoneyInv, EntriesTold
  <2>2. CASE p # x
    BY <1>6, <1>7, <2>1, <2>2
  <2>3. CASE kind = "credit"
    BY <1>6, <1>7, <2>1, <2>3 DEF Posting
  <2>4. CASE p = x /\ kind # "credit"
    <3>1. status'[p] = To[kind] /\ status[p] = From[kind]
      BY <1>2, <1>6, <2>4
    <3> QED
      BY <1>2, <1>7, <2>1, <2>4, <3>1 DEF Posting, From, To
  <2> QED
    BY <2>2, <2>3, <2>4
<1>9. SubjectsFit'
  BY <1>4, IdleWellFormed DEF MoneyInv, SubjectsFit, Open
<1>10. ASSUME NEW u \in Sessions, Begun(u)' PROVE Expected(u)'
  <2>1. u # s /\ session'[u] = session[u]
    BY <1>4, <1>10, IdleWellFormed DEF Begun, Open
  <2>2. Begun(u)
    BY <1>10, <2>1 DEF Begun, Open
  <2>3. Expected(u)
    BY <2>2 DEF MoneyInv, StillExpected
  <2>4. PICK k, y : k = session[u].kind /\ y = session[u].subject
    OBVIOUS
  <2>5. /\ k \in {"create", "reject", "settle", "release", "credit"}
        /\ y \in IF k = "credit" THEN Deposits ELSE Payouts
    BY <2>2, <2>4, FirstLock DEF MoneyInv, SubjectsFit, Begun
  <2>6. CASE x # y
    <3>1. k = "credit" => Entry("deposit", y) \notin journal'
      BY <1>7, <2>3, <2>4, <2>6, ExpectedIs
    <3>2. k # "credit" => status'[y] = status[y]
      BY <1>6, <2>5, <2>6
    <3>3. k # "credit" => status[y] = From[k]
      BY <2>3, <2>4, <2>5, ExpectedIs DEF From
    <3> QED
      BY <2>1, <2>4, <2>5, <3>1, <3>2, <3>3 DEF Expected
  <2>7. CASE x = y
    <3>1. /\ kind = "create" <=> k # "create"
          /\ k = "credit" <=> kind = "credit"
      BY <1>1, <2>1, <2>2, <2>4, <2>7, ExpectedOfOne DEF Posts
    <3>2. k # "credit" => status[y] = From[k]
      BY <2>3, <2>4, <2>5, ExpectedIs DEF From
    <3> QED
      BY <1>2, <2>5, <2>7, <3>1, <3>2 DEF From
  <2> QED
    BY <2>6, <2>7
<1>11. StillExpected'
  BY <1>10 DEF StillExpected
<1> QED
  BY <1>5, <1>8, <1>9, <1>11 DEF MoneyInv

LEMMA ApproveMoney ==
  ASSUME MoneyInv, IInv', NEW p \in Payouts, Approve(p) PROVE MoneyInv'
<1>1. /\ status[p] = "pending_review" /\ UNCHANGED <<journal, session>>
      /\ \A q \in Payouts : status'[q] = IF q = p THEN "confirming" ELSE status[q]
      /\ \A s \in Sessions : Update(p) \notin Held(s)
  BY DEF Approve, MoneyInv, Tables
<1>2. Tables'
  BY <1>1 DEF Approve, MoneyInv, Tables, Statuses
<1>3. EntriesTold'
  BY <1>1 DEF MoneyInv, EntriesTold
<1>4. SubjectsFit'
  BY <1>1 DEF MoneyInv, SubjectsFit, Open
<1>5. ASSUME NEW s \in Sessions, Begun(s)' PROVE Expected(s)'
  <2>1. Begun(s) /\ session'[s] = session[s]
    BY <1>1, <1>5 DEF Begun, Open
  <2>2. Expected(s)
    BY <2>1 DEF MoneyInv, StillExpected
  <2>3. session[s].kind \in {"create", "reject", "settle", "release", "credit"}
    BY <2>1, FirstLock DEF MoneyInv
  <2>4. CASE session[s].subject # p \/ session[s].kind = "credit"
    <3>1. session[s].kind # "credit" => session[s].subject \in Payouts
      BY <2>1 DEF MoneyInv, SubjectsFit, Begun
    <3>2. session[s].kind # "credit" => status'[session[s].subject] = status[session[s].subject]
      BY <1>1, <2>4, <3>1
    <3> QED
      BY <1>1, <2>1, <2>2, <2>3, <3>2 DEF Expected
  <2>5. CASE session[s].subject = p /\ session[s].kind # "credit"
    <3>1. session[s].kind = "create"
      BY <1>1, <2>1, <2>5, FirstLock DEF MoneyInv
    <3> QED
      BY <1>1, <2>2, <2>5, <3>1, ExpectedIs
  <2> QED
    BY <2>4, <2>5
<1>6. StillExpected'
  BY <1>5 DEF StillExpected
<1> QED
  BY <1>2, <1>3, <1>4, <1>6 DEF MoneyInv

LEMMA NextMoney == MoneyInv /\ [Next]_vars => MoneyInv'
<1> SUFFICES ASSUME MoneyInv, [Next]_vars PROVE MoneyInv'
  OBVIOUS
<1>1. IInv'
  BY NextIInv DEF MoneyInv
<1>2. ASSUME NEW s \in Sessions, BeginAny(s) \/ Lock(s) \/ ReadBalance(s) PROVE MoneyInv'
  BY <1>1, <1>2, BeginMoney, LockMoney, ReadMoney
<1>3. ASSUME NEW s \in Sessions, Commit(s) PROVE MoneyInv'
  BY <1>1, <1>3, CommitPosts, PostsMoney, FinishMoney
<1>4. ASSUME NEW s \in Sessions, Refuse(s) \/ Rollback(s) PROVE MoneyInv'
  BY <1>1, <1>4, FinishMoney DEF Refuse, Rollback
<1>5. ASSUME NEW C \in SUBSET Sessions, AbortDeadlocked(C) PROVE MoneyInv'
  BY <1>4, <1>5 DEF AbortDeadlocked
<1>6. ASSUME NEW p \in Payouts, Approve(p) PROVE MoneyInv'
  BY <1>1, <1>6, ApproveMoney
<1>7. CASE UNCHANGED vars
  <2>1. Tables' /\ EntriesTold' /\ SubjectsFit'
    BY <1>7 DEF vars, MoneyInv, Tables, EntriesTold, SubjectsFit, Open
  <2>2. StillExpected'
    BY <1>7 DEF vars, MoneyInv, StillExpected, Begun, Open, Expected
  <2> QED
    BY <1>1, <2>1, <2>2 DEF MoneyInv
<1> QED
  BY <1>2, <1>3, <1>4, <1>5, <1>6, <1>7 DEF Next, LockStep, PostStep

LEMMA MoneyInvariant == Spec => []MoneyInv
BY InitMoney, NextMoney, PTL DEF Spec

-----------------------------------------------------------------------------
(* The balances *)

\* The total of a set of entries, as the model forms it, is the sum of their worth.
LEMMA TotalIsFold ==
  ASSUME NEW S, IsFiniteSet(S)
  PROVE  MapThenSumSet(EntryAmount, S) = SumOf([e \in S |-> Amount[e.subject]], S)
<1> DEFINE f == [e \in S |-> Amount[e.subject]]
           At(h, s) == IF s = {} THEN 0
                       ELSE Amount[Chosen(s).subject] + h[s \ {Chosen(s)}]
           c == CHOOSE h : h = [s \in SUBSET S |-> At(h, s)]
<1>1. MapThenSumSet(EntryAmount, S) = c[S]
  BY DEF MapThenSumSet, MapThenFoldSet, Chosen, EntryAmount
<1>2. ASSUME NEW h
      PROVE IsFold(f, h, S) <=> h = [s \in SUBSET S |-> At(h, s)]
  <2>1. \A s \in SUBSET S : FoldStep(f, h, s) = At(h, s)
    BY ChosenIn DEF FoldStep
  <2> QED
    BY <2>1 DEF IsFold
<1>3. \E h : h = [s \in SUBSET S |-> At(h, s)]
  BY <1>2, FoldExists
<1>4. IsFold(f, c, S)
  <2> HIDE DEF At, f
  <2> QED
    BY <1>2, <1>3
<1>5. SumOf(f, S) = c[S]
  <2> HIDE DEF c, f
  <2> QED
    BY <1>4, SumIsFold
<1> QED
  BY <1>1, <1>5

LEMMA TotalIsSum ==
  ASSUME NEW S \in SUBSET Entries, IsFiniteSet(S)
  PROVE  Total(S) = SumOf(Worth, S) /\ Summable(Worth, S) /\ Total(S) \in Int
<1> DEFINE f == [e \in S |-> Amount[e.subject]]
<1>1. \A e \in Entries : Worth[e] = Amount[e.subject] /\ Worth[e] \in Int
  BY AmountAssumption DEF Worth, Entries
<1>2. \A e \in S : f[e] = Worth[e]
  BY <1>1
<1>3. Summable(Worth, S)
  BY <1>1 DEF Summable
<1>4. Total(S) = SumOf(f, S)
  BY TotalIsFold DEF Total
<1> HIDE DEF f
<1>5. SumOf(f, S) = SumOf(Worth, S)
  BY <1>2, <1>3, SumSame
<1> QED
  BY <1>3, <1>4, <1>5, SumInt

\* One more entry on one side of an account.
LEMMA TotalGrows ==
  ASSUME NEW S \in SUBSET Entries, IsFiniteSet(S), NEW e \in Entries, e \notin S
  PROVE  Total(S \cup {e}) = Total(S) + Amount[e.subject]
<1>1. Worth[e] = Amount[e.subject] /\ Worth[e] \in Int
  BY AmountAssumption DEF Worth, Entries
<1>2. SumOf(Worth, S \cup {e}) = SumOf(Worth, S) + Worth[e]
  BY <1>1, TotalIsSum, SumAdd
<1>3. S \cup {e} \in SUBSET Entries /\ IsFiniteSet(S \cup {e})
  BY FS_AddElement
<1>4. Total(S \cup {e}) = SumOf(Worth, S \cup {e})
  BY <1>3, TotalIsSum
<1> QED
  BY <1>1, <1>2, <1>4, TotalIsSum

CreditsOf(account) == {e \in journal : Credits[e.type] = account}
DebitsOf(account) == {e \in journal : Debits[e.type] = account}

LEMMA BalanceIs ==
  ASSUME Tables, NEW account
  PROVE  /\ Balance(account) = Total(CreditsOf(account)) - Total(DebitsOf(account))
         /\ CreditsOf(account) \in SUBSET Entries /\ IsFiniteSet(CreditsOf(account))
         /\ DebitsOf(account) \in SUBSET Entries /\ IsFiniteSet(DebitsOf(account))
         /\ Total(CreditsOf(account)) \in Int /\ Total(DebitsOf(account)) \in Int
<1>1. /\ CreditsOf(account) \in SUBSET Entries /\ IsFiniteSet(CreditsOf(account))
      /\ DebitsOf(account) \in SUBSET Entries /\ IsFiniteSet(DebitsOf(account))
  BY FS_Subset DEF Tables, CreditsOf, DebitsOf
<1>2. Balance(account) = Total(CreditsOf(account)) - Total(DebitsOf(account))
  BY DEF Balance, CreditsOf, DebitsOf
<1> QED
  BY <1>1, <1>2, TotalIsSum

\* A side of an account after a new entry was posted.
LEMMA SideGrows ==
  ASSUME NEW S \in SUBSET Entries, IsFiniteSet(S), NEW e \in Entries, e \notin S,
         NEW T, NEW grows \in BOOLEAN, T = IF grows THEN S \cup {e} ELSE S
  PROVE  Total(T) = Total(S) + (IF grows THEN Amount[e.subject] ELSE 0)
<1>1. CASE grows
  <2>1. Total(T) = Total(S \cup {e})
    BY <1>1, Zenon
  <2> QED
    BY <1>1, <2>1, TotalGrows
<1>2. CASE ~grows
  <2>1. Total(T) = Total(S)
    BY <1>2, Zenon
  <2> QED
    BY <1>2, <2>1, TotalIsSum
<1> QED
  BY <1>1, <1>2

LEMMA BalanceMoves ==
  ASSUME Tables, Tables', NEW e \in Entries, e \notin journal,
         journal' = journal \cup {e}, NEW account
  PROVE  Balance(account)' = Balance(account)
           + (IF Credits[e.type] = account THEN Amount[e.subject] ELSE 0)
           - (IF Debits[e.type] = account THEN Amount[e.subject] ELSE 0)
<1> DEFINE up == Credits[e.type] = account
           down == Debits[e.type] = account
           amount == Amount[e.subject]
<1>1. /\ CreditsOf(account)' = IF up THEN CreditsOf(account) \cup {e} ELSE CreditsOf(account)
      /\ DebitsOf(account)' = IF down THEN DebitsOf(account) \cup {e} ELSE DebitsOf(account)
      /\ e \notin CreditsOf(account) /\ e \notin DebitsOf(account)
  BY DEF CreditsOf, DebitsOf
<1>2. /\ Balance(account) = Total(CreditsOf(account)) - Total(DebitsOf(account))
      /\ CreditsOf(account) \in SUBSET Entries /\ IsFiniteSet(CreditsOf(account))
      /\ DebitsOf(account) \in SUBSET Entries /\ IsFiniteSet(DebitsOf(account))
      /\ Total(CreditsOf(account)) \in Int /\ Total(DebitsOf(account)) \in Int
  BY BalanceIs
<1>3. Balance(account)' = Total(CreditsOf(account)') - Total(DebitsOf(account)')
  BY DEF Balance, CreditsOf, DebitsOf
<1>4. Total(CreditsOf(account)') =
        Total(CreditsOf(account)) + (IF up THEN amount ELSE 0)
  BY <1>1, <1>2, SideGrows
<1>5. Total(DebitsOf(account)') =
        Total(DebitsOf(account)) + (IF down THEN amount ELSE 0)
  BY <1>1, <1>2, SideGrows
<1>6. amount \in Int
  BY AmountAssumption DEF Entries
<1> HIDE DEF up, down, amount
<1>7. Balance(account)' = Balance(account) + (IF up THEN amount ELSE 0)
                                           - (IF down THEN amount ELSE 0)
  BY <1>2, <1>3, <1>4, <1>5, <1>6
<1> QED
  BY <1>7 DEF up, down, amount

-----------------------------------------------------------------------------
(* Every step is a step of MerchantBalance or changes nothing of it *)

CreditedDeposits == {d \in Deposits : Entry("deposit", d) \in journal}

\* What a posting does to the two balances and to the credited deposits.
LEMMA PostingMoves ==
  ASSUME MoneyInv, Tables', NEW s \in Sessions, Posts(s),
         NEW kind, kind = session[s].kind, NEW x, x = session[s].subject,
         NEW amount, amount = Amount[x]
  PROVE  /\ Balance("available")' = Balance("available")
              + (IF kind \in {"reject", "release", "credit"} THEN amount ELSE 0)
              - (IF kind = "create" THEN amount ELSE 0)
         /\ Balance("frozen")' = Balance("frozen")
              + (IF kind = "create" THEN amount ELSE 0)
              - (IF kind \in {"reject", "settle", "release"} THEN amount ELSE 0)
         /\ CreditedDeposits' =
              IF kind = "credit" THEN CreditedDeposits \cup {x} ELSE CreditedDeposits
         /\ Balance("available") \in Int /\ Balance("frozen") \in Int
         /\ amount \in Int
<1>1. PICK e : e = Entry(Posting[kind], x)
  OBVIOUS
<1>2. /\ kind \in {"create", "reject", "settle", "release", "credit"}
      /\ e \in Entries /\ e \notin journal
  BY <1>1, PostingIs
<1>3. journal' = journal \cup {e} /\ e.type = Posting[kind] /\ e.subject = x
  BY <1>1, EntryIs DEF Posts
<1>4. \A account :
        Balance(account)' = Balance(account)
          + (IF Credits[e.type] = account THEN Amount[e.subject] ELSE 0)
          - (IF Debits[e.type] = account THEN Amount[e.subject] ELSE 0)
  BY <1>2, <1>3, BalanceMoves DEF MoneyInv
<1>5. /\ Credits[Posting[kind]] = "available" <=> kind \in {"reject", "release", "credit"}
      /\ Debits[Posting[kind]] = "available" <=> kind = "create"
      /\ Credits[Posting[kind]] = "frozen" <=> kind = "create"
      /\ Debits[Posting[kind]] = "frozen" <=> kind \in {"reject", "settle", "release"}
  BY <1>2 DEF Credits, Debits, Posting
<1>6. CreditedDeposits' =
        IF kind = "credit" THEN CreditedDeposits \cup {x} ELSE CreditedDeposits
  <2>1. Posting[kind] = "deposit" <=> kind = "credit"
    BY <1>2 DEF Posting
  <2>2. kind = "credit" => x \in Deposits
    BY PostingIs
  <2>3. \A d : Entry("deposit", d) \in journal' <=>
          Entry("deposit", d) \in journal \/ (kind = "credit" /\ d = x)
    BY <1>1, <1>3, <2>1, EntryIs
  <2> QED
    BY <2>2, <2>3 DEF CreditedDeposits
<1>7. Balance("available") \in Int /\ Balance("frozen") \in Int
  BY BalanceIs DEF MoneyInv
<1>8. amount \in Int
  BY <1>2, <1>3, AmountAssumption DEF Entries
<1> QED
  BY <1>3, <1>4, <1>5, <1>6, <1>7, <1>8

\* Nothing else than a posting and an approval changes what MerchantBalance sees.
LEMMA Unseen ==
  ASSUME UNCHANGED <<status, journal>>
  PROVE  UNCHANGED Atomic!vars
<1>1. Balance("available")' = Balance("available") /\ Balance("frozen")' = Balance("frozen")
  BY SameEntries
<1> QED
  BY <1>1 DEF Atomic!vars

LEMMA PostsRefines ==
  ASSUME MoneyInv, Tables', NEW s \in Sessions, Posts(s) PROVE Atomic!Next
<1>1. PICK kind, x, amount : /\ kind = session[s].kind /\ x = session[s].subject
                             /\ amount = Amount[x]
  OBVIOUS
<1>2. /\ kind = "credit" => x \in Deposits /\ Entry("deposit", x) \notin journal
      /\ kind # "credit" => x \in Payouts /\ status[x] = From[kind]
      /\ kind \in {"create", "reject", "settle", "release", "credit"}
  BY <1>1, PostingIs
<1>3. /\ kind = "credit" => status' = status
      /\ kind # "credit" => status' = [status EXCEPT ![x] = To[kind]]
  BY <1>1 DEF Posts
<1>4. kind # "credit" => Balance(Debits[Posting[kind]]) >= amount
  BY <1>1 DEF Posts, MoneyInv, IInv, CheckedBalanceStands
<1>5. /\ Balance("available")' = Balance("available")
              + (IF kind \in {"reject", "release", "credit"} THEN amount ELSE 0)
              - (IF kind = "create" THEN amount ELSE 0)
      /\ Balance("frozen")' = Balance("frozen")
              + (IF kind = "create" THEN amount ELSE 0)
              - (IF kind \in {"reject", "settle", "release"} THEN amount ELSE 0)
      /\ CreditedDeposits' =
           IF kind = "credit" THEN CreditedDeposits \cup {x} ELSE CreditedDeposits
      /\ Balance("available") \in Int /\ Balance("frozen") \in Int /\ amount \in Int
  BY <1>1, PostingMoves
<1>6. CASE kind = "credit"
  <2>1. /\ x \notin CreditedDeposits /\ CreditedDeposits' = CreditedDeposits \cup {x}
        /\ Balance("available")' = Balance("available") + Amount[x]
        /\ Balance("frozen")' = Balance("frozen") /\ status' = status
    BY <1>1, <1>2, <1>3, <1>5, <1>6 DEF CreditedDeposits
  <2>2. Atomic!Credit(x)
    BY <2>1 DEF Atomic!Credit, CreditedDeposits
  <2> QED
    BY <1>2, <1>6, <2>2 DEF Atomic!Next
<1>7. CASE kind = "create"
  <2>1. /\ status[x] = "absent" /\ status' = [status EXCEPT ![x] = "pending_review"]
        /\ CreditedDeposits' = CreditedDeposits
        /\ Balance("available")' = Balance("available") - Amount[x]
        /\ Balance("frozen")' = Balance("frozen") + Amount[x]
        /\ Balance("available") >= Amount[x]
    BY <1>1, <1>2, <1>3, <1>4, <1>5, <1>7 DEF From, To, Debits, Posting
  <2>2. Atomic!Create(x)
    BY <2>1 DEF Atomic!Create, Atomic!Become, CreditedDeposits
  <2> QED
    BY <1>2, <1>7, <2>2 DEF Atomic!Next
<1>8. CASE kind = "reject"
  <2>1. /\ status[x] = "pending_review" /\ status' = [status EXCEPT ![x] = "rejected"]
        /\ CreditedDeposits' = CreditedDeposits
        /\ Balance("available")' = Balance("available") + Amount[x]
        /\ Balance("frozen")' = Balance("frozen") - Amount[x]
        /\ Balance("frozen") >= Amount[x]
    BY <1>1, <1>2, <1>3, <1>4, <1>5, <1>8 DEF From, To, Debits, Posting
  <2>2. Atomic!Unfreeze(x, "pending_review", "rejected")
    BY <2>1 DEF Atomic!Unfreeze, Atomic!Become, CreditedDeposits
  <2> QED
    BY <1>2, <1>8, <2>2 DEF Atomic!Next
<1>9. CASE kind = "release"
  <2>1. /\ status[x] = "confirming" /\ status' = [status EXCEPT ![x] = "failed"]
        /\ CreditedDeposits' = CreditedDeposits
        /\ Balance("available")' = Balance("available") + Amount[x]
        /\ Balance("frozen")' = Balance("frozen") - Amount[x]
        /\ Balance("frozen") >= Amount[x]
    BY <1>1, <1>2, <1>3, <1>4, <1>5, <1>9 DEF From, To, Debits, Posting
  <2>2. Atomic!Unfreeze(x, "confirming", "failed")
    BY <2>1 DEF Atomic!Unfreeze, Atomic!Become, CreditedDeposits
  <2> QED
    BY <1>2, <1>9, <2>2 DEF Atomic!Next
<1>10. CASE kind = "settle"
  <2>1. /\ status[x] = "confirming" /\ status' = [status EXCEPT ![x] = "succeeded"]
        /\ CreditedDeposits' = CreditedDeposits
        /\ Balance("available")' = Balance("available")
        /\ Balance("frozen")' = Balance("frozen") - Amount[x]
        /\ Balance("frozen") >= Amount[x]
    BY <1>1, <1>2, <1>3, <1>4, <1>5, <1>10 DEF From, To, Debits, Posting
  <2>2. Atomic!Settle(x)
    BY <2>1 DEF Atomic!Settle, Atomic!Become, CreditedDeposits
  <2> QED
    BY <1>2, <1>10, <2>2 DEF Atomic!Next
<1> QED
  BY <1>2, <1>6, <1>7, <1>8, <1>9, <1>10

LEMMA ApproveRefines ==
  ASSUME NEW p \in Payouts, Approve(p) PROVE Atomic!Next
<1>1. Balance("available")' = Balance("available") /\ Balance("frozen")' = Balance("frozen")
  BY SameEntries DEF Approve
<1>2. /\ status[p] = "pending_review" /\ status' = [status EXCEPT ![p] = "confirming"]
      /\ journal' = journal
  BY DEF Approve
<1>3. Atomic!Approve(p)
  BY <1>1, <1>2 DEF Atomic!Approve, Atomic!Become
<1> QED
  BY <1>3 DEF Atomic!Next

LEMMA InitRefines == Init => Atomic!Init
<1> SUFFICES ASSUME Init PROVE Atomic!Init
  OBVIOUS
<1>1. Tables
  BY InitMoney DEF MoneyInv
<1>2. ASSUME NEW account PROVE Balance(account) = 0
  <2>1. CreditsOf(account) = {} /\ DebitsOf(account) = {}
    BY DEF Init, CreditsOf, DebitsOf
  <2>2. Total({}) = 0
    BY TotalIsSum, SumEmpty, FS_EmptySet
  <2>3. Total(CreditsOf(account)) = 0 /\ Total(DebitsOf(account)) = 0
    BY <2>1, <2>2, Zenon
  <2> QED
    BY <1>1, <2>3, BalanceIs
<1> QED
  BY <1>2 DEF Init, Atomic!Init

LEMMA StepRefines == MoneyInv /\ [Next]_vars => [Atomic!Next]_(Atomic!vars)
<1> SUFFICES ASSUME MoneyInv, [Next]_vars, ~UNCHANGED Atomic!vars PROVE Atomic!Next
  OBVIOUS
<1>1. Tables'
  BY NextMoney DEF MoneyInv
<1>2. ~UNCHANGED <<status, journal>>
  BY Unseen
<1>3. ASSUME NEW s \in Sessions, Commit(s) PROVE Atomic!Next
  BY <1>1, <1>2, <1>3, CommitPosts, PostsRefines
<1>4. ASSUME NEW p \in Payouts, Approve(p) PROVE Atomic!Next
  BY <1>4, ApproveRefines
<1>5. ASSUME NEW s \in Sessions, BeginAny(s) \/ LockStep(s) \/ ReadBalance(s) \/ Rollback(s)
      PROVE  FALSE
  BY <1>2, <1>5 DEF BeginAny, Begin, LockStep, Lock, Refuse, ReadBalance, Rollback
<1>6. ASSUME NEW C \in SUBSET Sessions, AbortDeadlocked(C) PROVE FALSE
  BY <1>2, <1>6 DEF AbortDeadlocked, Rollback
<1> QED
  BY <1>2, <1>3, <1>4, <1>5, <1>6 DEF Next, PostStep, vars

\* For any connections, payouts, deposits and amounts, transactions whose statements
\* interleave move a merchant's money as if each were one step.
THEOREM Refinement == Spec => ImplementsMerchantBalance
<1>1. Init => Atomic!Init
  BY InitRefines
<1>2. MoneyInv /\ [Next]_vars => [Atomic!Next]_(Atomic!vars)
  BY StepRefines
<1> QED
  BY <1>1, <1>2, MoneyInvariant, PTL DEF Spec, ImplementsMerchantBalance, Atomic!Spec
=============================================================================

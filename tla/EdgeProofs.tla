------------------------------ MODULE EdgeProofs ------------------------------
(***************************************************************************)
(* Theorems about the three components at the edges of the gateway, which  *)
(* share no state: ChainScan reads the chain, MerchantApi answers the      *)
(* merchants, WebhookDelivery calls their endpoints.  Each has an          *)
(* inductive invariant of its own.                                         *)
(***************************************************************************)
EXTENDS ChainScan, MerchantApi, WebhookDelivery, TLAPS

-----------------------------------------------------------------------------
(***************************************************************************)
(* ChainScan, for every chain, every number of processes and every mix of  *)
(* endpoints.  PrefixIndexed is not inductive: Advance trusts what the     *)
(* Step has read before.  ClaimsAgree says what a Step in progress knows   *)
(* of the cursor and the chain, BoundOnce when the contract may be bound.  *)
(***************************************************************************)

\* What a claim has read stays true: the bound contract, the link of its cursor,
\* and that a block that passed the checks is the solidified one above it.
ClaimsAgree ==
  \A p \in Processes :
    /\ scan[p].at \in {"claim", "head", "block", "commit"} =>
         cursor.bound = Contract[p]
    /\ scan[p].at \in {"head", "block", "commit"} =>
         scan[p].previous = Block("ours", scan[p].next - 1)
    /\ scan[p].at = "commit" =>
         /\ scan[p].block = Block("ours", scan[p].next)
         /\ scan[p].next <= solid

\* The cursor is claimed and moved after it was bound.
BoundOnce ==
  cursor.bound = None => cursor.next = Start /\ cursor.owner = None

IInv == TypeOK /\ PrefixIndexed /\ ClaimsAgree /\ BoundOnce

-----------------------------------------------------------------------------
LEMMA IdleIsScan == Idle \in Scan /\ Idle.at = "start"
  BY HeightAssumption DEF Idle, Scan, Anchor, Block, Blocks

LEMMA Initial == Init => IInv
<1> SUFFICES ASSUME Init PROVE IInv
  OBVIOUS
<1> USE HeightAssumption, TransferAssumption, NoneAssumption
<1>1. Anchor \in Blocks
  BY DEF Anchor, Blocks, Block
<1>2. Idle \in Scan
  BY IdleIsScan
<1>3. cursor \in Cursor
  BY <1>1 DEF Init, Cursor
<1>4. TypeOK
  BY <1>2, <1>3 DEF Init, TypeOK
<1>5. PrefixIndexed
  BY DEF Init, PrefixIndexed, Anchor
<1>6. ClaimsAgree
  BY DEF Init, ClaimsAgree, Idle
<1>7. BoundOnce
  BY DEF Init, BoundOnce
<1> QED
  BY <1>4, <1>5, <1>6, <1>7 DEF IInv

\* A block that passed the checks is the one after the claimed cursor.
LEMMA ValidIsNext ==
  ASSUME IInv, NEW p \in Processes, NEW b \in Served,
         ReadBlock(p, b), Valid(p, b)
  PROVE  b = Block("ours", scan[p].next) /\ scan[p].next <= solid
<1>1. b.height = scan[p].next
  BY DEF ReadBlock
<1>2. Block(b.network, b.height - 1) = Block("ours", scan[p].next - 1)
  BY DEF Valid, Parent, IInv, ClaimsAgree, ReadBlock
<1>3. b.network = "ours"
  BY <1>2 DEF Block
<1>4. b \in Blocks
  BY DEF Served
<1> QED
  BY <1>1, <1>3, <1>4 DEF Served, Blocks, Block

-----------------------------------------------------------------------------
\* An action of one process that leaves the cursor where it is keeps the invariant
\* if the process keeps what its Step must know and the lease has a bound contract.
LEMMA ScanKeeps ==
  ASSUME IInv, NEW p \in Processes, NEW s \in Scan, NEW c \in Cursor,
         scan' = [scan EXCEPT ![p] = s], cursor' = c,
         UNCHANGED <<solid, events>>,
         c.next = cursor.next, c.previous = cursor.previous,
         c.bound = cursor.bound,
         c.holder = None <=> c.owner = None,
         c.live => c.owner # None,
         c.owner # None => c.bound # None,
         s.at \in {"claim", "head", "block", "commit"} =>
           cursor.bound = Contract[p],
         s.at \in {"head", "block", "commit"} =>
           s.previous = Block("ours", s.next - 1),
         s.at = "commit" =>
           s.block = Block("ours", s.next) /\ s.next <= solid
  PROVE  IInv'
<1>1. scan \in [Processes -> Scan]
  BY DEF IInv, TypeOK
<1>2. scan' \in [Processes -> Scan]
  BY <1>1
<1>3. TypeOK'
  BY <1>2 DEF IInv, TypeOK
<1>4. PrefixIndexed'
  BY DEF IInv, PrefixIndexed
<1>5. ClaimsAgree'
  <2> SUFFICES ASSUME NEW q \in Processes
               PROVE  /\ scan'[q].at \in {"claim", "head", "block", "commit"} =>
                           cursor.bound = Contract[q]
                      /\ scan'[q].at \in {"head", "block", "commit"} =>
                           scan'[q].previous = Block("ours", scan'[q].next - 1)
                      /\ scan'[q].at = "commit" =>
                           /\ scan'[q].block = Block("ours", scan'[q].next)
                           /\ scan'[q].next <= solid
    BY DEF ClaimsAgree, Block
  <2>1. CASE q = p
    BY <2>1, <1>1
  <2>2. CASE q # p
    <3>1. scan'[q] = scan[q]
      BY <2>2, <1>1
    <3> QED
      BY <3>1 DEF IInv, ClaimsAgree
  <2> QED
    BY <2>1, <2>2
<1>6. BoundOnce'
  BY DEF IInv, BoundOnce
<1> QED
  BY <1>3, <1>4, <1>5, <1>6 DEF IInv

\* The same for an action that does not write the cursor at all.
LEMMA ScanStep ==
  ASSUME IInv, NEW p \in Processes, NEW s \in Scan,
         scan' = [scan EXCEPT ![p] = s],
         UNCHANGED <<solid, cursor, events>>,
         s.at \in {"claim", "head", "block", "commit"} =>
           cursor.bound = Contract[p],
         s.at \in {"head", "block", "commit"} =>
           s.previous = Block("ours", s.next - 1),
         s.at = "commit" =>
           s.block = Block("ours", s.next) /\ s.next <= solid
  PROVE  IInv'
<1>1. /\ cursor \in Cursor
      /\ cursor.holder = None <=> cursor.owner = None
      /\ cursor.live => cursor.owner # None
      /\ cursor.owner # None => cursor.bound # None
  BY DEF IInv, TypeOK, BoundOnce
<1> QED
  BY <1>1, ScanKeeps

-----------------------------------------------------------------------------
LEMMA SolidifyKeeps == IInv /\ Solidify => IInv'
<1> SUFFICES ASSUME IInv, Solidify PROVE IInv'
  OBVIOUS
<1> USE HeightAssumption DEF Solidify
<1>1. TypeOK'
  BY DEF IInv, TypeOK
<1>2. PrefixIndexed'
  <2>1. cursor.next - 1 <= solid => cursor.next - 1 <= solid + 1
    BY DEF IInv, TypeOK, Cursor
  <2> QED
    BY <2>1 DEF IInv, PrefixIndexed
<1>3. ClaimsAgree'
  <2>1. ASSUME NEW p \in Processes, scan[p].next <= solid
        PROVE  scan[p].next <= solid + 1
    BY <2>1 DEF IInv, TypeOK, Scan
  <2> QED
    BY <2>1 DEF IInv, ClaimsAgree
<1>4. BoundOnce'
  BY DEF IInv, BoundOnce
<1> QED
  BY <1>1, <1>2, <1>3, <1>4 DEF IInv

LEMMA LeaseExpiresKeeps == IInv /\ LeaseExpires => IInv'
<1> SUFFICES ASSUME IInv, LeaseExpires PROVE IInv'
  OBVIOUS
<1> USE DEF LeaseExpires
<1> DEFINE c == [cursor EXCEPT !.live = FALSE]
<1>1. /\ c \in Cursor /\ c.live = FALSE
      /\ c.next = cursor.next /\ c.previous = cursor.previous
      /\ c.bound = cursor.bound /\ c.owner = cursor.owner /\ c.holder = cursor.holder
  BY DEF IInv, TypeOK, Cursor
<1>2. cursor' = c
  OBVIOUS
<1> HIDE DEF c
<1>3. TypeOK'
  BY <1>1, <1>2 DEF IInv, TypeOK
<1>4. PrefixIndexed'
  BY <1>1, <1>2 DEF IInv, PrefixIndexed
<1>5. ClaimsAgree'
  BY <1>1, <1>2 DEF IInv, ClaimsAgree
<1>6. BoundOnce'
  BY <1>1, <1>2 DEF IInv, BoundOnce
<1> QED
  BY <1>3, <1>4, <1>5, <1>6 DEF IInv

LEMMA ReadsKeep ==
  ASSUME IInv, NEW p \in Processes,
         \/ \E b \in Served : ReadHead(p, b) \/ ReadBlock(p, b)
         \/ StepError(p) \/ LeaseLost(p) \/ Restart(p)
  PROVE  IInv'
<1> USE DEF IInv, TypeOK
<1>1. scan[p] \in Scan
  OBVIOUS
<1>2. ASSUME NEW b \in Served, ReadHead(p, b) PROVE IInv'
  <2> DEFINE s == [scan[p] EXCEPT !.head = b,
                     !.at = IF b.height < scan[p].next THEN "release" ELSE "block"]
  <2>1. s \in Scan
    BY <1>1 DEF Scan, Served
  <2>2. scan' = [scan EXCEPT ![p] = s]
    BY <1>2, <1>1 DEF ReadHead, Scan
  <2>3. /\ scan[p].at = "head"
        /\ s.at # "commit" /\ s.previous = scan[p].previous /\ s.next = scan[p].next
    BY <1>2, <1>1 DEF ReadHead, Scan
  <2>4. UNCHANGED <<solid, cursor, events>>
    BY <1>2 DEF ReadHead
  <2>5. cursor.bound = Contract[p] /\ scan[p].previous = Block("ours", scan[p].next - 1)
    BY <2>3 DEF ClaimsAgree
  <2> HIDE DEF s
  <2> QED
    BY <2>1, <2>2, <2>3, <2>4, <2>5, ScanStep
<1>3. ASSUME NEW b \in Served, ReadBlock(p, b) PROVE IInv'
  <2> DEFINE valid == Valid(p, b)
             s == [scan[p] EXCEPT !.block = b, !.stop = ~valid,
                     !.at = IF valid THEN "commit" ELSE "release"]
  <2>1. s \in Scan
    BY <1>1 DEF Scan, Served
  <2>2. scan' = [scan EXCEPT ![p] = s]
    BY <1>3, <1>1 DEF ReadBlock, Scan
  <2>3. /\ s.at = "commit" => valid
        /\ s.at \in {"commit", "release"}
        /\ s.block = b /\ s.previous = scan[p].previous /\ s.next = scan[p].next
    BY <1>1 DEF Scan
  <2>4. valid => b = Block("ours", scan[p].next) /\ scan[p].next <= solid
    BY <1>3, ValidIsNext
  <2>5. scan[p].at = "block"
    BY <1>3 DEF ReadBlock
  <2>6. UNCHANGED <<solid, cursor, events>>
    BY <1>3 DEF ReadBlock
  <2>7. cursor.bound = Contract[p] /\ scan[p].previous = Block("ours", scan[p].next - 1)
    BY <2>5 DEF ClaimsAgree
  <2> HIDE DEF s, valid
  <2> QED
    BY <2>1, <2>2, <2>3, <2>4, <2>6, <2>7, ScanStep
<1>4. CASE StepError(p) \/ LeaseLost(p)
  <2> DEFINE s == [scan[p] EXCEPT !.at = "release"]
  <2>1. s \in Scan /\ s.at = "release"
    BY <1>1 DEF Scan
  <2>2. scan' = [scan EXCEPT ![p] = s]
    BY <1>4, <1>1 DEF StepError, LeaseLost, Scan
  <2> HIDE DEF s
  <2> QED
    BY <1>4, <2>1, <2>2, ScanStep DEF StepError, LeaseLost
<1>5. CASE Restart(p)
  BY <1>5, IdleIsScan, ScanStep DEF Restart
<1> QED
  BY <1>2, <1>3, <1>4, <1>5

LEMMA ClaimKeeps == ASSUME IInv, NEW p \in Processes, Claim(p) PROVE IInv'
<1> DEFINE c == [cursor EXCEPT !.owner = WorkerId[p], !.holder = p, !.live = TRUE]
           s == [Idle EXCEPT !.at = "head", !.next = cursor.next,
                             !.previous = cursor.previous]
<1>1. /\ c \in Cursor
      /\ c.owner = WorkerId[p] /\ c.holder = p
      /\ c.next = cursor.next /\ c.previous = cursor.previous
      /\ c.bound = cursor.bound
  BY DEF IInv, TypeOK, Cursor, Owners
<1>2. s \in Scan /\ s.at = "head" /\ s.next = cursor.next
        /\ s.previous = cursor.previous
  BY IdleIsScan DEF IInv, TypeOK, Cursor, Scan
<1>3. WorkerId[p] # None /\ Contract[p] # None /\ p # None
  BY NoneAssumption
<1>4. cursor' = c /\ scan' = [scan EXCEPT ![p] = s] /\ UNCHANGED <<solid, events>>
  BY DEF Claim
<1>5. cursor.bound = Contract[p]
  BY DEF Claim, IInv, ClaimsAgree
<1>6. cursor.previous = Block("ours", cursor.next - 1)
  BY DEF IInv, PrefixIndexed
<1>7. UNCHANGED <<solid, events>>
  BY <1>4
<1> HIDE DEF c, s
<1>8. /\ c.holder = None <=> c.owner = None
      /\ c.live => c.owner # None
      /\ c.owner # None => c.bound # None
      /\ s.previous = Block("ours", s.next - 1)
  BY <1>1, <1>2, <1>3, <1>5, <1>6
<1> QED
  BY <1>1, <1>2, <1>4, <1>5, <1>7, <1>8, ScanKeeps

LEMMA ReleaseKeeps == ASSUME IInv, NEW p \in Processes, Release(p) PROVE IInv'
<1> DEFINE c == IF Fenced(p) THEN Unheld(cursor) ELSE cursor
           at == IF scan[p].stop THEN "stopped" ELSE "start"
           s == [Idle EXCEPT !.at = at]
<1>1. /\ c \in Cursor
      /\ c.holder = None <=> c.owner = None
      /\ c.live => c.owner # None
      /\ c.owner # None => cursor.owner # None
      /\ c.next = cursor.next /\ c.previous = cursor.previous
      /\ c.bound = cursor.bound
  BY DEF IInv, TypeOK, Cursor, Unheld
<1>2. at \in {"stopped", "start"}
  OBVIOUS
<1>3. cursor' = c /\ scan' = [scan EXCEPT ![p] = s] /\ UNCHANGED <<solid, events>>
  BY DEF Release
<1> HIDE DEF at
<1>4. s \in Scan /\ s.at \in {"stopped", "start"}
  BY <1>2, IdleIsScan DEF Scan
<1>5. cursor.owner # None => cursor.bound # None
  BY DEF IInv, BoundOnce
<1> HIDE DEF c, s
<1> QED
  BY <1>1, <1>3, <1>4, <1>5, ScanKeeps

\* A contract is bound while nothing is stored, and while no Step has begun.
LEMMA BindContractKeeps ==
  ASSUME IInv, NEW p \in Processes, BindContract(p) PROVE IInv'
<1> DEFINE at == IF Bound(p) = Contract[p] THEN "claim" ELSE "stopped"
           s == [scan[p] EXCEPT !.at = at]
           c == [cursor EXCEPT !.bound = Bound(p)]
<1> USE DEF IInv, TypeOK
<1>1. scan[p] \in Scan /\ cursor \in Cursor
  OBVIOUS
<1>2. Bound(p) \in {None} \cup Contracts
  BY <1>1 DEF Bound, Contracts, Cursor
<1>3. /\ c \in Cursor /\ c.bound = Bound(p)
      /\ c.next = cursor.next /\ c.previous = cursor.previous
      /\ c.owner = cursor.owner /\ c.holder = cursor.holder /\ c.live = cursor.live
  BY <1>1, <1>2 DEF Cursor
<1>4. cursor' = c /\ scan' = [scan EXCEPT ![p] = s] /\ UNCHANGED <<solid, events>>
  BY <1>1 DEF BindContract, Scan
<1>5. at \in {"stopped", "claim"} /\ (at = "claim" => Bound(p) = Contract[p])
  OBVIOUS
<1> HIDE DEF at
<1>6. s \in Scan /\ s.at = at
  BY <1>1, <1>5 DEF Scan
<1> HIDE DEF c, s
<1>7. CASE cursor.bound # None \/ cursor.next # Start
  <2>1. Bound(p) = cursor.bound
    BY <1>7 DEF Bound
  <2>2. cursor.owner # None => cursor.bound # None
    BY DEF BoundOnce
  <2> QED
    BY <1>6, <1>3, <1>4, <1>5, <2>1, <2>2, ScanKeeps
<1>8. CASE cursor.bound = None /\ cursor.next = Start
  <2>1. scan' \in [Processes -> Scan]
    BY <1>6, <1>4
  <2>2. TypeOK'
    BY <1>3, <1>4, <2>1
  <2>3. PrefixIndexed'
    <3>1. \A t \in Transfers : ~(BlockOf[t] < cursor.next)
      BY <1>8, TransferAssumption, HeightAssumption
    <3> QED
      BY <3>1, TransferAssumption, <1>3, <1>4 DEF PrefixIndexed
  <2>4. ClaimsAgree'
    <3> SUFFICES ASSUME NEW q \in Processes
                 PROVE  /\ scan'[q].at \notin {"head", "block", "commit"}
                        /\ scan'[q].at = "claim" => Bound(p) = Contract[q]
      BY <1>3, <1>4 DEF ClaimsAgree
    <3>1. scan[q].at \notin {"claim", "head", "block", "commit"}
      BY <1>8, NoneAssumption DEF ClaimsAgree
    <3>2. CASE q = p
      BY <3>2, <1>1, <1>6, <1>4, <1>5
    <3>3. CASE q # p
      BY <3>1, <3>3, <1>4
    <3> QED
      BY <3>2, <3>3
  <2>5. BoundOnce'
    BY <1>3, <1>4, <1>8 DEF BoundOnce
  <2> QED
    BY <2>2, <2>3, <2>4, <2>5
<1> QED
  BY <1>7, <1>8

\* The block that is stored is the next one, with what it has of the bound contract.
LEMMA AdvanceKeeps == ASSUME IInv, NEW p \in Processes, Advance(p) PROVE IInv'
<1> USE DEF IInv, TypeOK
<1>1. scan[p] \in Scan /\ cursor \in Cursor
  OBVIOUS
<1>2. /\ scan[p].block = Block("ours", cursor.next)
      /\ cursor.next <= solid
      /\ cursor.bound = Contract[p]
  BY DEF Advance, CanAdvance, ClaimsAgree
<1>3. cursor.next \in Start .. Top /\ scan[p].block \in Blocks
  BY <1>1, <1>2, HeightAssumption DEF Cursor, Scan
<1> DEFINE c == [next |-> cursor.next + 1, previous |-> scan[p].block,
                 bound |-> cursor.bound, owner |-> None, holder |-> None,
                 live |-> FALSE]
<1>4. cursor' = c
  BY <1>1 DEF Advance, Unheld, Cursor
<1>5. c \in Cursor
  BY <1>1, <1>3, HeightAssumption DEF Cursor
<1>6. /\ cursor'.next = cursor.next + 1 /\ cursor'.previous = scan[p].block
      /\ cursor'.bound = cursor.bound /\ cursor'.owner = None
      /\ cursor'.holder = None /\ cursor'.live = FALSE
  BY <1>4
<1>7. /\ scan' = [scan EXCEPT ![p] = Idle]
      /\ events' = events \cup TransfersIn(p)
      /\ solid' = solid
  BY DEF Advance
<1> HIDE DEF c
<1>8. TypeOK'
  <2>1. scan' \in [Processes -> Scan]
    BY <1>7, IdleIsScan
  <2>2. events' \subseteq Transfers
    BY <1>7, TransferAssumption DEF TransfersIn, ParseTransfers
  <2> QED
    BY <1>4, <1>5, <1>6, <1>7, <2>1, <2>2
<1>9. PrefixIndexed'
  <2>1. TransfersIn(p) = {t \in Executed : /\ BlockOf[t] = cursor.next
                                            /\ TokenOf[t] = cursor.bound}
    BY <1>2 DEF TransfersIn, ParseTransfers, Block
  <2>2. \A t \in Transfers : BlockOf[t] < cursor.next + 1 <=>
          BlockOf[t] < cursor.next \/ BlockOf[t] = cursor.next
    BY <1>3, TransferAssumption, HeightAssumption
  <2>3. events' = {t \in Executed : /\ BlockOf[t] < cursor.next + 1
                                     /\ TokenOf[t] = cursor.bound}
    BY <1>7, <2>1, <2>2, TransferAssumption DEF PrefixIndexed
  <2>4. cursor'.next - 1 = cursor.next
    BY <1>3, <1>6, HeightAssumption
  <2>5. cursor'.previous = Block("ours", cursor'.next - 1)
    BY <1>2, <1>6, <2>4
  <2>6. cursor'.next - 1 <= solid'
    BY <1>2, <1>6, <1>7, <2>4
  <2>7. events' = {t \in Executed : /\ BlockOf[t] < cursor'.next
                                     /\ TokenOf[t] = cursor'.bound}
    BY <1>6, <2>3
  <2> QED
    BY <2>5, <2>6, <2>7 DEF PrefixIndexed, Block
<1>10. ClaimsAgree'
  <2> SUFFICES ASSUME NEW q \in Processes
               PROVE  /\ scan'[q].at \in {"claim", "head", "block", "commit"} =>
                           cursor.bound = Contract[q]
                      /\ scan'[q].at \in {"head", "block", "commit"} =>
                           scan'[q].previous = Block("ours", scan'[q].next - 1)
                      /\ scan'[q].at = "commit" =>
                           /\ scan'[q].block = Block("ours", scan'[q].next)
                           /\ scan'[q].next <= solid
    BY <1>6, <1>7 DEF ClaimsAgree, Block
  <2>1. CASE q = p
    BY <2>1, <1>7, IdleIsScan
  <2>2. CASE q # p
    <3>1. scan'[q] = scan[q]
      BY <2>2, <1>7
    <3> QED
      BY <3>1 DEF ClaimsAgree
  <2> QED
    BY <2>1, <2>2
<1>11. BoundOnce'
  <2>1. cursor.bound # None
    BY <1>2, NoneAssumption
  <2> QED
    BY <1>6, <2>1 DEF BoundOnce
<1> QED
  BY <1>8, <1>9, <1>10, <1>11

LEMMA Inductive == IInv /\ [Next]_vars => IInv'
<1> SUFFICES ASSUME IInv, [Next]_vars PROVE IInv'
  OBVIOUS
<1>1. CASE Solidify
  BY <1>1, SolidifyKeeps
<1>2. CASE LeaseExpires
  BY <1>2, LeaseExpiresKeeps
<1>3. ASSUME NEW p \in Processes, Step(p) \/ StepError(p) \/ Restart(p)
      PROVE  IInv'
  <2>1. CASE BindContract(p)
    BY <2>1, BindContractKeeps
  <2>2. CASE Claim(p)
    BY <2>2, ClaimKeeps
  <2>3. CASE Advance(p)
    BY <2>3, AdvanceKeeps
  <2>4. CASE Release(p)
    BY <2>4, ReleaseKeeps
  <2>5. CASE \/ \E b \in Served : ReadHead(p, b) \/ ReadBlock(p, b)
             \/ StepError(p) \/ LeaseLost(p) \/ Restart(p)
    BY <2>5, ReadsKeep
  <2> QED
    BY <1>3, <2>1, <2>2, <2>3, <2>4, <2>5 DEF Step
<1>4. CASE UNCHANGED vars
  BY <1>4 DEF vars, IInv, TypeOK, PrefixIndexed, ClaimsAgree, BoundOnce, Block
<1> QED
  BY <1>1, <1>2, <1>3, <1>4 DEF Next

-----------------------------------------------------------------------------
LEMMA Invariance == Spec => []IInv
  BY Initial, Inductive, PTL DEF Spec

\* The cursor, the events and the Step of every process keep their types, and the
\* lease columns the constraint of their table.
THEOREM TypeCorrect == Spec => []TypeOK
<1>1. IInv => TypeOK
  BY DEF IInv
<1> QED
  BY <1>1, Invariance, PTL

\* However many processes share the cursor, whatever the endpoints serve and
\* whenever processes die, what is stored is the bound contract's prefix of the
\* solidified chain.
THEOREM PrefixIndexedAlways == Spec => []PrefixIndexed
<1>1. IInv => PrefixIndexed
  BY DEF IInv
<1> QED
  BY <1>1, Invariance, PTL

\* The epoch in the fence keeps every process that lost its claim, or has none,
\* from writing the cursor while somebody's claim lasts.
THEOREM OnlyHolderWritesAlways == Spec => OnlyHolderWrites
<1> DEFINE A == \A p \in Processes :
     cursor.live /\ cursor.holder = p /\ cursor' # cursor =>
       \/ cursor' = [cursor EXCEPT !.live = FALSE]
       \/ scan'[p] # scan[p]
<1>1. IInv /\ [Next]_vars => A
  <2> SUFFICES ASSUME IInv, [Next]_vars, NEW p \in Processes, cursor.live,
                      cursor.holder = p, cursor' # cursor,
                      cursor' # [cursor EXCEPT !.live = FALSE]
               PROVE  scan'[p] # scan[p]
    OBVIOUS
  <2>1. cursor.owner # None /\ cursor.bound # None
    BY DEF IInv, TypeOK, BoundOnce
  <2>2. PICK q \in Processes : Step(q) \/ StepError(q) \/ Restart(q)
    BY DEF Next, vars, Solidify, LeaseExpires
  <2>3. ~BindContract(q)
    <3>1. cursor \in Cursor
      BY DEF IInv, TypeOK
    <3>2. [cursor EXCEPT !.bound = cursor.bound] = cursor
      BY <3>1 DEF Cursor
    <3> QED
      BY <2>1, <3>2 DEF BindContract, Bound
  <2>4. ~Claim(q)
    BY <2>1 DEF Claim, Unleased
  <2>5. Advance(q) \/ Release(q)
    BY <2>2, <2>3, <2>4 DEF Step, ReadHead, ReadBlock, StepError, LeaseLost, Restart
  <2>6. q = p
    BY <2>5 DEF Advance, Release, CanAdvance, Fenced
  <2>7. scan[p].at \in {"commit", "release"}
    BY <2>5, <2>6 DEF Advance, Release
  <2>8. scan'[p].at \in {"start", "stopped"}
    <3>1. scan \in [Processes -> Scan]
      BY DEF IInv, TypeOK
    <3>2. CASE Advance(q)
      BY <2>6, <3>1, <3>2, IdleIsScan DEF Advance
    <3>3. CASE Release(q)
      BY <2>6, <3>1, <3>3, IdleIsScan DEF Release, Scan
    <3> QED
      BY <2>5, <3>2, <3>3
  <2> QED
    BY <2>7, <2>8
<1>2. OnlyHolderWrites <=> [][A]_vars
  BY DEF OnlyHolderWrites
<1> QED
  BY <1>1, <1>2, Invariance, PTL DEF Spec

-----------------------------------------------------------------------------
\* A Step that is to stop its process is about to release its claim, so that
\* what it has read stands beside the decision until then.
StopIsReleased == \A p \in Processes : scan[p].stop => scan[p].at = "release"

\* Two honest answers never stop a process: what is not the head at the height
\* of the head, or does not link to the cursor, comes from elsewhere.
LEMMA InvalidIsOther ==
  ASSUME IInv, NEW p \in Processes, NEW b \in Served,
         ReadBlock(p, b), ~Valid(p, b)
  PROVE  "other" \in {scan[p].head.network, b.network}
<1>1. /\ b.height = scan[p].next
      /\ scan[p].previous = Block("ours", scan[p].next - 1)
  BY DEF ReadBlock, IInv, ClaimsAgree
<1>2. scan[p].head \in Blocks /\ b \in Blocks
  BY DEF IInv, TypeOK, Scan, Served
<1> SUFFICES ASSUME b.network = "ours", scan[p].head.network = "ours" PROVE FALSE
  BY <1>2 DEF Blocks
<1>3. Parent(b) = scan[p].previous
  BY <1>1 DEF Parent
<1>4. b.height = scan[p].head.height => b = scan[p].head
  BY <1>2 DEF Blocks
<1> QED
  BY <1>3, <1>4 DEF Valid

LEMMA StopKeeps ==
  ASSUME IInv, StopIsReleased, StopsForOtherNetwork, [Next]_vars
  PROVE  StopIsReleased' /\ StopsForOtherNetwork'
<1> SUFFICES ASSUME NEW q \in Processes, scan'[q].stop
             PROVE  /\ scan'[q].at = "release"
                    /\ "other" \in {scan'[q].head.network, scan'[q].block.network}
  BY DEF StopIsReleased, StopsForOtherNetwork
<1>1. scan \in [Processes -> Scan] /\ scan[q] \in Scan
  BY DEF IInv, TypeOK
<1>2. CASE scan'[q] = scan[q]
  BY <1>2 DEF StopIsReleased, StopsForOtherNetwork
<1>3. CASE scan'[q] # scan[q]
  <2>1. Step(q) \/ StepError(q) \/ Restart(q)
    <3>1. PICK p \in Processes : Step(p) \/ StepError(p) \/ Restart(p)
      BY <1>3 DEF Next, vars, Solidify, LeaseExpires
    <3>2. p # q => scan'[q] = scan[q]
      BY <3>1, <1>1 DEF Step, BindContract, Claim, Advance, LeaseLost, Release,
                        ReadHead, ReadBlock, StepError, Restart
    <3> QED
      BY <3>1, <3>2, <1>3
  <2>2. scan[q].at # "release" => ~scan[q].stop
    BY DEF StopIsReleased
  <2>3. \E b \in Served : ReadBlock(q, b)
    <3>1. ~Claim(q)
      <4> SUFFICES ASSUME Claim(q) PROVE FALSE
        OBVIOUS
      <4> DEFINE s == [Idle EXCEPT !.at = "head", !.next = cursor.next,
                                   !.previous = cursor.previous]
      <4>1. s.stop = FALSE /\ scan'[q] = s
        BY <1>1 DEF Claim, Idle
      <4> QED
        BY <4>1
    <3>2. ~Advance(q) /\ ~Restart(q)
      BY <1>1 DEF Advance, Restart, Idle
    <3>3. ~Release(q)
      <4> SUFFICES ASSUME Release(q) PROVE FALSE
        OBVIOUS
      <4> DEFINE at == IF scan[q].stop THEN "stopped" ELSE "start"
      <4>1. scan'[q] = [Idle EXCEPT !.at = at]
        BY <1>1 DEF Release
      <4> HIDE DEF at
      <4> QED
        BY <4>1 DEF Idle
    <3>4. ASSUME NEW at, scan[q].at # "release",
                 scan' = [scan EXCEPT ![q] = [scan[q] EXCEPT !.at = at]]
          PROVE  FALSE
      BY <1>1, <2>2, <3>4 DEF Scan
    <3>5. ~(BindContract(q) \/ LeaseLost(q) \/ StepError(q))
      BY <1>1, <3>4 DEF BindContract, LeaseLost, StepError, Scan
    <3>6. ASSUME NEW b \in Served, ReadHead(q, b) PROVE FALSE
      <4>1. scan'[q].stop = scan[q].stop
        BY <1>1, <3>6 DEF ReadHead, Scan
      <4> QED
        BY <3>6, <2>2, <4>1 DEF ReadHead
    <3> QED
      BY <2>1, <3>1, <3>2, <3>3, <3>5, <3>6 DEF Step
  <2>4. PICK b \in Served : ReadBlock(q, b)
    BY <2>3
  <2>5. /\ scan'[q].stop = ~Valid(q, b)
        /\ scan'[q].at = IF Valid(q, b) THEN "commit" ELSE "release"
        /\ scan'[q].head = scan[q].head
        /\ scan'[q].block = b
    BY <2>4, <1>1 DEF ReadBlock, Scan
  <2> QED
    BY <2>4, <2>5, InvalidIsOther
<1> QED
  BY <1>2, <1>3

\* For any number of processes and endpoints, a process ends for good only after
\* an answer from another network, never for lag or for a lost claim.
THEOREM StopsForOtherNetworkAlways == Spec => []StopsForOtherNetwork
<1>1. Init => StopIsReleased /\ StopsForOtherNetwork
  BY DEF Init, Idle, StopIsReleased, StopsForOtherNetwork
<1>2. IInv /\ StopIsReleased /\ StopsForOtherNetwork /\ [Next]_vars
        => StopIsReleased' /\ StopsForOtherNetwork'
  BY StopKeeps
<1> QED
  BY <1>1, <1>2, Invariance, PTL DEF Spec

-----------------------------------------------------------------------------
(***************************************************************************)
(* MerchantApi, for any number of merchants, keys, orders, requests,       *)
(* handlers and addresses, and any window and clock.  What the module      *)
(* assumes of its requests is the hypothesis of each theorem.              *)
(***************************************************************************)

(* The inductive invariant *)

ApiAuthenticated == {"authenticated", "new", "choosing", "locked", "conflict"}

\* What a call has learnt and holds: its timestamp was not ahead of the window, its
\* request is accepted, and the addresses it sees are those of its merchant.
ApiFounded(c) ==
  /\ c.at # "idle" => c.request \in Requests
  /\ c.at \in {"timely", "known"} => clock >= c.request.time - MaxSkew
  /\ c.at \in ApiAuthenticated => c.request \in accepted
  /\ c.at = "choosing" => \A a \in c.free : pool[a] = Owner[c.request.apiKey]
  /\ c.at = "locked" =>
       c.address \in Addresses /\ pool[c.address] = Owner[c.request.apiKey]

ApiCalls == \A h \in Handlers : ApiFounded(call[h])

\* The nonce of an accepted request is kept until the request is too old.
ApiRemembered ==
  \A r \in accepted : clock < r.time + MaxSkew =>
    \E n \in nonces :
      n.apiKey = r.apiKey /\ n.nonce = r.nonce /\ n.expires >= r.time + MaxSkew

\* What RepliesAgree says of each answer alone.
ApiAnswered ==
  \A x \in answers :
    /\ x.request \in accepted
    /\ x.intent \in intents
    /\ x.intent.merchant = Owner[x.request.apiKey]
    /\ x.intent.reference = x.request.reference
    /\ x.intent.terms = x.request.terms

ApiPlaced == \A i \in intents : pool[i.address] = i.merchant

ApiIInv ==
  /\ ApiTypeOK
  /\ ApiCalls /\ ApiRemembered /\ ApiAnswered /\ ApiPlaced

LEMMA ApiRequestTypes ==
  ASSUME NEW r \in Requests
  PROVE  /\ r.apiKey \in ApiKeys /\ r.nonce \in Nonces /\ r.time \in Nat
         /\ r.key \in Keys /\ r.reference \in References /\ r.terms \in Terms
         /\ Owner[r.apiKey] \in Merchants
BY RequestsAssumption DEF Nonces, Keys, References, Terms

LEMMA ApiIdleCall == NoCall \in Call /\ NoCall.at = "idle" /\ ApiFounded(NoCall)
BY DEF NoCall, Call, ApiFounded, ApiAuthenticated

LEMMA ApiInitIInv == ApiInit => ApiIInv
<1> SUFFICES ASSUME ApiInit PROVE ApiIInv
  OBVIOUS
<1>1. ApiTypeOK
  BY ApiIdleCall, RequestsAssumption DEF ApiInit, ApiTypeOK, NoCall
<1>2. ApiCalls
  BY ApiIdleCall DEF ApiInit, ApiCalls
<1>3. ApiRemembered /\ ApiAnswered /\ ApiPlaced
  BY DEF ApiInit, ApiRemembered, ApiAnswered, ApiPlaced
<1> QED
  BY <1>1, <1>2, <1>3 DEF ApiIInv

-----------------------------------------------------------------------------
(* What a step may change *)

\* Time passes, requests are accepted and addresses are registered, and none of
\* these is taken back.
LEMMA ApiFoundedStays ==
  ASSUME NEW c \in Call, ApiFounded(c), ApiTypeOK,
         clock' \in 0 .. MaxTime, clock' >= clock, accepted \subseteq accepted',
         \A a \in Addresses : pool[a] # Null => pool'[a] = pool[a]
  PROVE  ApiFounded(c)'
<1>1. c.request \in Requests =>
        /\ c.request.time \in Nat
        /\ Owner[c.request.apiKey] # Null
  BY ApiRequestTypes, RequestsAssumption
<1>2. c.at \in {"timely", "known"} => clock' >= c.request.time - MaxSkew
  BY <1>1, RequestsAssumption DEF ApiFounded, ApiTypeOK
<1>3. c.at = "choosing" => \A a \in c.free : pool'[a] = Owner[c.request.apiKey]
  BY <1>1 DEF ApiFounded, Call
<1>4. c.at = "locked" =>
        c.address \in Addresses /\ pool'[c.address] = Owner[c.request.apiKey]
  BY <1>1 DEF ApiFounded
<1> QED
  BY <1>2, <1>3, <1>4 DEF ApiFounded

\* A step outside the calls.
LEMMA ApiOutsideKeeps ==
  ASSUME ApiIInv, UNCHANGED <<nonces, accepted, intents, call, answers>>,
         clock' \in 0 .. MaxTime, clock' >= clock, apiKeys' \subseteq ApiKeys,
         pool' \in [Addresses -> Merchants \cup {Null}],
         \A a \in Addresses : pool[a] # Null => pool'[a] = pool[a]
  PROVE  ApiIInv'
<1>1. ApiTypeOK'
  BY DEF ApiIInv, ApiTypeOK
<1>2. ApiCalls'
  <2> SUFFICES ASSUME NEW h \in Handlers PROVE ApiFounded(call[h])'
    BY DEF ApiCalls
  <2>1. PICK c : c = call[h]
    OBVIOUS
  <2>2. c \in Call /\ ApiFounded(c) /\ call'[h] = c
    BY <2>1 DEF ApiIInv, ApiTypeOK, ApiCalls
  <2>3. ApiFounded(c)'
    BY <2>2, ApiFoundedStays DEF ApiIInv
  <2> QED
    BY <2>2, <2>3 DEF ApiFounded
<1>3. ApiRemembered'
  <2>1. \A r \in accepted : r.time \in Nat
    BY ApiRequestTypes DEF ApiIInv, ApiTypeOK
  <2> QED
    BY <2>1, RequestsAssumption DEF ApiIInv, ApiTypeOK, ApiRemembered
<1>4. ApiAnswered'
  BY DEF ApiIInv, ApiAnswered
<1>5. ApiPlaced'
  <2>1. \A i \in intents : i.address \in Addresses /\ i.merchant # Null
    BY RequestsAssumption DEF ApiIInv, ApiTypeOK, Intent
  <2> QED
    BY <2>1 DEF ApiIInv, ApiPlaced
<1> QED
  BY <1>1, <1>2, <1>3, <1>4, <1>5 DEF ApiIInv

\* A step of one call adds to the tables.
LEMMA ApiCallKeeps ==
  ASSUME ApiIInv, NEW h \in Handlers, NEW c \in Call, CallStep(h, c), ApiFounded(c)',
         nonces' \subseteq NonceRow,
         \A m, n \in nonces' : m.apiKey = n.apiKey /\ m.nonce = n.nonce => m = n,
         accepted \subseteq accepted', accepted' \subseteq Requests,
         ApiRemembered',
         intents' \subseteq Intent, intents \subseteq intents',
         \A i, j \in intents' :
           \/ i.address = j.address
           \/ i.merchant = j.merchant /\ (i.key = j.key \/ i.reference = j.reference)
           => i = j,
         \A i \in intents' : pool[i.address] = i.merchant,
         answers' \subseteq Answer,
         \A x \in answers' \ answers :
           /\ x.request \in accepted
           /\ x.intent \in intents'
           /\ x.intent.merchant = Owner[x.request.apiKey]
           /\ x.intent.reference = x.request.reference
           /\ x.intent.terms = x.request.terms
  PROVE  ApiIInv'
<1>1. UNCHANGED <<clock, apiKeys, pool>> /\ call' = [call EXCEPT ![h] = c]
  BY DEF CallStep
<1>2. \A g \in Handlers : call'[g] = IF g = h THEN c ELSE call[g]
  BY <1>1 DEF ApiIInv, ApiTypeOK
<1>3. c.at # "idle" => c.request \in Requests
  BY DEF ApiFounded
<1>4. ApiTypeOK'
  <2>1. call' \in [Handlers -> Call]
    BY <1>1 DEF ApiIInv, ApiTypeOK
  <2>2. \A g \in Handlers : call'[g].at # "idle" => call'[g].request \in Requests
    BY <1>2, <1>3 DEF ApiIInv, ApiTypeOK
  <2> QED
    BY <1>1, <2>1, <2>2 DEF ApiIInv, ApiTypeOK
<1>5. ApiCalls'
  <2> SUFFICES ASSUME NEW g \in Handlers PROVE ApiFounded(call[g])'
    BY DEF ApiCalls
  <2>1. PICK x : x = call'[g]
    OBVIOUS
  <2>2. CASE g = h
    <3>1. x = c
      BY <1>2, <2>1, <2>2
    <3> QED
      BY <2>1, <3>1 DEF ApiFounded
  <2>3. CASE g # h
    <3>1. x = call[g] /\ x \in Call /\ ApiFounded(x)
      BY <1>2, <2>1, <2>3 DEF ApiIInv, ApiTypeOK, ApiCalls
    <3>2. clock' \in 0 .. MaxTime /\ clock' >= clock
      BY <1>1 DEF ApiIInv, ApiTypeOK
    <3>3. ApiFounded(x)'
      BY <1>1, <3>1, <3>2, ApiFoundedStays DEF ApiIInv
    <3> QED
      BY <2>1, <3>3 DEF ApiFounded
  <2> QED
    BY <2>2, <2>3
<1>6. ApiAnswered'
  BY DEF ApiIInv, ApiAnswered
<1>7. ApiPlaced'
  BY <1>1 DEF ApiPlaced
<1> QED
  BY <1>4, <1>5, <1>6, <1>7 DEF ApiIInv

\* A step that writes to no table.
LEMMA ApiUnwrittenKeeps ==
  ASSUME ApiIInv, NEW h \in Handlers, NEW c \in Call, CallStep(h, c), Unwritten, ApiFounded(c)
  PROVE  ApiIInv'
<1>1. UNCHANGED <<clock, apiKeys, pool, nonces, accepted, intents, answers>>
  BY DEF CallStep, Unwritten
<1>2. ApiFounded(c)'
  BY <1>1 DEF ApiFounded
<1>3. ApiRemembered'
  BY <1>1 DEF ApiIInv, ApiRemembered
<1>4. /\ nonces' \subseteq NonceRow /\ accepted' \subseteq Requests
      /\ intents' \subseteq Intent /\ answers' \subseteq Answer
      /\ \A m, n \in nonces' : m.apiKey = n.apiKey /\ m.nonce = n.nonce => m = n
      /\ \A i, j \in intents' :
           \/ i.address = j.address
           \/ i.merchant = j.merchant /\ (i.key = j.key \/ i.reference = j.reference)
           => i = j
  BY <1>1 DEF ApiIInv, ApiTypeOK
<1>5. \A i \in intents' : pool[i.address] = i.merchant
  BY <1>1 DEF ApiIInv, ApiPlaced
<1> QED
  BY <1>1, <1>2, <1>3, <1>4, <1>5, ApiCallKeeps

LEMMA ApiOwnCall ==
  ASSUME ApiIInv, NEW h \in Handlers
  PROVE  call[h] \in Call /\ ApiFounded(call[h])
BY DEF ApiIInv, ApiTypeOK, ApiCalls

-----------------------------------------------------------------------------
(* The actions *)

LEMMA ApiOutsideStepKeeps ==
  ASSUME ApiIInv,
         \/ Tick
         \/ \E k \in ApiKeys : ProvisionKey(k) \/ KeyEnds(k)
         \/ \E a \in Addresses, m \in Merchants : RegisterAddress(a, m)
  PROVE  ApiIInv'
<1>1. /\ clock \in 0 .. MaxTime /\ apiKeys \subseteq ApiKeys
      /\ pool \in [Addresses -> Merchants \cup {Null}]
  BY DEF ApiIInv, ApiTypeOK
<1>2. CASE Tick
  <2>1. clock' \in 0 .. MaxTime /\ clock' >= clock
    BY <1>1, <1>2, RequestsAssumption DEF ApiIInv, Tick
  <2> QED
    BY <1>1, <1>2, <2>1, ApiOutsideKeeps DEF Tick
<1>3. ASSUME NEW k \in ApiKeys, ProvisionKey(k) \/ KeyEnds(k) PROVE ApiIInv'
  <2>1. clock' = clock /\ clock' >= clock
    BY <1>1, <1>3 DEF ProvisionKey, KeyEnds
  <2>2. apiKeys' \subseteq ApiKeys
    BY <1>1, <1>3 DEF ProvisionKey, KeyEnds
  <2>3. UNCHANGED <<nonces, accepted, intents, call, answers, pool>>
    BY <1>3 DEF ProvisionKey, KeyEnds
  <2> QED
    BY <1>1, <2>1, <2>2, <2>3, ApiOutsideKeeps
<1>4. ASSUME NEW a \in Addresses, NEW m \in Merchants, RegisterAddress(a, m)
      PROVE  ApiIInv'
  <2>1. UNCHANGED <<nonces, accepted, intents, call, answers, clock, apiKeys>>
    BY <1>4 DEF RegisterAddress, NewAddress, ExistingAddress, apiVars
  <2>2. clock' >= clock
    BY <1>1, <2>1
  <2>3. /\ pool' \in [Addresses -> Merchants \cup {Null}]
        /\ \A b \in Addresses : pool[b] # Null => pool'[b] = pool[b]
    BY <1>1, <1>4 DEF RegisterAddress, NewAddress, ExistingAddress, apiVars
  <2> QED
    BY <1>1, <2>1, <2>2, <2>3, ApiOutsideKeeps
<1> QED
  BY <1>2, <1>3, <1>4

\* The steps that only move their call on.
LEMMA ApiMoveKeeps ==
  ASSUME ApiIInv, NEW h \in Handlers, NEW at \in {"timely", "known", "new", "conflict"},
         CallStep(h, NoCall) \/ CallStep(h, [call[h] EXCEPT !.at = at]), Unwritten,
         at = "timely" => call[h].at = "received" /\ Timely(call[h].request),
         at = "known" => call[h].at = "timely",
         at \in {"new", "conflict"} => call[h].at \in ApiAuthenticated \/ CallStep(h, NoCall),
         call[h].at # "idle"
  PROVE  ApiIInv'
<1>1. CASE CallStep(h, NoCall)
  BY <1>1, ApiIdleCall, ApiUnwrittenKeeps
<1>2. CASE CallStep(h, [call[h] EXCEPT !.at = at]) /\ ~CallStep(h, NoCall)
  <2>1. PICK c : c = [call[h] EXCEPT !.at = at]
    OBVIOUS
  <2>2. c \in Call /\ c.at = at /\ c.request = call[h].request
    BY <2>1, ApiOwnCall DEF Call
  <2>3. call[h].request \in Requests
    BY ApiOwnCall DEF ApiFounded
  <2>4. Timely(c.request) => clock >= c.request.time - MaxSkew
    BY <2>2, <2>3, ApiRequestTypes, RequestsAssumption DEF Timely, ApiIInv, ApiTypeOK
  <2>5. ApiFounded(c)
    BY <1>2, <2>2, <2>3, <2>4, ApiOwnCall DEF ApiFounded, ApiAuthenticated
  <2> QED
    BY <1>2, <2>1, <2>2, <2>5, ApiUnwrittenKeeps
<1> QED
  BY <1>1, <1>2

LEMMA ApiReceiveKeeps ==
  ASSUME ApiIInv, NEW h \in Handlers, NEW r \in Requests, Receive(h, r) PROVE ApiIInv'
<1>1. PICK c : c = [NoCall EXCEPT !.at = "received", !.request = r]
  OBVIOUS
<1>2. c \in Call /\ c.at = "received" /\ c.request = r
  BY <1>1 DEF NoCall, Call
<1>3. ApiFounded(c)
  BY <1>2 DEF ApiFounded, ApiAuthenticated
<1> QED
  BY <1>1, <1>2, <1>3, ApiUnwrittenKeeps DEF Receive

LEMMA ApiSeeFreeAddressesKeeps ==
  ASSUME ApiIInv, NEW h \in Handlers, SeeFreeAddresses(h) PROVE ApiIInv'
<1>1. PICK free : free = {a \in Addresses :
         /\ pool[a] = Owner[call[h].request.apiKey]
         /\ \A i \in intents : i.address # a}
  OBVIOUS
<1>2. PICK c : c = [call[h] EXCEPT !.at = "choosing", !.free = free]
  OBVIOUS
<1>3. /\ c \in Call /\ c.at = "choosing" /\ c.free = free
      /\ c.request = call[h].request
  BY <1>1, <1>2, ApiOwnCall DEF Call
<1>4. c.request \in Requests /\ c.request \in accepted
  BY <1>3, ApiOwnCall DEF SeeFreeAddresses, ApiFounded, ApiAuthenticated
<1>5. ApiFounded(c)
  BY <1>1, <1>3, <1>4 DEF ApiFounded, ApiAuthenticated
<1>6. CallStep(h, c)
  BY <1>1, <1>2 DEF SeeFreeAddresses
<1> QED
  BY <1>3, <1>5, <1>6, ApiUnwrittenKeeps DEF SeeFreeAddresses

LEMMA ApiLockAddressKeeps ==
  ASSUME ApiIInv, NEW h \in Handlers, LockAddress(h) PROVE ApiIInv'
<1>1. CASE CallStep(h, NoCall)
  BY <1>1, ApiIdleCall, ApiUnwrittenKeeps DEF LockAddress
<1>2. ASSUME NEW a \in call[h].free,
             CallStep(h, [call[h] EXCEPT !.at = "locked", !.free = {}, !.address = a])
      PROVE  ApiIInv'
  <2>1. PICK c : c = [call[h] EXCEPT !.at = "locked", !.free = {}, !.address = a]
    OBVIOUS
  <2>2. a \in Addresses
    BY ApiOwnCall DEF Call
  <2>3. /\ c \in Call /\ c.at = "locked" /\ c.address = a
        /\ c.request = call[h].request
    BY <2>1, <2>2, ApiOwnCall DEF Call
  <2>4. ApiFounded(c)
    BY <2>2, <2>3, ApiOwnCall DEF LockAddress, ApiFounded, ApiAuthenticated
  <2> QED
    BY <1>2, <2>1, <2>3, <2>4, ApiUnwrittenKeeps DEF LockAddress
<1> QED
  BY <1>1, <1>2 DEF LockAddress

LEMMA ApiConsumeNonceKeeps ==
  ASSUME ApiIInv, NEW h \in Handlers, ConsumeNonce(h) PROVE ApiIInv'
<1>1. PICK r : r = call[h].request
  OBVIOUS
<1>2. /\ r \in Requests /\ clock >= r.time - MaxSkew /\ call[h].at = "known"
      /\ r.time \in Nat /\ clock \in Nat /\ MaxSkew \in Nat
      /\ r.apiKey \in ApiKeys /\ r.nonce \in Nonces
  BY <1>1, ApiOwnCall, ApiRequestTypes, RequestsAssumption
     DEF ConsumeNonce, ApiFounded, ApiIInv, ApiTypeOK
<1>3. PICK kept, new :
        /\ kept = {n \in nonces : n.apiKey = r.apiKey => n.expires > clock}
        /\ new = [apiKey |-> r.apiKey, nonce |-> r.nonce, expires |-> clock + NonceLifetime]
  OBVIOUS
<1>4. /\ new \in NonceRow /\ new.apiKey = r.apiKey /\ new.nonce = r.nonce
      /\ new.expires >= r.time + MaxSkew
  BY <1>2, <1>3 DEF NonceRow, NonceLifetime
<1>5. \A n \in nonces : n.expires \in Nat
  BY DEF ApiIInv, ApiTypeOK, NonceRow
<1>6. UNCHANGED <<clock, apiKeys, pool, intents, answers>>
  BY DEF ConsumeNonce, CallStep
<1>7. \A q \in accepted : q.time \in Nat
  BY ApiRequestTypes DEF ApiIInv, ApiTypeOK
<1>8. \A q \in accepted : clock < q.time + MaxSkew =>
        \E n \in kept :
          n.apiKey = q.apiKey /\ n.nonce = q.nonce /\ n.expires >= q.time + MaxSkew
  <2> SUFFICES ASSUME NEW q \in accepted, clock < q.time + MaxSkew
               PROVE  \E n \in kept : n.apiKey = q.apiKey /\ n.nonce = q.nonce
                                       /\ n.expires >= q.time + MaxSkew
    OBVIOUS
  <2>1. PICK n \in nonces : /\ n.apiKey = q.apiKey /\ n.nonce = q.nonce
                            /\ n.expires >= q.time + MaxSkew
    BY DEF ApiIInv, ApiRemembered
  <2>2. n.expires > clock
    BY <1>2, <1>5, <1>7, <2>1
  <2> QED
    BY <1>3, <2>1, <2>2
<1>9. /\ intents' \subseteq Intent /\ answers' \subseteq Answer
      /\ accepted \subseteq Requests /\ kept \subseteq NonceRow
      /\ \A m, n \in kept : m.apiKey = n.apiKey /\ m.nonce = n.nonce => m = n
      /\ \A i, j \in intents' :
           \/ i.address = j.address
           \/ i.merchant = j.merchant /\ (i.key = j.key \/ i.reference = j.reference)
           => i = j
      /\ \A i \in intents' : pool[i.address] = i.merchant
  BY <1>3, <1>6 DEF ApiIInv, ApiTypeOK, ApiPlaced
<1>10. CASE \E n \in nonces : n.apiKey = r.apiKey /\ n.nonce = r.nonce
  <2>1. nonces' = kept /\ accepted' = accepted /\ CallStep(h, NoCall)
    BY <1>1, <1>3, <1>10 DEF ConsumeNonce
  <2>2. ApiRemembered'
    BY <1>6, <1>8, <2>1 DEF ApiRemembered
  <2>3. ApiFounded(NoCall)'
    BY DEF ApiFounded, NoCall, ApiAuthenticated
  <2> QED
    BY <1>6, <1>9, <2>1, <2>2, <2>3, ApiIdleCall, ApiCallKeeps
<1>11. CASE ~\E n \in nonces : n.apiKey = r.apiKey /\ n.nonce = r.nonce
  <2>1. PICK c : c = [call[h] EXCEPT !.at = "authenticated"]
    OBVIOUS
  <2>2. /\ nonces' = kept \cup {new} /\ accepted' = accepted \cup {r} /\ CallStep(h, c)
    BY <1>1, <1>3, <1>11, <2>1 DEF ConsumeNonce
  <2>3. c \in Call /\ c.at = "authenticated" /\ c.request = r
    BY <1>1, <2>1, ApiOwnCall DEF Call
  <2>4. ApiRemembered'
    BY <1>4, <1>6, <1>8, <2>2 DEF ApiRemembered
  <2>5. ApiFounded(c)'
    BY <1>2, <2>2, <2>3 DEF ApiFounded, ApiAuthenticated
  <2>6. \A m, n \in nonces' : m.apiKey = n.apiKey /\ m.nonce = n.nonce => m = n
    BY <1>3, <1>4, <1>9, <1>11, <2>2
  <2> QED
    BY <1>2, <1>4, <1>6, <1>9, <2>2, <2>3, <2>4, <2>5, <2>6, ApiCallKeeps
<1> QED
  BY <1>10, <1>11

\* A call that ends with an answer, and perhaps with a new intent.
LEMMA ApiAnswerKeeps ==
  ASSUME ApiIInv, NEW h \in Handlers, NEW r \in Requests, NEW i \in Intent,
         call[h].request = r, call[h].at \in ApiAuthenticated,
         CallStep(h, NoCall), AnswerWith(r, i), UNCHANGED <<nonces, accepted>>,
         i.merchant = Owner[r.apiKey], i.reference = r.reference, i.terms = r.terms,
         \/ intents' = intents /\ i \in intents
         \/ /\ intents' = intents \cup {i} /\ pool[i.address] = i.merchant
            /\ \A j \in intents :
                 /\ i.address # j.address
                 /\ i.merchant = j.merchant => i.key # j.key /\ i.reference # j.reference
  PROVE  ApiIInv'
<1>1. UNCHANGED <<clock, apiKeys, pool>>
  BY DEF CallStep
<1>2. ApiFounded(NoCall)'
  BY DEF ApiFounded, NoCall, ApiAuthenticated
<1>3. ApiRemembered'
  BY <1>1 DEF ApiIInv, ApiRemembered
<1>4. /\ nonces' \subseteq NonceRow /\ accepted' \subseteq Requests
      /\ \A m, n \in nonces' : m.apiKey = n.apiKey /\ m.nonce = n.nonce => m = n
  BY DEF ApiIInv, ApiTypeOK
<1>5. /\ intents' \subseteq Intent /\ intents \subseteq intents' /\ i \in intents'
  BY DEF ApiIInv, ApiTypeOK
<1>6. \A j, k \in intents' :
        \/ j.address = k.address
        \/ j.merchant = k.merchant /\ (j.key = k.key \/ j.reference = k.reference)
        => j = k
  <2>1. \A j, k \in intents :
          \/ j.address = k.address
          \/ j.merchant = k.merchant /\ (j.key = k.key \/ j.reference = k.reference)
          => j = k
    BY DEF ApiIInv, ApiTypeOK
  <2> QED
    BY <2>1
<1>7. \A j \in intents' : pool[j.address] = j.merchant
  BY DEF ApiIInv, ApiPlaced
<1>8. r \in accepted
  BY ApiOwnCall DEF ApiFounded
<1>9. answers' = answers \cup {[request |-> r, intent |-> i]}
  BY DEF AnswerWith
<1>10. /\ answers' \subseteq Answer
       /\ \A x \in answers' \ answers :
            /\ x.request \in accepted
            /\ x.intent \in intents'
            /\ x.intent.merchant = Owner[x.request.apiKey]
            /\ x.intent.reference = x.request.reference
            /\ x.intent.terms = x.request.terms
  BY <1>5, <1>8, <1>9 DEF Answer, ApiIInv, ApiTypeOK
<1> QED
  BY <1>2, <1>3, <1>4, <1>5, <1>6, <1>7, <1>10, ApiIdleCall, ApiCallKeeps

LEMMA ApiFindIntentKeeps ==
  ASSUME ApiIInv, NEW h \in Handlers, FindIntent(h) PROVE ApiIInv'
<1>1. PICK r : r = call[h].request
  OBVIOUS
<1>2. r \in Requests /\ call[h].at \in ApiAuthenticated
  BY <1>1, ApiOwnCall DEF FindIntent, ApiFounded, ApiAuthenticated
<1>3. PICK i \in Existing(r) : SameOrder(r, i) /\ AnswerWith(r, i)
  BY <1>1 DEF FindIntent
<1>4. /\ i \in intents /\ i \in Intent /\ i.merchant = Owner[r.apiKey]
      /\ i.reference = r.reference /\ i.terms = r.terms
  BY <1>3 DEF Existing, SameOrder, ApiIInv, ApiTypeOK
<1>5. CallStep(h, NoCall) /\ UNCHANGED <<nonces, accepted, intents>>
  BY DEF FindIntent
<1> QED
  BY <1>1, <1>2, <1>3, <1>4, <1>5, ApiAnswerKeeps

LEMMA ApiInsertIntentKeeps ==
  ASSUME ApiIInv, NEW h \in Handlers, InsertIntent(h) PROVE ApiIInv'
<1>1. PICK r, a : r = call[h].request /\ a = call[h].address
  OBVIOUS
<1>2. /\ r \in Requests /\ call[h].at \in ApiAuthenticated
      /\ a \in Addresses /\ pool[a] = Owner[r.apiKey]
  BY <1>1, ApiOwnCall DEF InsertIntent, ApiFounded, ApiAuthenticated
<1>3. PICK i : i = [merchant |-> Owner[r.apiKey], key |-> r.key,
                    reference |-> r.reference, terms |-> r.terms, address |-> a]
  OBVIOUS
<1>4. /\ i \in Intent /\ i.merchant = Owner[r.apiKey] /\ i.key = r.key
      /\ i.reference = r.reference /\ i.terms = r.terms /\ i.address = a
  BY <1>2, <1>3, ApiRequestTypes DEF Intent, ApiIInv
<1>5. /\ intents' = intents \cup {i} /\ AnswerWith(r, i) /\ CallStep(h, NoCall)
      /\ UNCHANGED <<nonces, accepted>>
  BY <1>1, <1>3 DEF InsertIntent
<1>6. \A j \in intents :
        /\ i.address # j.address
        /\ i.merchant = j.merchant => i.key # j.key /\ i.reference # j.reference
  BY <1>1, <1>4 DEF InsertIntent, Taken
<1> QED
  BY <1>1, <1>2, <1>4, <1>5, <1>6, ApiAnswerKeeps

-----------------------------------------------------------------------------
(* The theorems *)

LEMMA ApiCreateDepositKeeps ==
  ASSUME ApiIInv, NEW h \in Handlers, CreateDeposit(h) PROVE ApiIInv'
<1>1. CASE \E r \in Requests : Receive(h, r)
  BY <1>1, ApiReceiveKeeps
<1>2. CASE CheckTimestamp(h)
  BY <1>2, ApiMoveKeeps DEF CheckTimestamp
<1>3. CASE FindActiveKey(h)
  BY <1>3, ApiMoveKeeps DEF FindActiveKey
<1>4. CASE ConsumeNonce(h)
  BY <1>4, ApiConsumeNonceKeeps
<1>5. CASE FindIntent(h) \/ InsertIntent(h)
  BY <1>5, ApiFindIntentKeeps, ApiInsertIntentKeeps
<1>6. CASE FindNoIntent(h)
  BY <1>6, ApiMoveKeeps DEF FindNoIntent, ApiAuthenticated
<1>7. CASE SeeFreeAddresses(h) \/ LockAddress(h)
  BY <1>7, ApiSeeFreeAddressesKeeps, ApiLockAddressKeeps
<1>8. CASE InsertConflict(h)
  BY <1>8, ApiMoveKeeps DEF InsertConflict, ApiAuthenticated
<1>9. CASE Abandon(h)
  BY <1>9, ApiIdleCall, ApiUnwrittenKeeps DEF Abandon
<1> QED
  BY <1>1, <1>2, <1>3, <1>4, <1>5, <1>6, <1>7, <1>8, <1>9 DEF CreateDeposit

LEMMA ApiNextIInv == ApiIInv /\ [ApiNext]_apiVars => ApiIInv'
<1> SUFFICES ASSUME ApiIInv, [ApiNext]_apiVars PROVE ApiIInv'
  OBVIOUS
<1>1. CASE UNCHANGED apiVars
  <2>1. clock' >= clock
    BY <1>1 DEF apiVars, ApiIInv, ApiTypeOK
  <2> QED
    BY <1>1, <2>1, ApiOutsideKeeps DEF apiVars, ApiIInv, ApiTypeOK
<1> QED
  BY <1>1, ApiOutsideStepKeeps, ApiCreateDepositKeeps DEF ApiNext

LEMMA ApiInvariant == ApiSpec => []ApiIInv
BY ApiInitIInv, ApiNextIInv, PTL DEF ApiSpec

\* The tables keep their types and unique keys: an address is given to one intent,
\* and a key or a reference of a merchant to one intent.
THEOREM ApiTypeCorrect == ApiSpec => []ApiTypeOK
<1>1. ApiIInv => ApiTypeOK
  BY DEF ApiIInv
<1> QED
  BY <1>1, ApiInvariant, PTL

\* Whatever was repeated, raced or lost, the answers a merchant got agree with the
\* tables and with each other.
THEOREM ApiRepliesAgreeAlways == ApiSpec => []RepliesAgree
<1>1. ASSUME ApiIInv PROVE RepliesAgree
  <2>1. \A x \in answers : pool[x.intent.address] = x.intent.merchant
    BY <1>1 DEF ApiIInv, ApiAnswered, ApiPlaced
  <2>2. ASSUME NEW x \in answers, NEW y \in answers
        PROVE  x.intent.address = y.intent.address <=>
                 /\ Owner[x.request.apiKey] = Owner[y.request.apiKey]
                 /\ x.request.reference = y.request.reference
    <3>1. /\ x.intent \in intents /\ y.intent \in intents
          /\ x.intent.merchant = Owner[x.request.apiKey]
          /\ y.intent.merchant = Owner[y.request.apiKey]
          /\ x.intent.reference = x.request.reference
          /\ y.intent.reference = y.request.reference
      BY <1>1 DEF ApiIInv, ApiAnswered
    <3>2. \A i, j \in intents :
            \/ i.address = j.address
            \/ i.merchant = j.merchant /\ (i.key = j.key \/ i.reference = j.reference)
            => i = j
      BY <1>1 DEF ApiIInv, ApiTypeOK
    <3> QED
      BY <3>1, <3>2
  <2> QED
    BY <1>1, <2>1, <2>2 DEF ApiIInv, ApiAnswered, RepliesAgree
<1> QED
  BY <1>1, ApiInvariant, PTL

\* A request is accepted twice only at the very end of its window, for any clock.
THEOREM ApiNonceOnceAlways == ApiSpec => NonceOnce
<1>1. ASSUME ApiIInv, [ApiNext]_apiVars
      PROVE  [\A h \in Handlers :
                /\ call[h].at = "known" /\ call'[h].at = "authenticated"
                /\ call[h].request \in accepted
                => clock >= call[h].request.time + MaxSkew]_apiVars
  <2> SUFFICES ASSUME ApiNext, NEW h \in Handlers,
                      call[h].at = "known", call'[h].at = "authenticated",
                      call[h].request \in accepted
               PROVE  clock >= call[h].request.time + MaxSkew
    BY <1>1
  <2>1. /\ call \in [Handlers -> Call] /\ call[h].request \in Requests
        /\ clock \in Nat /\ call[h].request.time \in Nat /\ MaxSkew \in Nat
    BY <1>1, ApiRequestTypes, RequestsAssumption DEF ApiIInv, ApiTypeOK
  <2>2. ~UNCHANGED call
    OBVIOUS
  <2>3. ~(Tick \/ (\E k \in ApiKeys : ProvisionKey(k) \/ KeyEnds(k))
           \/ \E a \in Addresses, m \in Merchants : RegisterAddress(a, m))
    BY <2>2 DEF Tick, ProvisionKey, KeyEnds, RegisterAddress, NewAddress,
                ExistingAddress, apiVars
  <2>4. PICK g \in Handlers : CreateDeposit(g)
    BY <2>3 DEF ApiNext
  <2>5. g = h
    <3>1. PICK c : CallStep(g, c)
      BY <2>4 DEF CreateDeposit, Receive, CheckTimestamp, FindActiveKey,
                  ConsumeNonce, FindIntent, FindNoIntent, SeeFreeAddresses,
                  LockAddress, InsertIntent, InsertConflict, Abandon
    <3> QED
      BY <2>1, <3>1 DEF CallStep
  <2>6. ConsumeNonce(h) \/ Abandon(h)
    BY <2>4, <2>5 DEF CreateDeposit, Receive, CheckTimestamp, FindActiveKey,
                      FindIntent, FindNoIntent, SeeFreeAddresses, LockAddress,
                      InsertIntent, InsertConflict
  <2>7. ~CallStep(h, NoCall)
    BY <2>1 DEF CallStep, NoCall
  <2>8. ~\E n \in nonces : /\ n.apiKey = call[h].request.apiKey
                          /\ n.nonce = call[h].request.nonce
    BY <2>6, <2>7 DEF ConsumeNonce, Abandon
  <2> QED
    BY <1>1, <2>1, <2>8 DEF ApiIInv, ApiRemembered
<1> QED
  BY <1>1, ApiInvariant, PTL DEF ApiSpec, NonceOnce

-----------------------------------------------------------------------------
(***************************************************************************)
(* WebhookDelivery, for any number of events, endpoints, processes,        *)
(* attempts and faults, and for identifiers shared or not.                 *)
(***************************************************************************)

(* The inductive invariant *)

HookEventRow == [status : {"absent", "pending", "processing", "succeeded", "dead"},
             owner : {Nil} \cup HookOwners, live : BOOLEAN, due : BOOLEAN,
             attempts : Nat]
HookWork == [at : {"idle", "next", "send", "record"}, batch : SUBSET Events,
         claimed : [Events -> Nat], current : {Nil} \cup Events,
         targets : SUBSET Endpoints, endpoint : {Nil} \cup Endpoints,
         ok : BOOLEAN, failed : BOOLEAN]

\* As much of TypeOK as the properties need: how attempts are counted plays no part.
HookShape ==
  /\ event \in [Events -> HookEventRow]
  /\ \A e \in Events : event[e].live => event[e].status = "processing"
  /\ process \in [HookProcesses -> HookWork]

\* A process handles an event of its batch.
HookWellFormed(b) ==
  /\ b.at \in {"send", "record"} => b.current \in b.batch
  /\ b.at \in {"idle", "next"} => b.current = Nil
  /\ b.at = "record" => b.endpoint \in Endpoints /\ b.endpoint \notin b.targets
  /\ b.at # "record" => b.endpoint = Nil

HookHandling == \A p \in HookProcesses : HookWellFormed(process[p])

\* While an event is in a batch its lease lasts, and it is in no other.
HookExclusive ==
  \A p \in HookProcesses : \A e \in process[p].batch :
    /\ event[e].live
    /\ \A q \in HookProcesses : q # p => e \notin process[q].batch

\* Of the event in the handler an endpoint has acknowledged, is still to be sent
\* to, or has made this attempt a failure.
HookProgress ==
  \A p \in HookProcesses, n \in Endpoints : process[p].at \in {"send", "record"} =>
    \/ Acknowledged(process[p].current, n)
    \/ n \in process[p].targets
    \/ process[p].failed
    \/ process[p].at = "record" /\ process[p].endpoint = n

\* Nothing that is still to be sent was acknowledged.
HookNeeded ==
  \A p \in HookProcesses, n \in Endpoints :
    process[p].at \in {"send", "record"} /\ n \in process[p].targets =>
      ~Acknowledged(process[p].current, n)

HookIInv ==
  /\ HookShape /\ HookHandling /\ HookExclusive /\ HookProgress /\ HookNeeded
  /\ SucceededReachedAll

LEMMA HookIdleWork ==
  NoBatch \in HookWork /\ HookWellFormed(NoBatch) /\ NoBatch.at = "idle" /\ NoBatch.batch = {}
BY DEF NoBatch, HookWork, HookWellFormed

LEMMA HookInitIInv == HookInit => HookIInv
<1> SUFFICES ASSUME HookInit PROVE HookIInv
  OBVIOUS
<1>1. HookShape
  BY HookIdleWork DEF HookInit, HookShape, HookEventRow
<1>2. \A p \in HookProcesses : process[p] = NoBatch
  BY DEF HookInit
<1>3. HookHandling /\ HookExclusive /\ HookProgress /\ HookNeeded
  BY <1>2, HookIdleWork DEF HookHandling, HookExclusive, HookProgress, HookNeeded
<1>4. SucceededReachedAll
  BY DEF HookInit, SucceededReachedAll
<1> QED
  BY <1>1, <1>3, <1>4 DEF HookIInv

-----------------------------------------------------------------------------
(* What a step may change *)

\* A step of the outbox alone leaves the leases of the batches.
LEMMA HookOutboxKeeps ==
  ASSUME HookIInv, UNCHANGED <<attempts, process>>,
         event' \in [Events -> HookEventRow],
         \A e \in Events :
           /\ event'[e].live => event'[e].status = "processing"
           /\ event'[e].status = "succeeded" => event[e].status = "succeeded"
           /\ (\E p \in HookProcesses : e \in process[p].batch) => event'[e].live
  PROVE  HookIInv'
<1>1. HookShape' /\ HookHandling'
  BY DEF HookIInv, HookShape, HookHandling, HookWellFormed
<1>2. HookExclusive'
  BY DEF HookIInv, HookShape, HookExclusive, HookWork
<1>3. HookProgress' /\ HookNeeded'
  BY DEF HookIInv, HookProgress, HookNeeded, Acknowledged
<1>4. SucceededReachedAll'
  BY DEF HookIInv, SucceededReachedAll
<1> QED
  BY <1>1, <1>2, <1>3, <1>4 DEF HookIInv

\* A step of one process keeps the events of the others claimed, and records
\* attempts at its own event only.
LEMMA HookProcessKeeps ==
  ASSUME HookIInv, NEW p \in HookProcesses, NEW b \in HookWork,
         process' = [process EXCEPT ![p] = b],
         HookWellFormed(b),
         event' \in [Events -> HookEventRow],
         \A e \in Events :
           /\ event'[e].live => event'[e].status = "processing"
           /\ event'[e].status = "succeeded" /\ event[e].status # "succeeded" =>
                \A n \in Endpoints : Acknowledged(e, n),
         \A e \in b.batch : event'[e].live,
         \A q \in HookProcesses \ {p} : \A e \in process[q].batch :
           event'[e].live /\ e \notin b.batch,
         attempts \subseteq attempts',
         \A a \in attempts' \ attempts : a.event \in process[p].batch,
         \A n \in Endpoints : b.at \in {"send", "record"} =>
           /\ \/ Acknowledged(b.current, n)'
              \/ n \in b.targets \/ b.failed
              \/ b.at = "record" /\ b.endpoint = n
           /\ n \in b.targets => ~Acknowledged(b.current, n)'
  PROVE  HookIInv'
<1>1. \A q \in HookProcesses : process'[q] = IF q = p THEN b ELSE process[q]
  BY DEF HookIInv, HookShape
<1>2. \A e, n : Acknowledged(e, n) => Acknowledged(e, n)'
  BY DEF Acknowledged
<1>3. \A e, n : Acknowledged(e, n)' /\ e \notin process[p].batch => Acknowledged(e, n)
  BY DEF Acknowledged
<1>4. HookShape' /\ HookHandling'
  BY <1>1 DEF HookIInv, HookShape, HookHandling
<1>5. HookExclusive'
  BY <1>1 DEF HookIInv, HookExclusive
<1>6. \A q \in HookProcesses : q # p /\ process[q].at \in {"send", "record"} =>
        process[q].current \notin process[p].batch
  BY DEF HookIInv, HookHandling, HookWellFormed, HookExclusive
<1>7. HookProgress'
  <2> SUFFICES ASSUME NEW q \in HookProcesses, NEW n \in Endpoints,
                      process'[q].at \in {"send", "record"}
               PROVE  \/ Acknowledged(process[q].current, n)'
                      \/ n \in process'[q].targets \/ process'[q].failed
                      \/ process'[q].at = "record" /\ process'[q].endpoint = n
    BY DEF HookProgress
  <2> QED
    BY <1>1, <1>2 DEF HookIInv, HookProgress
<1>8. HookNeeded'
  BY <1>1, <1>3, <1>6 DEF HookIInv, HookNeeded
<1>9. SucceededReachedAll'
  BY <1>2 DEF HookIInv, SucceededReachedAll, Acknowledged
<1> QED
  BY <1>4, <1>5, <1>7, <1>8, <1>9 DEF HookIInv

\* The process gives up its batch, or one event of it.
LEMMA HookBatchKeeps ==
  ASSUME HookIInv, NEW p \in HookProcesses, NEW b \in HookWork,
         process' = [process EXCEPT ![p] = b],
         HookWellFormed(b), b.at \in {"idle", "next"},
         b.batch \subseteq process[p].batch, UNCHANGED attempts,
         event' \in [Events -> HookEventRow],
         \A e \in Events :
           \/ event'[e] = event[e]
           \/ /\ e \in process[p].batch \ b.batch /\ ~event'[e].live
              /\ event'[e].status = "succeeded" =>
                   \A n \in Endpoints : Acknowledged(e, n)
  PROVE  HookIInv'
<1>1. \A e \in Events : event'[e].live => event'[e].status = "processing"
  BY DEF HookIInv, HookShape
<1>2. \A e \in Events : event'[e].status = "succeeded" /\ event[e].status # "succeeded" =>
        \A n \in Endpoints : Acknowledged(e, n)
  OBVIOUS
<1>3. \A e \in b.batch : event'[e].live
  BY DEF HookIInv, HookShape, HookWork, HookExclusive
<1>4. \A q \in HookProcesses \ {p} : \A e \in process[q].batch :
        event'[e].live /\ e \notin b.batch
  BY DEF HookIInv, HookShape, HookWork, HookExclusive
<1>5. b.at \notin {"send", "record"}
  OBVIOUS
<1> QED
  BY <1>1, <1>2, <1>3, <1>4, <1>5, HookProcessKeeps

\* The handler goes on with its event, the outbox stays as it is.
LEMMA HookHandlerKeeps ==
  ASSUME HookIInv, NEW p \in HookProcesses, NEW b \in HookWork,
         process' = [process EXCEPT ![p] = b],
         HookWellFormed(b), b.batch = process[p].batch, UNCHANGED event,
         attempts \subseteq attempts',
         \A a \in attempts' \ attempts : a.event \in process[p].batch,
         \A n \in Endpoints : b.at \in {"send", "record"} =>
           /\ \/ Acknowledged(b.current, n)'
              \/ n \in b.targets \/ b.failed
              \/ b.at = "record" /\ b.endpoint = n
           /\ n \in b.targets => ~Acknowledged(b.current, n)'
  PROVE  HookIInv'
<1>1. /\ event' \in [Events -> HookEventRow]
      /\ \A e \in Events : event'[e].live => event'[e].status = "processing"
  BY DEF HookIInv, HookShape
<1>2. \A e \in b.batch : event'[e].live
  BY DEF HookIInv, HookExclusive
<1>3. \A q \in HookProcesses \ {p} : \A e \in process[q].batch :
        event'[e].live /\ e \notin b.batch
  BY DEF HookIInv, HookExclusive
<1> QED
  BY <1>1, <1>2, <1>3, HookProcessKeeps

-----------------------------------------------------------------------------
(* The actions *)

LEMMA HookOutboxStepKeeps ==
  ASSUME HookIInv, NEW e \in Events,
         EnqueueInTransaction(e) \/ EventLeaseExpires(e) \/ BecomesDue(e)
  PROVE  HookIInv'
<1>1. event[e] \in HookEventRow
  BY DEF HookIInv, HookShape
<1>2. UNCHANGED <<attempts, process>>
  BY DEF EnqueueInTransaction, EventLeaseExpires, BecomesDue
<1>3. ASSUME NEW row \in HookEventRow, event' = [event EXCEPT ![e] = row],
             row.live => row.status = "processing",
             row.status = "succeeded" => event[e].status = "succeeded",
             (\E p \in HookProcesses : e \in process[p].batch) => row.live
      PROVE  HookIInv'
  <2>1. event' \in [Events -> HookEventRow]
    BY <1>3 DEF HookIInv, HookShape
  <2>2. \A d \in Events : event'[d] = IF d = e THEN row ELSE event[d]
    BY <1>3 DEF HookIInv, HookShape
  <2>3. \A d \in Events :
          /\ event'[d].live => event'[d].status = "processing"
          /\ event'[d].status = "succeeded" => event[d].status = "succeeded"
          /\ (\E p \in HookProcesses : d \in process[p].batch) => event'[d].live
    BY <1>3, <2>2 DEF HookIInv, HookShape, HookExclusive
  <2> QED
    BY <1>2, <2>1, <2>3, HookOutboxKeeps
<1>4. (\E p \in HookProcesses : e \in process[p].batch) =>
        event[e].live /\ event[e].status = "processing"
  BY DEF HookIInv, HookExclusive, HookShape
<1>5. CASE EnqueueInTransaction(e)
  <2>1. PICK row : row = [event[e] EXCEPT !.status = "pending"]
    OBVIOUS
  <2>2. row \in HookEventRow /\ row.status = "pending" /\ row.live = event[e].live
    BY <1>1, <2>1 DEF HookEventRow
  <2>3. event' = [event EXCEPT ![e] = row]
    BY <1>5, <2>1 DEF EnqueueInTransaction
  <2>4. ~event[e].live
    BY <1>5 DEF EnqueueInTransaction, HookIInv, HookShape
  <2> QED
    BY <1>3, <1>4, <2>2, <2>3, <2>4
<1>6. CASE EventLeaseExpires(e)
  <2>1. PICK row : row = [event[e] EXCEPT !.live = FALSE]
    OBVIOUS
  <2>2. row \in HookEventRow /\ row.status = event[e].status /\ ~row.live
    BY <1>1, <2>1 DEF HookEventRow
  <2>3. event' = [event EXCEPT ![e] = row]
    BY <1>6, <2>1 DEF EventLeaseExpires
  <2>4. \A p \in HookProcesses : e \notin process[p].batch
    BY <1>6 DEF EventLeaseExpires, Outlasted
  <2> QED
    BY <1>3, <2>2, <2>3, <2>4
<1>7. CASE BecomesDue(e)
  <2>1. PICK row : row = [event[e] EXCEPT !.due = TRUE]
    OBVIOUS
  <2>2. row \in HookEventRow /\ row.status = event[e].status /\ row.live = event[e].live
    BY <1>1, <2>1 DEF HookEventRow
  <2>3. event' = [event EXCEPT ![e] = row]
    BY <1>7, <2>1 DEF BecomesDue
  <2>4. row.live => row.status = "processing"
    BY <2>2 DEF HookIInv, HookShape
  <2> QED
    BY <1>3, <1>4, <2>2, <2>3, <2>4
<1> QED
  BY <1>5, <1>6, <1>7

LEMMA HookClaimKeeps ==
  ASSUME HookIInv, NEW p \in HookProcesses, ClaimBatch(p) PROVE HookIInv'
<1>1. PICK batch \in SUBSET {e \in Events : Claimable(e)} :
        /\ event' = [e \in Events |-> IF e \in batch
             THEN [status |-> "processing", owner |-> HookWorkerId[p], live |-> TRUE,
                   due |-> TRUE, attempts |-> Counted(e)]
             ELSE event[e]]
        /\ process' = [process EXCEPT ![p] =
             [NoBatch EXCEPT !.at = "next", !.batch = batch,
                !.claimed = [e \in Events |-> IF e \in batch THEN Counted(e) ELSE 0]]]
  BY DEF ClaimBatch
<1>2. \A e \in Events : event[e] \in HookEventRow /\ Counted(e) \in Nat
  BY DEF HookIInv, HookShape, HookEventRow, Counted
<1>3. PICK claimed : claimed = [e \in Events |-> IF e \in batch THEN Counted(e) ELSE 0]
  OBVIOUS
<1>4. claimed \in [Events -> Nat]
  BY <1>2, <1>3
<1>5. PICK b : b = [NoBatch EXCEPT !.at = "next", !.batch = batch, !.claimed = claimed]
  OBVIOUS
<1>6. b \in HookWork /\ HookWellFormed(b) /\ b.at = "next" /\ b.batch = batch
  BY <1>4, <1>5 DEF NoBatch, HookWork, HookWellFormed
<1>7. process' = [process EXCEPT ![p] = b]
  BY <1>1, <1>3, <1>5
<1>8. event' \in [Events -> HookEventRow]
  BY <1>1, <1>2 DEF HookEventRow, HookOwners
<1>9. \A e \in Events : e \in batch => \A q \in HookProcesses : e \notin process[q].batch
  BY <1>2 DEF Claimable, HookIInv, HookShape, HookExclusive
<1>10. \A e \in Events :
         /\ e \in batch => event'[e].live /\ event'[e].status = "processing"
         /\ e \notin batch => event'[e] = event[e]
  BY <1>1
<1>11. \A e \in Events :
         /\ event'[e].live => event'[e].status = "processing"
         /\ ~(event'[e].status = "succeeded" /\ event[e].status # "succeeded")
  BY <1>10 DEF HookIInv, HookShape
<1>12. \A e \in b.batch : event'[e].live
  BY <1>6, <1>10
<1>13. \A q \in HookProcesses \ {p} : \A e \in process[q].batch :
         event'[e].live /\ e \notin b.batch
  BY <1>6, <1>9, <1>10 DEF HookIInv, HookShape, HookWork, HookExclusive
<1>14. UNCHANGED attempts
  BY DEF ClaimBatch
<1>15. b.at \notin {"send", "record"}
  BY <1>6
<1> QED
  BY <1>6, <1>7, <1>8, <1>11, <1>12, <1>13, <1>14, <1>15, HookProcessKeeps

LEMMA HookOwnWork ==
  ASSUME HookIInv, NEW p \in HookProcesses
  PROVE  process[p] \in HookWork /\ HookWellFormed(process[p])
BY DEF HookIInv, HookShape, HookHandling

LEMMA HookHandleKeeps ==
  ASSUME HookIInv, NEW p \in HookProcesses, Handle(p) PROVE HookIInv'
<1>1. PICK e \in process[p].batch :
        process' = [process EXCEPT ![p].at = "send", ![p].current = e,
                                   ![p].targets = PendingEndpoints(e),
                                   ![p].failed = FALSE]
  BY DEF Handle
<1>2. PICK targets : targets = PendingEndpoints(e)
  OBVIOUS
<1>3. PICK b : b = [process[p] EXCEPT !.at = "send", !.current = e,
                                      !.targets = targets, !.failed = FALSE]
  OBVIOUS
<1>4. process[p] \in HookWork /\ HookWellFormed(process[p]) /\ process[p].at = "next"
  BY HookOwnWork DEF Handle
<1>5. targets \subseteq Endpoints /\ e \in Events
  BY <1>2, <1>4 DEF PendingEndpoints, HookWork
<1>6. /\ b \in HookWork /\ b.at = "send" /\ b.current = e /\ b.targets = targets
      /\ b.batch = process[p].batch /\ b.endpoint = process[p].endpoint
  BY <1>3, <1>4, <1>5 DEF HookWork
<1>7. HookWellFormed(b)
  BY <1>4, <1>6 DEF HookWellFormed
<1>8. process' = [process EXCEPT ![p] = b]
  BY <1>1, <1>2, <1>3 DEF HookIInv, HookShape
<1>9. UNCHANGED <<event, attempts>>
  BY DEF Handle
<1>10. \A n \in Endpoints : Acknowledged(e, n)' = Acknowledged(e, n)
  BY <1>9 DEF Acknowledged
<1>11. \A n \in Endpoints :
         /\ Acknowledged(b.current, n)' \/ n \in b.targets
         /\ n \in b.targets => ~Acknowledged(b.current, n)'
  BY <1>2, <1>6, <1>10 DEF PendingEndpoints
<1> QED
  BY <1>6, <1>7, <1>8, <1>9, <1>11, HookHandlerKeeps

LEMMA HookSendKeeps ==
  ASSUME HookIInv, NEW p \in HookProcesses, NEW n \in Endpoints, Send(p, n) PROVE HookIInv'
<1>1. PICK ok \in BOOLEAN :
        process' = [process EXCEPT ![p].at = "record", ![p].endpoint = n,
                                   ![p].ok = ok, ![p].targets = @ \ {n}]
  BY DEF Send
<1>2. PICK b : b = [process[p] EXCEPT !.at = "record", !.endpoint = n, !.ok = ok,
                                      !.targets = process[p].targets \ {n}]
  OBVIOUS
<1>3. process[p] \in HookWork /\ HookWellFormed(process[p]) /\ process[p].at = "send"
  BY HookOwnWork DEF Send
<1>4. /\ b \in HookWork /\ b.at = "record" /\ b.endpoint = n
      /\ b.targets = process[p].targets \ {n} /\ b.batch = process[p].batch
      /\ b.current = process[p].current /\ b.failed = process[p].failed
  BY <1>2, <1>3 DEF HookWork
<1>5. HookWellFormed(b)
  BY <1>3, <1>4 DEF HookWellFormed
<1>6. process' = [process EXCEPT ![p] = b]
  BY <1>1, <1>2 DEF HookIInv, HookShape
<1>7. UNCHANGED <<event, attempts>>
  BY DEF Send
<1>8. \A m \in Endpoints : Acknowledged(b.current, m)' <=> Acknowledged(process[p].current, m)
  BY <1>4, <1>7 DEF Acknowledged
<1>9. \A m \in Endpoints :
        /\ \/ Acknowledged(process[p].current, m)
           \/ m \in process[p].targets
           \/ process[p].failed
        /\ m \in process[p].targets => ~Acknowledged(process[p].current, m)
  BY <1>3 DEF HookIInv, HookProgress, HookNeeded
<1>10. \A m \in Endpoints :
         /\ \/ Acknowledged(b.current, m)'
            \/ m \in b.targets \/ b.failed
            \/ b.at = "record" /\ b.endpoint = m
         /\ m \in b.targets => ~Acknowledged(b.current, m)'
  BY <1>4, <1>8, <1>9
<1> QED
  BY <1>4, <1>5, <1>6, <1>7, <1>10, HookHandlerKeeps

\* An answer is stored, or the attempt counts as failed.
LEMMA HookRecordKeeps ==
  ASSUME HookIInv, NEW p \in HookProcesses, RecordAttempt(p) \/ RecordFails(p) PROVE HookIInv'
<1>1. process[p] \in HookWork /\ HookWellFormed(process[p]) /\ process[p].at = "record"
  BY HookOwnWork DEF RecordAttempt, RecordFails
<1>2. /\ UNCHANGED event
      /\ attempts' = attempts \/ attempts' = attempts \cup {Record(p)}
  BY DEF RecordAttempt, RecordFails
<1>3. PICK failed \in BOOLEAN :
        /\ process' = [process EXCEPT ![p].at = "send", ![p].endpoint = Nil,
                                      ![p].ok = FALSE, ![p].failed = failed]
        /\ failed <=> \/ RecordFails(p)
                      \/ process[p].failed \/ ~process[p].ok \/ ~Fresh(p)
  <2>1. CASE RecordFails(p)
    BY <2>1 DEF RecordFails
  <2>2. CASE RecordAttempt(p) /\ ~RecordFails(p)
    BY <2>2 DEF RecordAttempt, HookIInv, HookShape
  <2> QED
    BY <2>1, <2>2
<1>4. PICK b : b = [process[p] EXCEPT !.at = "send", !.endpoint = Nil,
                                      !.ok = FALSE, !.failed = failed]
  OBVIOUS
<1>5. /\ b \in HookWork /\ b.at = "send" /\ b.endpoint = Nil /\ b.failed = failed
      /\ b.targets = process[p].targets /\ b.batch = process[p].batch
      /\ b.current = process[p].current
  BY <1>1, <1>4 DEF HookWork
<1>6. HookWellFormed(b)
  BY <1>1, <1>5 DEF HookWellFormed
<1>7. process' = [process EXCEPT ![p] = b]
  BY <1>3, <1>4 DEF HookIInv, HookShape
<1>8. /\ Record(p).event = process[p].current /\ Record(p).endpoint = process[p].endpoint
      /\ Record(p).ok = process[p].ok
  BY DEF Record
<1>9. /\ attempts \subseteq attempts'
      /\ \A a \in attempts' \ attempts : a.event \in process[p].batch
  BY <1>1, <1>2, <1>8 DEF HookWellFormed
<1>10. PICK n : n = process[p].endpoint
  OBVIOUS
<1>11. ~failed => Acknowledged(b.current, n)'
  <2>1. ~failed => Record(p) \in attempts' /\ Record(p).ok
    BY <1>3, <1>8 DEF RecordAttempt
  <2> QED
    BY <2>1, <1>5, <1>8, <1>10 DEF Acknowledged
<1>12. \A m \in Endpoints :
         /\ \/ Acknowledged(b.current, m)
            \/ m \in b.targets \/ process[p].failed \/ m = n
         /\ m \in b.targets => ~Acknowledged(b.current, m) /\ m # n
  BY <1>1, <1>5, <1>10 DEF HookIInv, HookProgress, HookNeeded, HookWellFormed
<1>13. \A m : Acknowledged(b.current, m) => Acknowledged(b.current, m)'
  BY <1>9 DEF Acknowledged
<1>14. \A m : Acknowledged(b.current, m)' => Acknowledged(b.current, m) \/ m = n
  BY <1>2, <1>8, <1>10 DEF Acknowledged
<1>15. process[p].failed => failed
  BY <1>3
<1>16. \A m \in Endpoints :
         /\ Acknowledged(b.current, m)' \/ m \in b.targets \/ b.failed
         /\ m \in b.targets => ~Acknowledged(b.current, m)'
  BY <1>5, <1>11, <1>12, <1>13, <1>14, <1>15
<1> QED
  BY <1>2, <1>5, <1>6, <1>7, <1>9, <1>16, HookHandlerKeeps

\* What Leave leaves.
LEMMA HookLeaveWork ==
  ASSUME HookIInv, NEW p \in HookProcesses, NEW e \in process[p].batch, Leave(p, e)
  PROVE  \E b \in HookWork :
           /\ process' = [process EXCEPT ![p] = b] /\ HookWellFormed(b)
           /\ b.at \in {"idle", "next"} /\ b.batch = process[p].batch \ {e}
<1>1. process[p] \in HookWork
  BY HookOwnWork
<1>2. CASE process[p].batch = {e}
  <2>1. process' = [process EXCEPT ![p] = NoBatch]
    BY <1>2 DEF Leave
  <2> QED
    BY <2>1, <1>2, HookIdleWork
<1>3. CASE process[p].batch # {e}
  <2>1. PICK claimed : claimed = [process[p].claimed EXCEPT ![e] = 0]
    OBVIOUS
  <2>2. claimed \in [Events -> Nat]
    BY <1>1, <2>1 DEF HookWork
  <2>3. PICK b : b = [NoBatch EXCEPT !.at = "next", !.batch = process[p].batch \ {e},
                                  !.claimed = claimed]
    OBVIOUS
  <2>4. /\ b \in HookWork /\ b.at = "next" /\ b.batch = process[p].batch \ {e}
        /\ b.current = Nil /\ b.endpoint = Nil
    BY <1>1, <2>2, <2>3 DEF NoBatch, HookWork
  <2>5. process' = [process EXCEPT ![p] = b]
    BY <1>3, <2>1, <2>3 DEF Leave
  <2>6. HookWellFormed(b)
    BY <2>4 DEF HookWellFormed
  <2> QED
    BY <2>4, <2>5, <2>6
<1> QED
  BY <1>2, <1>3

\* An event leaves its batch, as it was or with a mark.
LEMMA HookLeaveKeeps ==
  ASSUME HookIInv, NEW p \in HookProcesses, NEW e \in process[p].batch, Leave(p, e),
         UNCHANGED attempts,
         \/ UNCHANGED event
         \/ \E row \in HookEventRow :
              /\ event' = [event EXCEPT ![e] = row] /\ ~row.live
              /\ row.status = "succeeded" => \A n \in Endpoints : Acknowledged(e, n)
  PROVE  HookIInv'
<1>1. PICK b \in HookWork :
        /\ process' = [process EXCEPT ![p] = b] /\ HookWellFormed(b)
        /\ b.at \in {"idle", "next"} /\ b.batch = process[p].batch \ {e}
  BY HookLeaveWork
<1>2. e \in Events /\ b.batch \subseteq process[p].batch /\ e \notin b.batch
  BY <1>1, HookOwnWork DEF HookWork
<1>3. CASE UNCHANGED event
  BY <1>1, <1>2, <1>3, HookBatchKeeps DEF HookIInv, HookShape
<1>4. ASSUME NEW row \in HookEventRow, event' = [event EXCEPT ![e] = row], ~row.live,
             row.status = "succeeded" => \A n \in Endpoints : Acknowledged(e, n)
      PROVE  HookIInv'
  <2>1. event' \in [Events -> HookEventRow]
    BY <1>4 DEF HookIInv, HookShape
  <2>2. \A d \in Events : event'[d] = IF d = e THEN row ELSE event[d]
    BY <1>4 DEF HookIInv, HookShape
  <2>3. \A d \in Events :
          \/ event'[d] = event[d]
          \/ /\ d \in process[p].batch \ b.batch /\ ~event'[d].live
             /\ event'[d].status = "succeeded" =>
                  \A n \in Endpoints : Acknowledged(d, n)
    BY <1>2, <1>4, <2>2
  <2> QED
    BY <1>1, <1>2, <2>1, <2>3, HookBatchKeeps
<1> QED
  BY <1>3, <1>4

LEMMA HookMarkKeeps ==
  ASSUME HookIInv, NEW p \in HookProcesses, NEW e \in process[p].batch,
         NEW status \in {"succeeded", "dead", "pending"}, NEW due \in BOOLEAN,
         Mark(p, e, status, due),
         status = "succeeded" => \A n \in Endpoints : Acknowledged(e, n)
  PROVE  HookIInv'
<1>1. event[e] \in HookEventRow
  BY HookOwnWork DEF HookIInv, HookShape, HookWork
<1>2. PICK row : row = [event[e] EXCEPT !.status = status, !.owner = Nil,
                                        !.live = FALSE, !.due = due]
  OBVIOUS
<1>3. row \in HookEventRow /\ ~row.live /\ row.status = status
  BY <1>1, <1>2 DEF HookEventRow
<1>4. event' = event \/ event' = [event EXCEPT ![e] = row]
  BY <1>2 DEF Mark, HookIInv, HookShape
<1>5. Leave(p, e) /\ UNCHANGED attempts
  BY DEF Mark
<1> QED
  BY <1>3, <1>4, <1>5, HookLeaveKeeps

LEMMA HookFinishKeeps ==
  ASSUME HookIInv, NEW p \in HookProcesses, Finish(p) PROVE HookIInv'
<1>1. PICK e : e = process[p].current
  OBVIOUS
<1>2. /\ e \in process[p].batch /\ process[p].at = "send"
      /\ process[p].targets = {}
  BY <1>1, HookOwnWork DEF Finish, HookWellFormed
<1>3. ~process[p].failed => \A n \in Endpoints : Acknowledged(e, n)
  BY <1>1, <1>2 DEF HookIInv, HookProgress
<1>4. \/ ~process[p].failed /\ Mark(p, e, "succeeded", TRUE)
      \/ Mark(p, e, "dead", TRUE)
      \/ Mark(p, e, "pending", FALSE)
  BY <1>1 DEF Finish
<1> QED
  BY <1>2, <1>3, <1>4, HookMarkKeeps

LEMMA HookGiveUpKeeps ==
  ASSUME HookIInv, NEW p \in HookProcesses, MarkFails(p) \/ HandleFails(p) \/ Stop(p)
  PROVE  HookIInv'
<1>1. CASE MarkFails(p)
  <2>1. PICK e : e = process[p].current
    OBVIOUS
  <2>2. e \in process[p].batch
    BY <1>1, <2>1, HookOwnWork DEF MarkFails, HookWellFormed
  <2> QED
    BY <1>1, <2>1, <2>2, HookLeaveKeeps DEF MarkFails
<1>2. CASE HandleFails(p)
  <2>1. PICK e \in process[p].batch :
          /\ Leave(p, e)
          /\ event' = IF ~Owned(p, e) THEN event
               ELSE IF process[p].claimed[e] >= MaxAttempts
               THEN [event EXCEPT ![e].status = "dead", ![e].owner = Nil,
                                  ![e].live = FALSE]
               ELSE [event EXCEPT ![e].status = "pending", ![e].owner = Nil,
                                  ![e].live = FALSE, ![e].due = FALSE]
    BY <1>2 DEF HandleFails
  <2>2. event[e] \in HookEventRow
    BY HookOwnWork DEF HookIInv, HookShape, HookWork
  <2>3. PICK dead, retry :
          /\ dead = [event[e] EXCEPT !.status = "dead", !.owner = Nil, !.live = FALSE]
          /\ retry = [event[e] EXCEPT !.status = "pending", !.owner = Nil,
                                      !.live = FALSE, !.due = FALSE]
    OBVIOUS
  <2>4. /\ dead \in HookEventRow /\ ~dead.live /\ dead.status = "dead"
        /\ retry \in HookEventRow /\ ~retry.live /\ retry.status = "pending"
    BY <2>2, <2>3 DEF HookEventRow
  <2>5. \/ event' = event
        \/ event' = [event EXCEPT ![e] = dead]
        \/ event' = [event EXCEPT ![e] = retry]
    BY <2>1, <2>3 DEF HookIInv, HookShape
  <2>6. UNCHANGED attempts
    BY <1>2 DEF HandleFails
  <2> QED
    BY <2>1, <2>4, <2>5, <2>6, HookLeaveKeeps
<1>3. CASE Stop(p)
  <2>1. process' = [process EXCEPT ![p] = NoBatch] /\ UNCHANGED <<event, attempts>>
    BY <1>3 DEF Stop
  <2>2. NoBatch.batch \subseteq process[p].batch
    BY HookIdleWork
  <2> QED
    BY <2>1, <2>2, HookIdleWork, HookBatchKeeps DEF HookIInv, HookShape
<1> QED
  BY <1>1, <1>2, <1>3

-----------------------------------------------------------------------------
(* The theorems *)

LEMMA HookNextIInv == HookIInv /\ [HookNext]_hookVars => HookIInv'
<1> SUFFICES ASSUME HookIInv, [HookNext]_hookVars PROVE HookIInv'
  OBVIOUS
<1>1. ASSUME NEW e \in Events,
             EnqueueInTransaction(e) \/ EventLeaseExpires(e) \/ BecomesDue(e)
      PROVE  HookIInv'
  BY <1>1, HookOutboxStepKeeps
<1>2. ASSUME NEW p \in HookProcesses, ProcessStep(p) PROVE HookIInv'
  BY <1>2, HookClaimKeeps, HookHandleKeeps, HookSendKeeps, HookRecordKeeps, HookFinishKeeps
     DEF ProcessStep
<1>3. ASSUME NEW p \in HookProcesses,
             RecordFails(p) \/ MarkFails(p) \/ HandleFails(p) \/ Stop(p)
      PROVE  HookIInv'
  BY <1>3, HookRecordKeeps, HookGiveUpKeeps
<1>4. CASE UNCHANGED hookVars
  <2>1. /\ UNCHANGED <<attempts, process, event>>
    BY <1>4 DEF hookVars
  <2>2. \A e \in Events : (\E p \in HookProcesses : e \in process[p].batch) => event[e].live
    BY DEF HookIInv, HookExclusive
  <2> QED
    BY <2>1, <2>2, HookOutboxKeeps DEF HookIInv, HookShape
<1> QED
  BY <1>1, <1>2, <1>3, <1>4 DEF HookNext

LEMMA HookInvariant == HookSpec => []HookIInv
BY HookInitIInv, HookNextIInv, PTL DEF HookSpec

\* An event is a success only if all its endpoints acknowledged it, however many
\* processes share its deliveries, take over claims or fail in between.
THEOREM HookSucceededReachedAllAlways == HookSpec => []SucceededReachedAll
<1>1. HookIInv => SucceededReachedAll
  BY DEF HookIInv
<1> QED
  BY <1>1, HookInvariant, PTL

\* Only Send sends.
LEMMA HookOnlySendSends ==
  ASSUME HookIInv, HookNext, NEW p \in HookProcesses,
         process'[p].endpoint \notin {Nil, process[p].endpoint}
  PROVE  \E n \in Endpoints : Send(p, n)
<1>1. process \in [HookProcesses -> HookWork]
  BY DEF HookIInv, HookShape
<1>2. ASSUME NEW q \in HookProcesses, NEW e, Leave(q, e) PROVE FALSE
  <2>1. CASE q = p
    BY <1>1, <1>2, <2>1 DEF Leave, NoBatch
  <2>2. CASE q # p
    BY <1>1, <1>2, <2>2 DEF Leave
  <2> QED
    BY <2>1, <2>2
<1>3. ASSUME NEW e \in Events,
             EnqueueInTransaction(e) \/ EventLeaseExpires(e) \/ BecomesDue(e)
      PROVE  FALSE
  BY <1>3 DEF EnqueueInTransaction, EventLeaseExpires, BecomesDue
<1>4. ASSUME NEW q \in HookProcesses, ClaimBatch(q) \/ Stop(q) PROVE FALSE
  <2>1. \/ process'[p] = process[p]
        \/ process'[p].endpoint = Nil
    <3>1. CASE Stop(q)
      BY <1>1, <3>1 DEF Stop, NoBatch
    <3>2. CASE ClaimBatch(q)
      <4>1. PICK batch, claimed : process' = [process EXCEPT ![q] =
              [NoBatch EXCEPT !.at = "next", !.batch = batch, !.claimed = claimed]]
        BY <3>2 DEF ClaimBatch
      <4>2. [NoBatch EXCEPT !.at = "next", !.batch = batch,
                         !.claimed = claimed].endpoint = Nil
        BY DEF NoBatch
      <4> QED
        BY <1>1, <4>1, <4>2
    <3> QED
      BY <1>4, <3>1, <3>2
  <2> QED
    BY <2>1
<1>5. ASSUME NEW q \in HookProcesses, Handle(q) PROVE FALSE
  <2>1. process'[p].endpoint = process[p].endpoint
    BY <1>1, <1>5 DEF Handle, HookWork
  <2> QED
    BY <2>1
<1>6. ASSUME NEW q \in HookProcesses, RecordAttempt(q) \/ RecordFails(q) PROVE FALSE
  <2>1. \/ process'[p] = process[p]
        \/ process'[p].endpoint = Nil
    BY <1>1, <1>6 DEF RecordAttempt, RecordFails, HookWork
  <2> QED
    BY <2>1
<1>7. ASSUME NEW q \in HookProcesses, Finish(q) \/ MarkFails(q) \/ HandleFails(q)
      PROVE  FALSE
  BY <1>2, <1>7 DEF Finish, Mark, MarkFails, HandleFails
<1>8. ASSUME NEW q \in HookProcesses, NEW n \in Endpoints, Send(q, n)
      PROVE  \E m \in Endpoints : Send(p, m)
  <2>1. q = p
    BY <1>1, <1>8 DEF Send
  <2> QED
    BY <1>8, <2>1
<1> QED
  BY <1>3, <1>4, <1>5, <1>6, <1>7, <1>8 DEF HookNext, ProcessStep

\* No endpoint gets a request for an event that it has acknowledged: what was
\* pending when the handler began cannot be acknowledged to another process.
THEOREM HookNoRepeatAfterAckAlways == HookSpec => NoRepeatAfterAck
<1>1. ASSUME HookIInv, [HookNext]_hookVars
      PROVE  [\A p \in HookProcesses :
                process'[p].endpoint \notin {Nil, process[p].endpoint} =>
                  ~Acknowledged(process[p].current, process'[p].endpoint)]_hookVars
  <2> SUFFICES ASSUME HookNext, NEW p \in HookProcesses,
                      process'[p].endpoint \notin {Nil, process[p].endpoint}
               PROVE  ~Acknowledged(process[p].current, process'[p].endpoint)
    BY <1>1
  <2>1. PICK n \in Endpoints : Send(p, n)
    BY <1>1, HookOnlySendSends
  <2>2. process'[p].endpoint = n
    BY <1>1, <2>1 DEF Send, HookIInv, HookShape, HookWork
  <2> QED
    BY <1>1, <2>1, <2>2 DEF Send, HookIInv, HookNeeded
<1> QED
  BY <1>1, HookInvariant, PTL DEF HookSpec, NoRepeatAfterAck
=============================================================================

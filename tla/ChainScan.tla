------------------------------ MODULE ChainScan ------------------------------
(***************************************************************************)
(* The chain indexer: processes that share one cursor read solidified      *)
(* blocks in order from TRON endpoints and store the transfers of the      *)
(* bound contract in the transaction that advances the cursor.             *)
(*                                                                         *)
(* A block is its network and its height, which stand for its hash; the    *)
(* parent is the block one below.  An honest endpoint may lag behind the   *)
(* solidified chain, and another endpoint may serve another network.       *)
(*                                                                         *)
(* `holder' is the process of the claim that the cursor's lease_epoch      *)
(* counts, `live' says that lease_until has not passed.                    *)
(***************************************************************************)
EXTENDS Naturals

CONSTANTS Processes,     \* indexer processes
          WorkerId,      \* the configured worker identifier of a process
          Contract,      \* the configured asset contract of a process
          Transfers,     \* transfers in the solidified blocks of the chain
          TokenOf,       \* the contract of a transfer
          BlockOf,       \* the height of its block
          Executed,      \* those that happened: above zero, and not reverted
          Start,         \* start_height; its parent is the anchor
          Top,           \* bound on the height of the chain
          None           \* SQL NULL

ASSUME HeightAssumption ==
  /\ Start \in Nat \ {0}
  /\ Top \in Nat
  /\ Start <= Top
ASSUME TransferAssumption ==
  /\ BlockOf \in [Transfers -> Start .. Top]
  /\ Executed \subseteq Transfers
ASSUME ConfigAssumption ==
  /\ DOMAIN WorkerId = Processes
  /\ DOMAIN Contract = Processes
ASSUME NoneAssumption ==
  None \notin Processes \cup {WorkerId[p] : p \in Processes}
                        \cup {Contract[p] : p \in Processes}

VARIABLES solid,   \* height of the solidified chain
          cursor,  \* the row of chain_scan_cursors
          events,  \* the rows of chain_events
          scan     \* the Step each process is in

vars == <<solid, cursor, events, scan>>

-----------------------------------------------------------------------------
Block(network, height) == [network |-> network, height |-> height]
Parent(block) == Block(block.network, block.height - 1)
Anchor == Block("ours", Start - 1)

Owners == {WorkerId[p] : p \in Processes}
Contracts == {Contract[p] : p \in Processes}
Blocks == [network : {"ours", "other"}, height : Start - 1 .. Top]

Cursor == [next : Start .. Top + 1, previous : Blocks, bound : {None} \cup Contracts,
           owner : {None} \cup Owners, holder : {None} \cup Processes,
           live : BOOLEAN]
Scan == [at : {"start", "claim", "head", "block", "commit", "release", "stopped"},
         next : Start .. Top + 1, previous : Blocks,  \* as claimed
         head : Blocks, block : Blocks, stop : BOOLEAN]

Idle == [at |-> "start", next |-> Start, previous |-> Anchor,
         head |-> Anchor, block |-> Anchor, stop |-> FALSE]

\* With chain_scan_cursors_lease_check.
TypeOK ==
  /\ solid \in Start - 1 .. Top
  /\ cursor \in Cursor
  /\ cursor.holder = None <=> cursor.owner = None
  /\ cursor.live => cursor.owner # None
  /\ events \subseteq Transfers
  /\ scan \in [Processes -> Scan]

\* The first process to start has made the cursor of its anchor.
Init ==
  /\ solid = Start - 1
  /\ cursor = [next |-> Start, previous |-> Anchor, bound |-> None,
               owner |-> None, holder |-> None, live |-> FALSE]
  /\ events = {}
  /\ scan = [p \in Processes |-> Idle]

-----------------------------------------------------------------------------
Solidify ==
  /\ solid < Top
  /\ solid' = solid + 1
  /\ UNCHANGED <<cursor, events, scan>>

LeaseExpires ==
  /\ cursor.live
  /\ cursor' = [cursor EXCEPT !.live = FALSE]
  /\ UNCHANGED <<solid, events, scan>>

-----------------------------------------------------------------------------
(* Scanner.Step *)

\* BindContract decides once: what it wrote is what it reads back.
Bound(p) ==
  IF cursor.bound = None /\ cursor.next = Start THEN Contract[p] ELSE cursor.bound

BindContract(p) ==
  /\ scan[p].at = "start"
  /\ cursor' = [cursor EXCEPT !.bound = Bound(p)]
  /\ scan' = [scan EXCEPT ![p].at =
                IF Bound(p) = Contract[p] THEN "claim" ELSE "stopped"]
  /\ UNCHANGED <<solid, events>>

\* Mutant of Unleased: a lease ends by a release only.
UnleasedIfReleased == cursor.owner = None

Unleased == cursor.owner = None \/ ~cursor.live

Claim(p) ==
  /\ scan[p].at = "claim"
  /\ Unleased
  /\ cursor' = [cursor EXCEPT !.owner = WorkerId[p], !.holder = p, !.live = TRUE]
  /\ scan' = [scan EXCEPT ![p] =
       [Idle EXCEPT !.at = "head", !.next = cursor.next,
                    !.previous = cursor.previous]]
  /\ UNCHANGED <<solid, events>>

\* What the endpoints can answer, each as far as it has come.
Served == {b \in Blocks : b.network = "ours" => b.height <= solid}

ReadHead(p, head) ==
  /\ scan[p].at = "head"
  /\ scan' = [scan EXCEPT ![p].head = head,
       ![p].at = IF head.height < scan[p].next THEN "release" ELSE "block"]
  /\ UNCHANGED <<solid, cursor, events>>

\* Mutant of Valid: every block must be the head.
ValidIfHead(p, block) ==
  Parent(block) = scan[p].previous /\ block = scan[p].head

\* Mutant of Valid: the parent is not compared.
ValidAnywhere(p, block) ==
  block.height = scan[p].head.height => block = scan[p].head

Valid(p, block) ==
  /\ Parent(block) = scan[p].previous
  /\ block.height = scan[p].head.height => block = scan[p].head

ReadBlock(p, block) ==
  /\ scan[p].at = "block"
  /\ block.height = scan[p].next
  /\ scan' = [scan EXCEPT ![p].block = block, ![p].stop = ~Valid(p, block),
       ![p].at = IF Valid(p, block) THEN "commit" ELSE "release"]
  /\ UNCHANGED <<solid, cursor, events>>

\* A read fails, an endpoint has not got the block, or the database fails.
StepError(p) ==
  /\ scan[p].at \in {"head", "block", "commit"}
  /\ scan' = [scan EXCEPT ![p].at = "release"]
  /\ UNCHANGED <<solid, cursor, events>>

\* Mutant of Fenced: the claim is known by the worker's identifier alone.
FencedByOwner(p) == cursor.owner = WorkerId[p]

Fenced(p) == cursor.owner = WorkerId[p] /\ cursor.holder = p

CanAdvance(p) ==
  /\ Fenced(p)
  /\ cursor.live
  /\ cursor.next = scan[p].next
  /\ cursor.previous = scan[p].previous

\* The logs of the contract in the transactions whose outcome is a success.
ParseTransfers(block, contract) ==
  {t \in Executed : /\ block = Block("ours", BlockOf[t])
                    /\ TokenOf[t] = contract}

TransfersIn(p) == ParseTransfers(scan[p].block, Contract[p])

\* Mutant of Unheld: the lease is cleared and its owner stays.
UnheldKeepsOwner(c) == [c EXCEPT !.holder = None, !.live = FALSE]

Unheld(c) == [c EXCEPT !.owner = None, !.holder = None, !.live = FALSE]

Advance(p) ==
  /\ scan[p].at = "commit"
  /\ CanAdvance(p)
  /\ events' = events \cup TransfersIn(p)
  /\ cursor' = [Unheld(cursor) EXCEPT !.next = @ + 1, !.previous = scan[p].block]
  /\ scan' = [scan EXCEPT ![p] = Idle]
  /\ UNCHANGED solid

\* The transaction is rolled back, the events with it.
LeaseLost(p) ==
  /\ scan[p].at = "commit"
  /\ ~CanAdvance(p)
  /\ scan' = [scan EXCEPT ![p].at = "release"]
  /\ UNCHANGED <<solid, cursor, events>>

Release(p) ==
  /\ scan[p].at = "release"
  /\ cursor' = IF Fenced(p) THEN Unheld(cursor) ELSE cursor
  /\ scan' = [scan EXCEPT ![p] =
                [Idle EXCEPT !.at = IF scan[p].stop THEN "stopped" ELSE "start"]]
  /\ UNCHANGED <<solid, events>>

\* A crash, or a Step that ends and cannot release; the service restarts.
Restart(p) ==
  /\ scan[p].at # "start"
  /\ scan' = [scan EXCEPT ![p] = Idle]
  /\ UNCHANGED <<solid, cursor, events>>

-----------------------------------------------------------------------------
Step(p) ==
  \/ BindContract(p) \/ Claim(p) \/ Advance(p) \/ LeaseLost(p) \/ Release(p)
  \/ \E b \in Served : ReadHead(p, b) \/ ReadBlock(p, b)

Next ==
  \/ Solidify \/ LeaseExpires
  \/ \E p \in Processes : Step(p) \/ StepError(p) \/ Restart(p)

Spec == Init /\ [][Next]_vars

(* The runner calls Step without end and a lease runs out.  *)
Fairness ==
  /\ WF_vars(LeaseExpires)
  /\ WF_vars(\E p \in Processes : Claim(p))
  /\ \A p \in Processes : WF_vars(Step(p) /\ ~Claim(p))

FairSpec == Spec /\ Fairness

\* Also an endpoint that lags behind the solidified head or serves another network.
Fault ==
  \/ \E p \in Processes :
       \/ StepError(p) \/ Restart(p)
       \/ \E b \in Served : ReadHead(p, b) /\ b # Block("ours", solid)
       \/ \E b \in Served : ReadBlock(p, b) /\ b.network # "ours"
  \/ LeaseExpires /\ scan[cursor.holder].at \in {"head", "block", "commit"}

EventuallyHealthy == <>[][~Fault]_vars

-----------------------------------------------------------------------------
(* Safety *)

\* What is stored is what the bound contract transferred in the solidified blocks
\* below the cursor: none is missing, none is of another network or contract, and
\* the cursor's hash is that of the last of them.
PrefixIndexed ==
  /\ cursor.previous = Block("ours", cursor.next - 1)
  /\ cursor.next - 1 <= solid
  /\ events = {t \in Executed :
                 BlockOf[t] < cursor.next /\ TokenOf[t] = cursor.bound}

\* While a claim lasts nobody but its process writes the cursor: not one whose
\* claim it took over, even under the same worker identifier, and not one that
\* starts and binds its contract.
OnlyHolderWrites ==
  [][\A p \in Processes :
       cursor.live /\ cursor.holder = p /\ cursor' # cursor =>
         \/ cursor' = [cursor EXCEPT !.live = FALSE]
         \/ scan'[p] # scan[p]]_vars

\* A Step that ends its process for good has read from another network: honest
\* endpoints that lag, one behind the other, and claims that are lost never do.
\* (A process that starts with another contract ends too, before any Step.)
StopsForOtherNetwork ==
  \A p \in Processes :
    scan[p].stop => "other" \in {scan[p].head.network, scan[p].block.network}

(* Liveness *)

\* Nobody is left to scan: every process of the bound contract has stopped for good.
AllStopped ==
  /\ cursor.bound # None
  /\ \A p \in Processes : Contract[p] = cursor.bound => scan[p].at = "stopped"

\* Once faults cease every solidified block is indexed, whoever held the cursor,
\* unless answers from another network have stopped every process before.
SolidIsIndexed ==
  EventuallyHealthy =>
    \A h \in Start .. Top : solid >= h ~> cursor.next > h \/ AllStopped
=============================================================================

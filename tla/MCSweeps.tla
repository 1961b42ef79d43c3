------------------------------ MODULE MCSweeps ------------------------------
(* A small instance of Sweeps. *)
EXTENDS Sweeps, TLC

CONSTANTS e1, e2, n1, n2, w1, g1, x1

\* A second transfer could pay for a sweep of the first.
Amounts == [e \in Events |-> 1]

Snapshots == 1 .. 2

\* What the run asks of the sweeps, one thing at a time: two planners that
\* overlap, a second transfer, and a round that misses its transaction or a lease
\* that runs out under its holder.
Overlap ==
  \/ blind # {}
  \/ Cardinality({n \in Planners : planner[n] # NotPlanning}) > 1
  \/ \E n \in Planners : planner[n].run # None /\ planner[n].plans # Planned
SecondTransfer == Cardinality(Events \cap Upto(Len(chain))) > 1
LeaseRanOut == \E r \in Runs : sweep[r].holder # None /\ ~sweep[r].live
Disturbed == missed # {} \/ LeaseRanOut
OneHazard ==
  /\ ~(Overlap /\ SecondTransfer)
  /\ ~(Overlap /\ Disturbed)
  /\ ~(SecondTransfer /\ Disturbed)

\* The first two are about plans: the workers take turns, and one of two sweeps
\* is signed.  A blind plan is the second of two: nothing is left to plan after
\* it, and what the signer and the executor would do is not followed.  A lease
\* runs out before there is a second plan.
PlansOnly ==
  /\ Overlap \/ SecondTransfer =>
       /\ Cardinality({w \in Workers : worker[w] # Idle}) <= 1
       /\ Cardinality({r \in Runs : tx[r].window # "unsigned"}) <= 1
  /\ Overlap => \A w \in Signers \cup Executors : worker[w] = Idle
  /\ LeaseRanOut => Cardinality(Planned) <= 1

Symmetry == Permutations(Planners) \cup Permutations(Events)
=============================================================================

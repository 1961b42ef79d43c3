--------------------------- MODULE WebhookDelivery ---------------------------
(***************************************************************************)
(* The webhook worker: outbox events are claimed in batches under a lease, *)
(* each event is sent to every endpoint of its merchant that has not yet   *)
(* acknowledged it, and the event ends succeeded or dead.                  *)
(*                                                                         *)
(* A mark is fenced by the owner's name alone: there is no epoch, and the  *)
(* lease time is not compared.  What keeps two processes from handling one *)
(* event is a configuration check, that a lease outlasts the operation     *)
(* timeout by more than five seconds: see EventLeaseExpires.               *)
(*                                                                         *)
(* Timeouts, crashes and database errors share the budget MaxFaults, the   *)
(* bound that keeps `attempts' finite; an endpoint fails as it likes.      *)
(***************************************************************************)
EXTENDS Naturals, FiniteSets

CONSTANTS Events,        \* outbox events of one merchant
          Endpoints,     \* its active webhook endpoints
          HookProcesses, \* processes running the webhook worker
          HookWorkerId,  \* the configured worker identifier of a process
          BatchSize,     \* events of one claim
          MaxAttempts,   \* attempts before an event is dead
          MaxFaults,     \* bound on timeouts, crashes and database errors
          Nil            \* SQL NULL

ASSUME BoundsAssumption ==
  BatchSize \in Nat \ {0} /\ MaxAttempts \in Nat \ {0} /\ MaxFaults \in Nat
ASSUME WorkerIdAssumption == DOMAIN HookWorkerId = HookProcesses
ASSUME NilAssumption ==
  Nil \notin Events \cup Endpoints \cup {HookWorkerId[p] : p \in HookProcesses}

VARIABLES event,     \* the rows of outbox_events
          attempts,  \* the rows of webhook_delivery_attempts
          process,   \* the batch each process is working on
          faults     \* faults so far

hookVars == <<event, attempts, process, faults>>

-----------------------------------------------------------------------------
HookOwners == {HookWorkerId[p] : p \in HookProcesses}
AttemptNumbers == 1 .. MaxAttempts + MaxFaults

Row == [status : {"absent", "pending", "processing", "succeeded", "dead"},
        owner : {Nil} \cup HookOwners, live : BOOLEAN, due : BOOLEAN,
        attempts : {0} \cup AttemptNumbers]
Attempt == [event : Events, endpoint : Endpoints, number : AttemptNumbers,
            ok : BOOLEAN]
Batch == [at : {"idle", "next", "send", "record"},
          batch : SUBSET Events,              \* claimed and not yet handled
          claimed : [Events -> {0} \cup AttemptNumbers],
          current : {Nil} \cup Events,        \* the event in Handle
          targets : SUBSET Endpoints,         \* still to be sent to
          endpoint : {Nil} \cup Endpoints,    \* sent to and not recorded
          ok : BOOLEAN, failed : BOOLEAN]

NoBatch == [at |-> "idle", batch |-> {}, claimed |-> [e \in Events |-> 0],
            current |-> Nil, targets |-> {}, endpoint |-> Nil,
            ok |-> FALSE, failed |-> FALSE]

\* With outbox_events_lease_check.
HookTypeOK ==
  /\ event \in [Events -> Row]
  /\ \A e \in Events :
       /\ event[e].status = "processing" <=> event[e].owner # Nil
       /\ event[e].live => event[e].status = "processing"
  /\ attempts \subseteq Attempt
  /\ process \in [HookProcesses -> Batch]
  /\ faults \in 0 .. MaxFaults

HookInit ==
  /\ event = [e \in Events |-> [status |-> "absent", owner |-> Nil,
                live |-> FALSE, due |-> TRUE, attempts |-> 0]]
  /\ attempts = {}
  /\ process = [p \in HookProcesses |-> NoBatch]
  /\ faults = 0

-----------------------------------------------------------------------------
(* The outbox *)

EnqueueInTransaction(e) ==
  /\ event[e].status = "absent"
  /\ event' = [event EXCEPT ![e].status = "pending"]
  /\ UNCHANGED <<attempts, process, faults>>

\* Mutant of Claimable: an abandoned claim is never taken over.
ClaimableIfPending(e) == event[e].status = "pending" /\ event[e].due

Claimable(e) ==
  \/ event[e].status = "pending" /\ event[e].due
  \/ event[e].status = "processing" /\ ~event[e].live

\* An attempt counts when it is claimed, not when it is made.
Counted(e) == event[e].attempts + 1

ClaimBatch(p) ==
  /\ process[p].at = "idle"
  /\ \E batch \in SUBSET {e \in Events : Claimable(e)} :
       /\ Cardinality(batch) \in 1 .. BatchSize
       /\ event' = [e \in Events |-> IF e \in batch
            THEN [status |-> "processing", owner |-> HookWorkerId[p], live |-> TRUE,
                  due |-> TRUE, attempts |-> Counted(e)]
            ELSE event[e]]
       /\ process' = [process EXCEPT ![p] =
            [NoBatch EXCEPT !.at = "next", !.batch = batch,
               !.claimed = [e \in Events |->
                              IF e \in batch THEN Counted(e) ELSE 0]]]
  /\ UNCHANGED <<attempts, faults>>

\* Mutant of Outlasted: the lease may be shorter than the operation.
OutlastedNever(e) == TRUE

\* No process is at work any more on the claim that holds the event.
Outlasted(e) == \A p \in HookProcesses : e \notin process[p].batch

EventLeaseExpires(e) ==
  /\ event[e].live
  /\ Outlasted(e)
  /\ event' = [event EXCEPT ![e].live = FALSE]
  /\ UNCHANGED <<attempts, process, faults>>

\* The retry's available_at has come.
BecomesDue(e) ==
  /\ ~event[e].due
  /\ event' = [event EXCEPT ![e].due = TRUE]
  /\ UNCHANGED <<attempts, process, faults>>

-----------------------------------------------------------------------------
(* The handler *)

\* Mutant of Acknowledged: any recorded attempt will do.
AcknowledgedByAny(e, n) ==
  \E a \in attempts : a.event = e /\ a.endpoint = n

Acknowledged(e, n) ==
  \E a \in attempts : a.event = e /\ a.endpoint = n /\ a.ok

PendingEndpoints(e) == {n \in Endpoints : ~Acknowledged(e, n)}

Handle(p) ==
  /\ process[p].at = "next"
  /\ process[p].current = Nil
  /\ \E e \in process[p].batch :
       process' = [process EXCEPT ![p].at = "send", ![p].current = e,
                                  ![p].targets = PendingEndpoints(e),
                                  ![p].failed = FALSE]
  /\ UNCHANGED <<event, attempts, faults>>

\* Without an acknowledgement the endpoint may have got the request or not.
Send(p, n) ==
  /\ process[p].at = "send"
  /\ n \in process[p].targets
  /\ \E ok \in BOOLEAN :
       process' = [process EXCEPT ![p].at = "record", ![p].endpoint = n,
                                  ![p].ok = ok, ![p].targets = @ \ {n}]
  /\ UNCHANGED <<event, attempts, faults>>

Record(p) ==
  [event |-> process[p].current, endpoint |-> process[p].endpoint,
   number |-> process[p].claimed[process[p].current], ok |-> process[p].ok]

\* The primary key of an attempt is its event, endpoint and number.
Fresh(p) == \A a \in attempts :
  <<a.event, a.endpoint, a.number>>
    # <<Record(p).event, Record(p).endpoint, Record(p).number>>

RecordAttempt(p) ==
  /\ process[p].at = "record"
  /\ attempts' = IF Fresh(p) THEN attempts \cup {Record(p)} ELSE attempts
  /\ process' = [process EXCEPT ![p].at = "send", ![p].endpoint = Nil,
       ![p].ok = FALSE, ![p].failed = @ \/ ~process[p].ok \/ ~Fresh(p)]
  /\ UNCHANGED <<event, faults>>

\* The endpoint's answer is not stored, or there was none because its secret could
\* not be decrypted: the event will be retried.
RecordFails(p) ==
  /\ process[p].at = "record"
  /\ faults < MaxFaults
  /\ faults' = faults + 1
  /\ process' = [process EXCEPT ![p].at = "send", ![p].endpoint = Nil,
                                ![p].ok = FALSE, ![p].failed = TRUE]
  /\ UNCHANGED <<event, attempts>>

Owned(p, e) == event[e].status = "processing" /\ event[e].owner = HookWorkerId[p]

\* The event that was handled leaves the batch, and an empty batch ends the run.
Leave(p, e) ==
  process' = [process EXCEPT ![p] =
    IF process[p].batch = {e} THEN NoBatch
    ELSE [NoBatch EXCEPT !.at = "next", !.batch = process[p].batch \ {e},
                      !.claimed = [process[p].claimed EXCEPT ![e] = 0]]]

Mark(p, e, status, due) ==
  /\ Leave(p, e)
  /\ event' = IF Owned(p, e)
       THEN [event EXCEPT ![e].status = status, ![e].owner = Nil,
                          ![e].live = FALSE, ![e].due = due]
       ELSE event
  /\ UNCHANGED <<attempts, faults>>

\* Every endpoint was tried: the event succeeded, is retried later or is dead.
Finish(p) ==
  LET e == process[p].current IN
  /\ process[p].at = "send"
  /\ process[p].targets = {}
  /\ \/ ~process[p].failed /\ Mark(p, e, "succeeded", TRUE)
     \/ process[p].failed /\ process[p].claimed[e] >= MaxAttempts
          /\ Mark(p, e, "dead", TRUE)
     \/ process[p].failed /\ process[p].claimed[e] < MaxAttempts
          /\ Mark(p, e, "pending", FALSE)

\* The mark cannot be written: the event stays claimed until its lease runs out.
MarkFails(p) ==
  /\ process[p].at = "send"
  /\ process[p].targets = {}
  /\ faults < MaxFaults
  /\ faults' = faults + 1
  /\ Leave(p, process[p].current)
  /\ UNCHANGED <<event, attempts>>

\* The endpoints cannot be read: that is an attempt, and nothing was sent.
HandleFails(p) ==
  /\ process[p].at = "next"
  /\ faults < MaxFaults
  /\ faults' = faults + 1
  /\ \E e \in process[p].batch :
       /\ Leave(p, e)
       /\ event' = IF ~Owned(p, e) THEN event
            ELSE IF process[p].claimed[e] >= MaxAttempts
            THEN [event EXCEPT ![e].status = "dead", ![e].owner = Nil,
                               ![e].live = FALSE]
            ELSE [event EXCEPT ![e].status = "pending", ![e].owner = Nil,
                               ![e].live = FALSE, ![e].due = FALSE]
  /\ UNCHANGED <<attempts>>

\* The operation times out, or the process crashes: the claims are abandoned.
Stop(p) ==
  /\ process[p].at # "idle"
  /\ faults < MaxFaults
  /\ faults' = faults + 1
  /\ process' = [process EXCEPT ![p] = NoBatch]
  /\ UNCHANGED <<event, attempts>>

-----------------------------------------------------------------------------
ProcessStep(p) ==
  \/ ClaimBatch(p) \/ Handle(p) \/ RecordAttempt(p) \/ Finish(p)
  \/ \E n \in Endpoints : Send(p, n)

HookNext ==
  \/ \E e \in Events :
       EnqueueInTransaction(e) \/ EventLeaseExpires(e) \/ BecomesDue(e)
  \/ \E p \in HookProcesses :
       ProcessStep(p) \/ RecordFails(p) \/ MarkFails(p) \/ HandleFails(p)
         \/ Stop(p)

HookSpec == HookInit /\ [][HookNext]_hookVars

(* The worker polls without end, a lease runs out and a retry comes due.  A    *)
(* claim takes the events that have been due the longest.                      *)
HookFairSpec ==
  /\ HookSpec
  /\ \A p \in HookProcesses : WF_hookVars(ProcessStep(p))
  /\ \A e \in Events :
       /\ WF_hookVars(EventLeaseExpires(e)) /\ WF_hookVars(BecomesDue(e))
       /\ SF_hookVars(\E p \in HookProcesses : ClaimBatch(p) /\ e \in process'[p].batch)

-----------------------------------------------------------------------------
(* Safety *)

\* An event succeeds only if every endpoint acknowledged it, in whichever of its
\* attempts and by whichever process, and whatever failed in between.
SucceededReachedAll ==
  \A e \in Events, n \in Endpoints :
    event[e].status = "succeeded" =>
      \E a \in attempts : a.event = e /\ a.endpoint = n /\ a.ok

\* The retry for one endpoint does not bother those that have acknowledged.
NoRepeatAfterAck ==
  [][\A p \in HookProcesses :
       process'[p].endpoint \notin {Nil, process[p].endpoint} =>
         ~Acknowledged(process[p].current, process'[p].endpoint)]_hookVars

(* Liveness *)

\* Every event ends, also one whose claim was abandoned.
EventEnds ==
  \A e \in Events :
    event[e].status = "pending" ~> event[e].status \in {"succeeded", "dead"}
=============================================================================

--------------------------- MODULE EventPipeline ----------------------------
(***************************************************************************)
(* The way of a complaint event from the transaction that makes the change *)
(* to the handler of notification-service: ComplaintService, OutboxWorker  *)
(* and StreamConsumer put together.  They share the outbox table and the   *)
(* complaints:events stream, and nothing else: every step is a step of one *)
(* of them that leaves the variables of the other two alone.               *)
(*                                                                         *)
(* An event is named by its outbox row all the way.                        *)
(***************************************************************************)
EXTENDS ComplaintService

CONSTANTS
  Ticks, BATCH, WorkerFaultBudget,              \* see OutboxWorker
  Pods, BatchSize, ConsumerFaultBudget          \* see StreamConsumer

VARIABLES
  published, tick, workerFaults,
  stream,
  group, pending, processed, loop, handled, consumerFaults

workerOwn   == <<published, tick, workerFaults>>
consumerOwn == <<group, pending, processed, loop, handled, consumerFaults>>
vars == <<serviceVars, workerOwn, stream, consumerOwn>>

-----------------------------------------------------------------------------
Worker == INSTANCE OutboxWorker WITH
  outbox <- [i \in DOMAIN outbox |->
               [cid |-> outbox[i].cid, n |-> outbox[i].n, state |-> outbox[i].state]],
  FaultBudget <- WorkerFaultBudget,
  faults <- workerFaults

Consumer == INSTANCE StreamConsumer WITH
  Events <- 1 .. MaxRows,
  MaxEntries <- 0,
  FaultBudget <- ConsumerFaultBudget,
  faults <- consumerFaults

ASSUME WorkerAssumption ==
  IsFiniteSet(Ticks) /\ BATCH \in Nat \ {0} /\ WorkerFaultBudget \in [Worker!Faults -> Nat]

ASSUME ConsumerAssumption ==
  IsFiniteSet(Pods) /\ BatchSize \in Nat \ {0} /\ ConsumerFaultBudget \in [Consumer!Faults -> Nat]

(* notification-service has run before and Redis holds its group; started  *)
(* after complaint-service for the first time, it would miss what is in    *)
(* the stream by then                                                      *)
Init ==
  /\ ServiceInit /\ Worker!Init
  /\ stream = <<>>
  /\ group = [exists |-> TRUE, start |-> 0, cursor |-> 0]
  /\ pending = <<>>
  /\ processed = {}
  /\ loop = [p \in Pods |-> Consumer!Down]
  /\ handled = <<>>
  /\ consumerFaults = ConsumerFaultBudget

ServiceStep == ServiceNext /\ UNCHANGED <<workerOwn, stream, consumerOwn>>

WorkerStep == UNCHANGED <<serviceVars, consumerOwn>> /\ Worker!WorkerNext

ConsumerStep == UNCHANGED <<serviceVars, workerOwn>> /\ Consumer!ConsumerNext

Next == ServiceStep \/ WorkerStep \/ ConsumerStep

(* the fairness of the parts *)
Fairness ==
  /\ \A r \in Requests :
       /\ SF_vars(ServiceStep /\ UpdateStatus(r))
       /\ WF_vars(ServiceStep /\ RecordHistory(r))
       /\ WF_vars(ServiceStep /\ WriteOutbox(r))
       /\ WF_vars(ServiceStep /\ Commit(r))
  /\ \A t \in Ticks :
       /\ WF_vars(WorkerStep /\ Worker!StartTick(t))
       /\ WF_vars(WorkerStep /\ \E i \in DOMAIN outbox : Worker!Publish(t, i))
       /\ WF_vars(WorkerStep /\ \E i \in DOMAIN outbox : Worker!MarkPublished(t, i))
  /\ \A p \in Pods :
       /\ WF_vars(ConsumerStep /\ Consumer!Start(p))
       /\ WF_vars(ConsumerStep /\ Consumer!LoopStep(p))

Spec == Init /\ [][Next]_vars
FairSpec == Spec /\ Fairness

-----------------------------------------------------------------------------
Announced == {stream[handled[j]] : j \in DOMAIN handled}

(* The abstract specification with the state of the pipeline.              *)
Delivery == INSTANCE EventDelivery WITH
  changes <- [i \in Committed |-> [cid |-> outbox[i].cid, n |-> outbox[i].n]],
  announced <- [j \in DOMAIN handled |-> stream[handled[j]]]

DeliveryNext ==
  \/ \E i \in DOMAIN outbox : Delivery!Commit(i, outbox[i].cid, outbox[i].n)
  \/ \E i \in DOMAIN outbox : Delivery!Announce(i)

(* As long as notification-service is one pod that fails at most to        *)
(* acknowledge, and Redis refuses no XADD, the pipeline delivers every     *)
(* event of a complaint once and in the order of its changes, through      *)
(* concurrent writers, rollbacks, overlapping ticks, crashes of            *)
(* complaint-service, resent commands and updates that fail.               *)
DeliversOnceInOrder == Delivery!Init /\ [][DeliveryNext]_(Delivery!vars)

(* "Event delivery can never drift from what was actually committed to the *)
(* database" (README.md): every committed event reaches the subscriber.    *)
EveryChangeAnnounced ==
  \A i \in 1 .. MaxRows : (i \in Committed) ~> (i \in Announced)

=============================================================================

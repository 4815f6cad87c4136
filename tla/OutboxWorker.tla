---------------------------- MODULE OutboxWorker ----------------------------
(***************************************************************************)
(* The outbox worker of complaint-service (outbox/worker.ts): every 500 ms *)
(* a tick reads up to BATCH committed, unpublished rows, oldest first, and *)
(* for each one appends the event to the Redis stream and then marks the   *)
(* row published.                                                          *)
(*                                                                         *)
(* setInterval does not wait for the previous tick, so that several ticks  *)
(* can be under way with snapshots that overlap; and the two effects of a  *)
(* record, one in Redis and one in Postgres, are separate steps with       *)
(* failures of their own.                                                  *)
(*                                                                         *)
(* A row is named by its position in outbox, the order of createdAt.  The  *)
(* stream is the sequence of the rows whose events were appended to it.    *)
(* The transactions that fill the outbox behave as OutboxTable says.       *)
(***************************************************************************)
EXTENDS Naturals, Sequences, FiniteSets

CONSTANTS
  Complaints,
  Ticks,         \* ticks under way at the same time
  BATCH,         \* rows read by one tick
  MaxRows,       \* bound: rows the transactions ever insert
  FaultBudget    \* bound: how often each kind of fault may happen

Faults == {"lost", "refused", "unmarked", "crash"}

ASSUME TicksAssumption == IsFiniteSet(Ticks)
ASSUME BatchAssumption == BATCH \in Nat \ {0}
ASSUME BudgetAssumption == FaultBudget \in [Faults -> Nat]

VARIABLES
  outbox,      \* the rows, with the state of the transaction that wrote them
  published,   \* the rows with published = true
  tick,        \* snapshot of each tick, and whether its oldest row was sent
  stream,      \* complaints:events, oldest entry first
  faults       \* how often each fault may still happen

Table == INSTANCE OutboxTable

workerVars == <<published, tick, stream, faults>>
vars == <<outbox, published, tick, stream, faults>>

-----------------------------------------------------------------------------
NoTick == [batch |-> {}, sent |-> FALSE]

Init ==
  /\ Table!Init
  /\ published = {}
  /\ tick = [t \in Ticks |-> NoTick]
  /\ stream = <<>>
  /\ faults = FaultBudget

(* outbox.findMany: published = false, orderBy createdAt, take BATCH *)
Unpublished == Table!Committed \ published

(* Mutant: orderBy createdAt desc. *)
SnapshotNewest == {i \in Unpublished : Cardinality({j \in Unpublished : j > i}) < BATCH}

Snapshot == {i \in Unpublished : Cardinality({j \in Unpublished : j < i}) < BATCH}

(* row i is the record that tick t is processing *)
IsCurrent(t, i) == i \in tick[t].batch /\ \A j \in tick[t].batch : i <= j

(* the tick is done with row i, whatever came of it *)
NextRecord(t, i) == tick' = [tick EXCEPT ![t] = [batch |-> @.batch \ {i}, sent |-> FALSE]]

Happens(f) == faults[f] > 0 /\ faults' = [faults EXCEPT ![f] = @ - 1]

(* a tick that finds nothing to publish ends where it began *)
StartTick(t) ==
  /\ tick[t].batch = {}
  /\ tick' = [tick EXCEPT ![t].batch = Snapshot]
  /\ UNCHANGED <<outbox, published, stream, faults>>

(* publishEvent: XADD, answered *)
Publish(t, i) ==
  /\ IsCurrent(t, i) /\ ~tick[t].sent
  /\ stream' = Append(stream, i)
  /\ tick' = [tick EXCEPT ![t].sent = TRUE]
  /\ UNCHANGED <<outbox, published, faults>>

(* XADD is executed and the connection is lost before the answer: ioredis  *)
(* sends the command again when it has reconnected                         *)
PublishUnanswered(t, i) ==
  /\ IsCurrent(t, i) /\ ~tick[t].sent
  /\ Happens("lost")
  /\ stream' = Append(stream, i)
  /\ UNCHANGED <<outbox, published, tick>>

(* Mutant: the error is caught around the XADD alone, and the row is marked. *)
RefusalIgnored(t, i) ==
  /\ IsCurrent(t, i) /\ ~tick[t].sent
  /\ Happens("refused")
  /\ tick' = [tick EXCEPT ![t].sent = TRUE]
  /\ UNCHANGED <<outbox, published, stream>>

(* Redis answers with an error: caught, and on to the next record *)
PublishRefused(t, i) ==
  /\ IsCurrent(t, i) /\ ~tick[t].sent
  /\ Happens("refused")
  /\ NextRecord(t, i)
  /\ UNCHANGED <<outbox, published, stream>>

(* Mutant: the update is forgotten. *)
MarkForgotten(t, i) ==
  /\ IsCurrent(t, i) /\ tick[t].sent
  /\ NextRecord(t, i)
  /\ UNCHANGED <<outbox, published, stream, faults>>

(* outbox.update: published = true *)
MarkPublished(t, i) ==
  /\ IsCurrent(t, i) /\ tick[t].sent
  /\ published' = published \cup {i}
  /\ NextRecord(t, i)
  /\ UNCHANGED <<outbox, stream, faults>>

(* the update fails: caught, and on to the next record *)
MarkFails(t, i) ==
  /\ IsCurrent(t, i) /\ tick[t].sent
  /\ Happens("unmarked")
  /\ NextRecord(t, i)
  /\ UNCHANGED <<outbox, published, stream>>

(* complaint-service dies and is restarted *)
Crash ==
  /\ \E t \in Ticks : tick[t] # NoTick
  /\ Happens("crash")
  /\ tick' = [t \in Ticks |-> NoTick]
  /\ UNCHANGED <<outbox, published, stream>>

WorkerNext ==
  \/ \E t \in Ticks :
       \/ StartTick(t)
       \/ \E i \in DOMAIN outbox :
            \/ Publish(t, i) \/ PublishUnanswered(t, i) \/ PublishRefused(t, i)
            \/ MarkPublished(t, i) \/ MarkFails(t, i)
  \/ Crash

Transactions ==
  /\ \/ Len(outbox) < MaxRows /\ \E c \in Complaints : Table!Insert(c)
     \/ \E i \in DOMAIN outbox : Table!CommitRow(i) \/ Table!AbortRow(i)
  /\ UNCHANGED workerVars

Next == WorkerNext \/ Transactions

(* The interval fires for ever, and a tick under way makes progress. *)
Fairness ==
  \A t \in Ticks :
    /\ WF_vars(StartTick(t))
    /\ WF_vars(\E i \in DOMAIN outbox : Publish(t, i))
    /\ WF_vars(\E i \in DOMAIN outbox : MarkPublished(t, i))

Spec == Init /\ [][Next]_vars

FairSpec == Spec /\ Fairness

-----------------------------------------------------------------------------
Streamed == {stream[k] : k \in DOMAIN stream}

(* The outbox guarantee: only what was committed ever reaches the stream,  *)
(* whatever snapshot a tick works on, and a row is marked, and so never    *)
(* looked at again, only when its event is there ("Do NOT mark as          *)
(* published" otherwise).                                                  *)
OutboxGuarantee ==
  /\ Streamed \subseteq Table!Committed
  /\ published \subseteq Streamed

(* Unless Redis refuses a command, the first copies of the events of a     *)
(* complaint enter the stream in the order of the changes, in spite of     *)
(* overlapping ticks, crashes, resent commands and failed updates.         *)
FirstCopiesInOrder ==
  faults["refused"] = FaultBudget["refused"] =>
    \A l \in DOMAIN stream : \A i \in Table!Committed :
      i < stream[l] /\ outbox[i].cid = outbox[stream[l]].cid =>
        \E k \in 1 .. l - 1 : stream[k] = i

Copies(i) == Cardinality({k \in DOMAIN stream : stream[k] = i})

Spent(f) == FaultBudget[f] - faults[f]

(* Delivery is at least once: an event enters the stream once per tick     *)
(* whose snapshot holds it, and again for every fault that hides a         *)
(* success, and no more often than that.                                   *)
CopiesBounded ==
  \A i \in DOMAIN outbox :
    Copies(i) <= Cardinality(Ticks) * (1 + Spent("crash")) + Spent("lost") + Spent("unmarked")

(* Every committed event gets into the stream and is marked there, after   *)
(* any finite number of faults ("will retry on next interval").            *)
EveryEventIsPublished ==
  \A i \in 1 .. MaxRows :
    (i \in Table!Committed) ~> (i \in Streamed /\ i \in published)

=============================================================================

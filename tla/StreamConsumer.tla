--------------------------- MODULE StreamConsumer ---------------------------
(***************************************************************************)
(* A consumer group on a Redis stream, as packages/shared-redis drives it: *)
(* createConsumerGroup, startConsumer and startReclaimer.  The handler is  *)
(* the caller's (handleComplaintEvent, handleMediaEvent, ...).             *)
(*                                                                         *)
(* Every pod of a service runs one loop: read a batch of new entries, then *)
(* for each look up processed:<event_id>, call the handler, set the key,   *)
(* acknowledge.  Redis keeps the cursor of the group and its pending       *)
(* entries list; both outlive the pods.                                    *)
(*                                                                         *)
(* An entry is named by its position in the stream; what it holds is an    *)
(* event, and the producers may append one event several times.            *)
(***************************************************************************)
EXTENDS Naturals, Sequences, FiniteSets

CONSTANTS
  Events,
  Pods,          \* consumers of the group, one loop each
  BatchSize,     \* COUNT of XREADGROUP
  MaxEntries,    \* bound: entries ever appended
  FaultBudget    \* bound: how often each kind of fault may happen

(* "unread": the answer to XREADGROUP is lost; the other kinds name the    *)
(* step that throws, the death of a pod and the expiry of a key.           *)
Faults == {"unread", "unchecked", "unhandled", "unrecorded", "unacked", "crash", "expired"}

ASSUME PodsAssumption == IsFiniteSet(Pods)
ASSUME BatchSizeAssumption == BatchSize \in Nat \ {0}
ASSUME FaultBudgetAssumption == FaultBudget \in [Faults -> Nat]

Reclaimer == "reclaimer"

VARIABLES
  stream,      \* the entries, oldest first: their events
  group,       \* whether it exists, the entry it starts after, its cursor
  pending,     \* pending entries list: owner of every entry not acknowledged
  processed,   \* the events whose idempotency key exists
  loop,        \* loop of each pod: where it is and what is left of its batch
  handled,     \* history: the entries handled, in order
  faults       \* how often each fault may still happen

consumerVars == <<group, pending, processed, loop, handled, faults>>
vars == <<stream, group, pending, processed, loop, handled, faults>>

-----------------------------------------------------------------------------
Down == [pc |-> "down", batch |-> {}]

Init ==
  /\ stream = <<>>
  /\ group = [exists |-> FALSE, start |-> 0, cursor |-> 0]
  /\ pending = [k \in {} |-> Reclaimer]
  /\ processed = {}
  /\ loop = [p \in Pods |-> Down]
  /\ handled = <<>>
  /\ faults = FaultBudget

Happens(f) == faults[f] > 0 /\ faults' = [faults EXCEPT ![f] = @ - 1]

(* entry k is the one the loop of p is at, and its next step is pc *)
At(p, k, pc) ==
  /\ loop[p].pc = pc
  /\ k \in loop[p].batch
  /\ \A l \in loop[p].batch : k <= l

GoTo(p, pc) == loop' = [loop EXCEPT ![p].pc = pc]

(* Mutant: "break" for "continue", and the rest of the batch is forgotten. *)
NextEntryBreaks(p, k) == loop' = [loop EXCEPT ![p] = [pc |-> "read", batch |-> {}]]

(* the loop is done with entry k: the rest of the batch, or the next read *)
NextEntry(p, k) ==
  LET rest == loop[p].batch \ {k} IN
  loop' = [loop EXCEPT ![p] = [pc |-> IF rest = {} THEN "read" ELSE "check", batch |-> rest]]

Acknowledge(k) == pending' = [l \in DOMAIN pending \ {k} |-> pending[l]]

(* Mutant: an existing group is set back to where it started. *)
StartRewinds(p) ==
  /\ loop[p] = Down
  /\ group' = IF group.exists THEN [group EXCEPT !.cursor = group.start]
              ELSE [exists |-> TRUE, start |-> Len(stream), cursor |-> Len(stream)]
  /\ GoTo(p, "read")
  /\ UNCHANGED <<stream, pending, processed, handled, faults>>

(* Mutant: BUSYGROUP is an error like any other, and the pod dies of it. *)
StartRefused(p) ==
  /\ loop[p] = Down
  /\ IF group.exists THEN UNCHANGED <<group, loop>>
     ELSE /\ group' = [exists |-> TRUE, start |-> Len(stream), cursor |-> Len(stream)]
          /\ GoTo(p, "read")
  /\ UNCHANGED <<stream, pending, processed, handled, faults>>

(* createConsumerGroup at "$", where an existing group (BUSYGROUP) will do; *)
(* then startConsumer                                                       *)
Start(p) ==
  /\ loop[p] = Down
  /\ group' = IF group.exists THEN group
              ELSE [exists |-> TRUE, start |-> Len(stream), cursor |-> Len(stream)]
  /\ GoTo(p, "read")
  /\ UNCHANGED <<stream, pending, processed, handled, faults>>

(* XREADGROUP ... ">": up to BatchSize entries that no consumer was given *)
Fresh ==
  {k \in group.cursor + 1 .. Len(stream) : k <= group.cursor + BatchSize}

Deliver(p) ==
  /\ loop[p].pc = "read"
  /\ Fresh # {}
  /\ group' = [group EXCEPT !.cursor = @ + Cardinality(Fresh)]
  /\ pending' = [k \in DOMAIN pending \cup Fresh |-> IF k \in Fresh THEN p ELSE pending[k]]
  /\ UNCHANGED <<stream, processed, handled>>

Read(p) ==
  /\ Deliver(p)
  /\ loop' = [loop EXCEPT ![p] = [pc |-> "check", batch |-> Fresh]]
  /\ UNCHANGED faults

(* the answer is lost with the connection, and the command sent again *)
ReadUnanswered(p) ==
  /\ Deliver(p)
  /\ Happens("unread")
  /\ UNCHANGED loop

(* EXISTS processed:<event_id> *)
Check(p, k) ==
  /\ At(p, k, "check")
  /\ GoTo(p, IF stream[k] \in processed THEN "skip" ELSE "handle")
  /\ UNCHANGED <<stream, group, pending, processed, handled, faults>>

Handle(p, k) ==
  /\ At(p, k, "handle")
  /\ handled' = Append(handled, k)
  /\ GoTo(p, "record")
  /\ UNCHANGED <<stream, group, pending, processed, faults>>

(* Mutant: the key is not written. *)
RecordForgotten(p, k) ==
  /\ At(p, k, "record")
  /\ GoTo(p, "ack")
  /\ UNCHANGED <<stream, group, pending, processed, handled, faults>>

(* SET processed:<event_id> EX 172800 *)
Record(p, k) ==
  /\ At(p, k, "record")
  /\ processed' = processed \cup {stream[k]}
  /\ GoTo(p, "ack")
  /\ UNCHANGED <<stream, group, pending, handled, faults>>

(* XACK, after the handler or instead of it *)
Ack(p, k) ==
  /\ At(p, k, "ack") \/ At(p, k, "skip")
  /\ Acknowledge(k)
  /\ NextEntry(p, k)
  /\ UNCHANGED <<stream, group, processed, handled, faults>>

(* Mutant: an entry whose handler throws is acknowledged all the same. *)
FailureAcknowledged(p, k) ==
  /\ \/ At(p, k, "handle") /\ Happens("unhandled")
     \/ At(p, k, "record") /\ Happens("unrecorded")
     \/ At(p, k, "ack") /\ Happens("unacked")
  /\ Acknowledge(k)
  /\ NextEntry(p, k)
  /\ UNCHANGED <<stream, group, processed, handled>>

(* The handler, the SET or the XACK after it throws: logged, not           *)
(* acknowledged, and on to the next entry of the batch.                    *)
EntryFails(p, k) ==
  /\ \/ At(p, k, "handle") /\ Happens("unhandled")
     \/ At(p, k, "record") /\ Happens("unrecorded")
     \/ At(p, k, "ack") /\ Happens("unacked")
  /\ NextEntry(p, k)
  /\ UNCHANGED <<stream, group, pending, processed, handled>>

(* EXISTS, or the XACK of an event already processed, throws: the loop     *)
(* gives up the rest of the batch, sleeps and reads on.                    *)
BatchFails(p, k) ==
  /\ At(p, k, "check") \/ At(p, k, "skip")
  /\ Happens("unchecked")
  /\ loop' = [loop EXCEPT ![p] = [pc |-> "read", batch |-> {}]]
  /\ UNCHANGED <<stream, group, pending, processed, handled>>

Crash(p) ==
  /\ loop[p] # Down
  /\ Happens("crash")
  /\ loop' = [loop EXCEPT ![p] = Down]
  /\ UNCHANGED <<stream, group, pending, processed, handled>>

(* pending, and in the batch of no loop: left behind by a fault *)
Stranded == {k \in DOMAIN pending : \A p \in Pods : k \notin loop[p].batch}

(* XAUTOCLAIM of entries idle for 30 s: they change owner.  What it        *)
(* returns is counted in a log line and dropped.                           *)
Reclaim(p, S) ==
  /\ loop[p] # Down
  /\ pending' = [k \in DOMAIN pending |-> IF k \in S THEN Reclaimer ELSE pending[k]]
  /\ UNCHANGED <<stream, group, processed, loop, handled, faults>>

(* the 48 hours of a key are over *)
Expire(e) ==
  /\ e \in processed
  /\ Happens("expired")
  /\ processed' = processed \ {e}
  /\ UNCHANGED <<stream, group, pending, loop, handled>>

LoopStep(p) ==
  \/ Read(p)
  \/ \E k \in DOMAIN pending : Check(p, k) \/ Handle(p, k) \/ Record(p, k) \/ Ack(p, k)

ConsumerNext ==
  \/ \E p \in Pods :
       \/ Start(p) \/ LoopStep(p) \/ ReadUnanswered(p) \/ Crash(p)
       \/ \E k \in DOMAIN pending : EntryFails(p, k) \/ BatchFails(p, k)
       \/ \E S \in SUBSET DOMAIN pending : Reclaim(p, S)
  \/ \E e \in Events : Expire(e)

(* publishEvent of some producer, perhaps a second time *)
Produce(e) ==
  /\ Len(stream) < MaxEntries
  /\ stream' = Append(stream, e)
  /\ UNCHANGED consumerVars

Next == ConsumerNext \/ \E e \in Events : Produce(e)

(* Pods are restarted, a loop that runs takes its next step, and the       *)
(* interval of the reclaimer finds every entry that stays idle.            *)
Fairness ==
  \A p \in Pods :
    /\ WF_vars(Start(p))
    /\ WF_vars(LoopStep(p))
    /\ WF_vars(Reclaim(p, Stranded))

Spec == Init /\ [][Next]_vars

FairSpec == Spec /\ Fairness

-----------------------------------------------------------------------------
Delivered == group.start + 1 .. group.cursor

HandledEntries == {handled[j] : j \in DOMAIN handled}

TimesHandled(e) == Cardinality({j \in DOMAIN handled : stream[handled[j]] = e})

Spent(f) == FaultBudget[f] - faults[f]

(* No event is lost silently: an entry leaves the pending entries list     *)
(* only when the handler has completed for its event, on this copy or on   *)
(* an earlier one.                                                         *)
AcknowledgedIsHandled ==
  \A k \in Delivered \ DOMAIN pending : \E l \in HandledEntries : stream[l] = stream[k]

(* How much is left behind: one entry by a step that fails, a batch by the *)
(* death of a pod, a lost answer or a failed lookup, and nothing by        *)
(* duplicates, several pods or the reclaimer.                              *)
StrandedBounded ==
  Cardinality(Stranded) <=
    Spent("unhandled") + Spent("unrecorded") + Spent("unacked")
      + BatchSize * (Spent("unread") + Spent("unchecked") + Spent("crash"))

(* A read hands an entry to one loop only, in spite of restarts and of     *)
(* entries that change owner: no entry is handled twice.                   *)
EntryHandledOnce ==
  \A i, j \in DOMAIN handled : handled[i] = handled[j] => i = j

(* The idempotency keys: however often the producers repeat an event, a    *)
(* pod handles it once, and once more for every key that was not written   *)
(* or did not live.  Each pod, that is: EXISTS and SET are two commands,   *)
(* and pods that look at the same time all find the key missing.           *)
EventHandledOnce ==
  \A e \in Events :
    TimesHandled(e) <=
      Cardinality(Pods) * (1 + Spent("unrecorded") + Spent("crash") + Spent("expired"))

(* Faults leave entries behind and do not stop the stream: again and again *)
(* everything appended since the group exists has been delivered, and is   *)
(* acknowledged unless a fault has left it behind.                         *)
EveryEntrySettles ==
  []<>(/\ group.exists
       /\ \A k \in group.start + 1 .. Len(stream) :
            k \in Delivered /\ (k \in DOMAIN pending => k \in Stranded))

(* "Do NOT ack — message stays in PEL for XAUTOCLAIM recovery": an entry   *)
(* whose handling failed is recovered in the end.                          *)
FailedEntryRecovered ==
  \A k \in 1 .. MaxEntries : (k \in Stranded) ~> (k \notin DOMAIN pending)

=============================================================================

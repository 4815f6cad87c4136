------------------------ MODULE StreamConsumerProofs ------------------------
(***************************************************************************)
(* Proofs about StreamConsumer, for any number of pods, any batch size and *)
(* any number of faults of every kind.                                     *)
(*                                                                         *)
(* What is lost and what is repeated depends on who holds an entry: the    *)
(* batches of the loops are disjoint and pending (Owned), and an entry of  *)
(* a batch has been handled only while its loop is between the handler and *)
(* the acknowledgement (Placed).  A key, and the branch that found one,    *)
(* stand for an earlier handling of the event (Remembered), which survives *)
(* the key's expiry.                                                       *)
(* The two bounds need accounts: every entry left behind and every         *)
(* handling of an event is charged to a pod or to a fault (CountInv).      *)
(***************************************************************************)
EXTENDS StreamConsumer, SequenceTheorems, FiniteSetTheorems, TLAPS

Steps == {"down", "read", "check", "skip", "handle", "record", "ack"}

LoopState == [pc : Steps, batch : SUBSET Nat]

HandledEvents == {stream[l] : l \in HandledEntries}

TypeInv ==
  /\ stream \in Seq(Events)
  /\ group \in [exists : BOOLEAN, start : Nat, cursor : Nat]
  /\ group.start <= group.cursor /\ group.cursor <= Len(stream)
  /\ loop \in [Pods -> LoopState]
  /\ handled \in Seq(Nat)

(* Nothing runs and nothing is delivered before the group exists. *)
Begun ==
  ~group.exists => Delivered = {} /\ \A p \in Pods : loop[p].pc = "down"

Owned ==
  /\ DOMAIN pending \subseteq Delivered
  /\ \A p \in Pods :
       /\ loop[p].batch \subseteq DOMAIN pending
       /\ loop[p].pc \in {"down", "read"} => loop[p].batch = {}
  /\ \A p, q \in Pods : p # q => loop[p].batch \cap loop[q].batch = {}

AfterHandler(p, k) == At(p, k, "record") \/ At(p, k, "ack")

Placed ==
  /\ HandledEntries \subseteq Delivered
  /\ \A p \in Pods : \A k \in loop[p].batch : k \in HandledEntries <=> AfterHandler(p, k)

Remembered ==
  /\ processed \subseteq HandledEvents
  /\ \A p \in Pods : \A k \in loop[p].batch : At(p, k, "skip") => stream[k] \in HandledEvents

GroupInv ==
  /\ TypeInv /\ Begun /\ Owned /\ Placed /\ Remembered
  /\ EntryHandledOnce
  /\ AcknowledgedIsHandled

-----------------------------------------------------------------------------
LEMMA RangeFacts ==
  ASSUME TypeInv
  PROVE  /\ group.start \in Nat /\ group.cursor \in Nat /\ Len(stream) \in Nat
         /\ DOMAIN stream = 1 .. Len(stream)
         /\ Delivered \subseteq DOMAIN stream
         /\ DOMAIN handled = 1 .. Len(handled) /\ Len(handled) \in Nat
BY DEF TypeInv, Delivered

(* No pod runs and nothing has been produced. *)
LEMMA GroupInvInit == Init => GroupInv
<1> SUFFICES ASSUME Init PROVE GroupInv
  OBVIOUS
<1>1. /\ stream = <<>> /\ handled = <<>> /\ processed = {}
      /\ group = [exists |-> FALSE, start |-> 0, cursor |-> 0]
      /\ \A p \in Pods : loop[p].pc = "down" /\ loop[p].batch = {}
      /\ loop \in [Pods -> LoopState]
      /\ DOMAIN pending = {}
  BY DEF Init, Down, LoopState, Steps
<1>2. HandledEntries = {} /\ DOMAIN handled = {} /\ Delivered = {}
  BY <1>1 DEF HandledEntries, Delivered
<1>3. TypeInv
  BY <1>1 DEF TypeInv
<1> QED
  BY <1>1, <1>2, <1>3 DEF GroupInv, Begun, Owned, Placed, Remembered, EntryHandledOnce,
     AcknowledgedIsHandled

(* The group is created once, where nothing has been delivered. *)
LEMMA StartInv ==
  ASSUME GroupInv, NEW p \in Pods, Start(p)
  PROVE  GroupInv'
<1> USE DEF GroupInv
<1>1. /\ loop[p].batch = {} /\ loop[p].pc = "down"
      /\ loop' \in [Pods -> LoopState]
      /\ loop'[p].batch = {} /\ loop'[p].pc = "read"
      /\ \A q \in Pods : q # p => loop'[q] = loop[q]
      /\ UNCHANGED <<stream, pending, processed, handled>>
  BY DEF Start, GoTo, Down, TypeInv, LoopState, Steps
<1>2. /\ group' \in [exists : BOOLEAN, start : Nat, cursor : Nat] /\ group'.exists
      /\ group'.start <= group'.cursor /\ group'.cursor <= Len(stream)
      /\ Delivered' = Delivered
  <2>1. CASE group.exists
    BY <2>1 DEF Start, TypeInv, Delivered
  <2>2. CASE ~group.exists
    <3>1. group' = [exists |-> TRUE, start |-> Len(stream), cursor |-> Len(stream)]
      BY <2>2 DEF Start
    <3>2. Delivered' = {}
      BY <3>1, RangeFacts DEF Delivered
    <3> QED
      BY <2>2, <3>1, <3>2, RangeFacts DEF Begun
  <2> QED
    BY <2>1, <2>2
<1>3. HandledEntries' = HandledEntries /\ HandledEvents' = HandledEvents
  BY <1>1 DEF HandledEntries, HandledEvents
<1>4. TypeInv' /\ Begun'
  BY <1>1, <1>2 DEF TypeInv, Begun
<1>5. Owned'
  BY <1>1, <1>2 DEF Owned
<1>6. Placed' /\ Remembered'
  BY <1>1, <1>2, <1>3 DEF Placed, Remembered, AfterHandler, At
<1>7. EntryHandledOnce' /\ AcknowledgedIsHandled'
  BY <1>1, <1>2, <1>3 DEF EntryHandledOnce, AcknowledgedIsHandled
<1> QED
  BY <1>4, <1>5, <1>6, <1>7

-----------------------------------------------------------------------------
(* XREADGROUP moves the cursor over what it hands out. *)
LEMMA FreshFacts ==
  ASSUME TypeInv, Fresh # {}
  PROVE  /\ Cardinality(Fresh) \in Nat
         /\ Fresh = group.cursor + 1 .. group.cursor + Cardinality(Fresh)
         /\ group.cursor + Cardinality(Fresh) <= Len(stream)
<1> DEFINE c == group.cursor
           last == IF c + BatchSize <= Len(stream) THEN c + BatchSize ELSE Len(stream)
<1>1. c \in Nat /\ last \in Nat /\ BatchSize \in Nat /\ Len(stream) \in Nat /\ c <= Len(stream)
  BY RangeFacts, BatchSizeAssumption DEF BatchSizeAssumption, TypeInv
<1>2. Fresh = c + 1 .. last
  BY <1>1 DEF Fresh
<1>3. c + 1 <= last /\ last <= Len(stream)
  BY <1>1, <1>2
<1> HIDE DEF c, last
<1>4. Cardinality(Fresh) = last - (c + 1) + 1
  BY <1>1, <1>2, <1>3, FS_Interval
<1> QED
  BY <1>1, <1>2, <1>3, <1>4 DEF c

LEMMA DeliverInv ==
  ASSUME GroupInv, NEW p \in Pods, Deliver(p),
         loop' = loop \/ loop' = [loop EXCEPT ![p] = [pc |-> "check", batch |-> Fresh]]
  PROVE  GroupInv'
<1> USE DEF GroupInv
<1>1. /\ Cardinality(Fresh) \in Nat
      /\ Fresh = group.cursor + 1 .. group.cursor + Cardinality(Fresh)
      /\ group.cursor + Cardinality(Fresh) <= Len(stream)
  BY FreshFacts DEF Deliver
<1>2. /\ group' = [group EXCEPT !.cursor = @ + Cardinality(Fresh)]
      /\ DOMAIN pending' = DOMAIN pending \cup Fresh
      /\ UNCHANGED <<stream, processed, handled>>
      /\ loop[p].pc = "read"
  BY DEF Deliver
<1>3. /\ Delivered' = Delivered \cup Fresh /\ Delivered \cap Fresh = {} /\ Fresh \subseteq Nat
      /\ group' \in [exists : BOOLEAN, start : Nat, cursor : Nat]
      /\ group'.exists = group.exists
      /\ group'.start <= group'.cursor /\ group'.cursor <= Len(stream)
  <2>1. /\ group'.start = group.start /\ group'.cursor = group.cursor + Cardinality(Fresh)
        /\ group'.exists = group.exists
        /\ group' \in [exists : BOOLEAN, start : Nat, cursor : Nat]
    BY <1>1, <1>2 DEF TypeInv
  <2> QED
    BY <1>1, <2>1 DEF TypeInv, Delivered
<1>4. /\ loop' \in [Pods -> LoopState]
      /\ \A q \in Pods : q # p => loop'[q] = loop[q]
      /\ \/ loop'[p] = loop[p]
         \/ loop'[p].pc = "check" /\ loop'[p].batch = Fresh
  <2> DEFINE given == [pc |-> "check", batch |-> Fresh]
  <2>1. given \in LoopState /\ given.pc = "check" /\ given.batch = Fresh
    BY <1>3 DEF LoopState, Steps
  <2> HIDE DEF given
  <2>2. CASE loop' = loop
    BY <2>2 DEF TypeInv
  <2>3. CASE loop' = [loop EXCEPT ![p] = given]
    BY <2>1, <2>3 DEF TypeInv
  <2> QED
    BY <2>2, <2>3 DEF given
<1>5. HandledEntries' = HandledEntries /\ HandledEvents' = HandledEvents
  BY <1>2 DEF HandledEntries, HandledEvents
<1>6. TypeInv'
  BY <1>2, <1>3, <1>4 DEF TypeInv
<1>7. Begun'
  <2>1. group.exists
    BY <1>2 DEF Begun
  <2> QED
    BY <1>3, <2>1 DEF Begun
<1>8. Owned'
  <2>1. \A q \in Pods : loop[q].batch \cap Fresh = {}
    BY <1>3 DEF Owned
  <2> QED
    BY <1>2, <1>3, <1>4, <2>1 DEF Owned
<1>9. Placed'
  <2>1. \A k \in Fresh : k \notin HandledEntries
    BY <1>3 DEF Placed
  <2> QED
    BY <1>3, <1>4, <1>5, <2>1 DEF Placed, AfterHandler, At
<1>10. Remembered'
  BY <1>2, <1>4, <1>5 DEF Remembered, At
<1>11. EntryHandledOnce' /\ AcknowledgedIsHandled'
  BY <1>2, <1>3, <1>5 DEF EntryHandledOnce, AcknowledgedIsHandled
<1> QED
  BY <1>6, <1>7, <1>8, <1>9, <1>10, <1>11

-----------------------------------------------------------------------------
(* A step within one entry: EXISTS, the handler, SET. *)
LEMMA WithinInv ==
  ASSUME GroupInv, NEW p \in Pods, NEW k \in Nat,
         Check(p, k) \/ Handle(p, k) \/ Record(p, k)
  PROVE  GroupInv'
<1> USE DEF GroupInv
<1>1. /\ UNCHANGED <<stream, group, pending>> /\ k \in loop[p].batch
      /\ \A l \in loop[p].batch : k <= l
  BY DEF Check, Handle, Record, At
<1>2. PICK pc \in {"skip", "handle", "record", "ack"} : GoTo(p, pc)
  BY DEF Check, Handle, Record
<1>3. /\ loop' \in [Pods -> LoopState]
      /\ \A q \in Pods : loop'[q].batch = loop[q].batch
      /\ \A q \in Pods : q # p => loop'[q] = loop[q]
      /\ loop'[p].pc = pc
  BY <1>2 DEF GoTo, TypeInv, LoopState, Steps
<1>4. Delivered' = Delivered
  BY <1>1 DEF Delivered
<1>5. k \in Delivered /\ k \in DOMAIN stream /\ loop[p].batch \subseteq Nat
  BY <1>1, RangeFacts DEF Owned, TypeInv, LoopState
<1>6. loop[p].pc # "down"
  BY <1>1 DEF Owned
<1>7. Begun'
  BY <1>1, <1>3, <1>4, <1>6 DEF Begun
<1>8. Owned'
  BY <1>1, <1>3, <1>4 DEF Owned
<1>9. \A q \in Pods, l \in Nat, n \in Steps : At(q, l, n)' <=>
        IF q = p THEN n = pc /\ l = k ELSE At(q, l, n)
  BY <1>1, <1>3, <1>5 DEF At
<1>10. \A n \in Steps, l \in loop[p].batch : At(p, l, n) <=> loop[p].pc = n /\ l = k
  BY <1>1, <1>5 DEF At
<1>11. CASE Check(p, k)
  <2>1. /\ UNCHANGED <<processed, handled>> /\ loop[p].pc = "check"
        /\ pc = IF stream[k] \in processed THEN "skip" ELSE "handle"
    BY <1>3, <1>11 DEF Check, At, GoTo, TypeInv
  <2>2. HandledEntries' = HandledEntries /\ HandledEvents' = HandledEvents
    BY <1>1, <2>1 DEF HandledEntries, HandledEvents
  <2>3. TypeInv'
    BY <1>1, <1>3, <2>1 DEF TypeInv
  <2>4. Placed'
    BY <1>3, <1>4, <1>9, <1>10, <2>1, <2>2 DEF Placed, AfterHandler, Steps, TypeInv, LoopState
  <2>5. Remembered'
    BY <1>1, <1>3, <1>9, <2>1, <2>2 DEF Remembered, Steps, TypeInv, LoopState
  <2>6. EntryHandledOnce' /\ AcknowledgedIsHandled'
    BY <1>1, <1>4, <2>1, <2>2 DEF EntryHandledOnce, AcknowledgedIsHandled
  <2> QED
    BY <1>7, <1>8, <2>3, <2>4, <2>5, <2>6
<1>12. CASE Handle(p, k)
  <2>1. /\ processed' = processed /\ handled' = Append(handled, k)
        /\ loop[p].pc = "handle" /\ pc = "record"
    BY <1>3, <1>12 DEF Handle, At, GoTo, TypeInv
  <2>2. /\ handled' \in Seq(Nat) /\ DOMAIN handled' = DOMAIN handled \cup {Len(handled) + 1}
        /\ \A i \in DOMAIN handled : handled'[i] = handled[i]
        /\ handled'[Len(handled) + 1] = k
    BY <2>1, AppendProperties, RangeFacts DEF TypeInv
  <2>3. HandledEntries' = HandledEntries \cup {k}
    BY <2>2 DEF HandledEntries
  <2>4. HandledEvents \subseteq HandledEvents'
    BY <1>1, <2>3 DEF HandledEvents
  <2>5. TypeInv'
    BY <1>1, <1>3, <2>2 DEF TypeInv
  <2>6. k \notin HandledEntries
    BY <1>1, <1>10, <2>1 DEF Placed, AfterHandler, Steps
  <2>7. Placed'
    <3>1. \A q \in Pods : q # p => k \notin loop[q].batch
      BY <1>1 DEF Owned
    <3> QED
      BY <1>3, <1>4, <1>5, <1>9, <1>10, <2>1, <2>3, <3>1
         DEF Placed, AfterHandler, Steps, TypeInv, LoopState
  <2>8. Remembered'
    BY <1>1, <1>3, <1>9, <2>1, <2>4 DEF Remembered, Steps, TypeInv, LoopState
  <2>9. EntryHandledOnce'
    BY <2>2, <2>6 DEF EntryHandledOnce, HandledEntries
  <2>10. AcknowledgedIsHandled'
    BY <1>1, <1>4, <2>3 DEF AcknowledgedIsHandled
  <2> QED
    BY <1>7, <1>8, <2>5, <2>7, <2>8, <2>9, <2>10
<1>13. CASE Record(p, k)
  <2>1. /\ handled' = handled /\ processed' = processed \cup {stream[k]}
        /\ loop[p].pc = "record" /\ pc = "ack"
    BY <1>3, <1>13 DEF Record, At, GoTo, TypeInv
  <2>2. HandledEntries' = HandledEntries /\ HandledEvents' = HandledEvents
    BY <1>1, <2>1 DEF HandledEntries, HandledEvents
  <2>3. k \in HandledEntries
    BY <1>1, <1>10, <2>1 DEF Placed, AfterHandler, Steps
  <2>4. TypeInv'
    BY <1>1, <1>3, <2>1 DEF TypeInv
  <2>5. Placed'
    BY <1>3, <1>4, <1>9, <1>10, <2>1, <2>2 DEF Placed, AfterHandler, Steps, TypeInv, LoopState
  <2>6. Remembered'
    <3>1. stream[k] \in HandledEvents
      BY <2>3 DEF HandledEvents
    <3> QED
      BY <1>1, <1>3, <1>9, <2>1, <2>2, <3>1 DEF Remembered, Steps, TypeInv, LoopState
  <2>7. EntryHandledOnce' /\ AcknowledgedIsHandled'
    BY <1>1, <1>4, <2>1, <2>2 DEF EntryHandledOnce, AcknowledgedIsHandled
  <2> QED
    BY <1>7, <1>8, <2>4, <2>5, <2>6, <2>7
<1> QED
  BY <1>11, <1>12, <1>13

(* A loop leaves entries of its batch: acknowledged ones, whose event was  *)
(* handled, leave the pending entries list as well.                        *)
LEMMA LeaveInv ==
  ASSUME GroupInv, NEW p \in Pods, NEW rest, NEW pc, rest \subseteq loop[p].batch,
         pc = "check" \/ (rest = {} /\ pc \in {"read", "down"}),
         loop[p].pc # "down",
         loop' = [loop EXCEPT ![p] = [pc |-> pc, batch |-> rest]],
         \A k \in rest : ~AfterHandler(p, k),
         DOMAIN pending' \subseteq DOMAIN pending,
         \A k \in DOMAIN pending \ DOMAIN pending' :
           k \in loop[p].batch \ rest /\ stream[k] \in HandledEvents,
         UNCHANGED <<stream, group, processed, handled>>
  PROVE  GroupInv'
<1> USE DEF GroupInv
<1>1. /\ loop' \in [Pods -> LoopState]
      /\ \A q \in Pods : q # p => loop'[q] = loop[q]
      /\ loop'[p].pc = pc /\ loop'[p].batch = rest
  <2> DEFINE left == [pc |-> pc, batch |-> rest]
  <2>1. left \in LoopState /\ left.pc = pc /\ left.batch = rest
    BY DEF TypeInv, LoopState, Steps
  <2> HIDE DEF left
  <2>2. loop' = [loop EXCEPT ![p] = left]
    BY DEF left
  <2> QED
    BY <2>1, <2>2 DEF TypeInv
<1>2. /\ HandledEntries' = HandledEntries /\ HandledEvents' = HandledEvents
      /\ Delivered' = Delivered
  BY DEF HandledEntries, HandledEvents, Delivered
<1>3. TypeInv' /\ Begun'
  BY <1>1, <1>2 DEF TypeInv, Begun
<1>4. Owned'
  BY <1>1, <1>2 DEF Owned
<1>5. Placed'
  BY <1>1, <1>2 DEF Placed, AfterHandler, At
<1>6. Remembered'
  BY <1>1, <1>2 DEF Remembered, At
<1>7. EntryHandledOnce'
  BY DEF EntryHandledOnce
<1>8. AcknowledgedIsHandled'
  BY <1>2 DEF AcknowledgedIsHandled, HandledEvents
<1> QED
  BY <1>3, <1>4, <1>5, <1>6, <1>7, <1>8

-----------------------------------------------------------------------------
(* The ends of an entry: XACK, an error inside the inner try or outside. *)
LEMMA EndInv ==
  ASSUME GroupInv, NEW p \in Pods, NEW k \in Nat,
         Ack(p, k) \/ EntryFails(p, k) \/ BatchFails(p, k)
  PROVE  GroupInv'
<1> USE DEF GroupInv
<1> DEFINE rest == loop[p].batch \ {k}
<1>1. /\ k \in loop[p].batch /\ \A l \in loop[p].batch : k <= l
      /\ UNCHANGED <<stream, group, processed, handled>>
  BY DEF Ack, EntryFails, BatchFails, At
<1>2. loop[p].pc # "down" /\ loop[p].batch \subseteq Nat
  BY <1>1 DEF Owned, TypeInv, LoopState
<1>3. \A l \in rest : ~AfterHandler(p, l)
  BY <1>1, <1>2 DEF AfterHandler, At
<1>4. CASE Ack(p, k)
  <2>1. stream[k] \in HandledEvents
    BY <1>1, <1>4 DEF Ack, Placed, Remembered, AfterHandler, HandledEvents
  <2>2. DOMAIN pending' = DOMAIN pending \ {k}
    BY <1>4 DEF Ack, Acknowledge
  <2>3. NextEntry(p, k)
    BY <1>4 DEF Ack
  <2> QED
    BY <1>1, <1>2, <1>3, <2>1, <2>2, <2>3, LeaveInv DEF NextEntry
<1>5. CASE EntryFails(p, k)
  <2>1. NextEntry(p, k) /\ DOMAIN pending' = DOMAIN pending
    BY <1>5 DEF EntryFails
  <2> QED
    BY <1>1, <1>2, <1>3, <2>1, LeaveInv DEF NextEntry
<1>6. CASE BatchFails(p, k)
  <2>1. PICK none : none = {}
    OBVIOUS
  <2>2. loop' = [loop EXCEPT ![p] = [pc |-> "read", batch |-> none]] /\ DOMAIN pending' = DOMAIN pending
    BY <1>6, <2>1 DEF BatchFails
  <2>3. none \subseteq loop[p].batch /\ \A l \in none : ~AfterHandler(p, l)
    BY <2>1
  <2> QED
    BY <1>1, <1>2, <2>1, <2>2, <2>3, LeaveInv
<1> QED
  BY <1>4, <1>5, <1>6

LEMMA CrashInv ==
  ASSUME GroupInv, NEW p \in Pods, Crash(p)
  PROVE  GroupInv'
<1>0. PICK none : none = {}
  OBVIOUS
<1>1. /\ loop' = [loop EXCEPT ![p] = [pc |-> "down", batch |-> none]]
      /\ DOMAIN pending' = DOMAIN pending
      /\ UNCHANGED <<stream, group, processed, handled>>
  BY <1>0 DEF Crash, Down
<1>2. loop[p].pc # "down"
  <2>1. loop[p] # Down /\ loop[p] \in LoopState
    BY DEF Crash, GroupInv, TypeInv
  <2>2. loop[p].pc = "down" => loop[p].batch = {}
    BY DEF GroupInv, Owned
  <2> QED
    BY <2>1, <2>2 DEF LoopState, Down
<1>3. none \subseteq loop[p].batch /\ \A l \in none : ~AfterHandler(p, l)
  BY <1>0
<1> QED
  BY <1>0, <1>1, <1>2, <1>3, LeaveInv

(* Owners change, keys expire, entries are appended. *)
LEMMA AroundInv ==
  ASSUME GroupInv,
         \/ \E p \in Pods, S \in SUBSET DOMAIN pending : Reclaim(p, S)
         \/ \E e \in Events : Expire(e)
         \/ \E e \in Events : stream' = Append(stream, e) /\ UNCHANGED consumerVars
         \/ UNCHANGED vars
  PROVE  GroupInv'
<1> USE DEF GroupInv
<1>1. /\ DOMAIN pending' = DOMAIN pending /\ processed' \subseteq processed
      /\ UNCHANGED <<group, loop, handled>>
  BY DEF Reclaim, Expire, vars, consumerVars
<1>2. /\ stream' \in Seq(Events) /\ Len(stream') \in Nat /\ Len(stream) <= Len(stream')
      /\ \A k \in DOMAIN stream : stream'[k] = stream[k]
  <2>1. CASE UNCHANGED stream
    <3>1. stream' = stream /\ stream \in Seq(Events) /\ Len(stream) \in Nat
      BY <2>1 DEF TypeInv
    <3> QED
      BY <3>1
  <2>2. ASSUME NEW e \in Events, stream' = Append(stream, e)
        PROVE  /\ stream' \in Seq(Events) /\ Len(stream') \in Nat /\ Len(stream) <= Len(stream')
               /\ \A k \in DOMAIN stream : stream'[k] = stream[k]
    BY <2>2, RangeFacts, AppendProperties DEF TypeInv
  <2> QED
    BY <2>1, <2>2 DEF Reclaim, Expire, vars
<1>3. HandledEntries' = HandledEntries /\ Delivered' = Delivered
  BY <1>1 DEF HandledEntries, Delivered
<1>4. Delivered \subseteq DOMAIN stream /\ HandledEntries \subseteq DOMAIN stream
  BY RangeFacts DEF Placed
<1>5. HandledEvents' = HandledEvents
  BY <1>2, <1>3, <1>4 DEF HandledEvents
<1>6. TypeInv'
  BY <1>1, <1>2, RangeFacts DEF TypeInv
<1>7. Begun' /\ Owned'
  BY <1>1, <1>3 DEF Begun, Owned
<1>8. Placed'
  BY <1>1, <1>3 DEF Placed, AfterHandler, At
<1>9. Remembered'
  BY <1>1, <1>2, <1>4, <1>5 DEF Remembered, Owned, At
<1>10. EntryHandledOnce'
  BY <1>1 DEF EntryHandledOnce
<1>11. AcknowledgedIsHandled'
  BY <1>1, <1>2, <1>3, <1>4 DEF AcknowledgedIsHandled
<1> QED
  BY <1>6, <1>7, <1>8, <1>9, <1>10, <1>11

-----------------------------------------------------------------------------
(* The steps of the pods keep the invariant, whoever fills the stream. *)
LEMMA ConsumerNextInv ==
  ASSUME GroupInv, ConsumerNext
  PROVE  GroupInv'
<1>1. DOMAIN pending \subseteq Nat
  BY RangeFacts DEF GroupInv, Owned, Delivered
<1>2. ASSUME NEW p \in Pods, Start(p) PROVE GroupInv'
  BY <1>2, StartInv
<1>3. ASSUME NEW p \in Pods, Read(p) \/ ReadUnanswered(p) PROVE GroupInv'
  BY <1>3, DeliverInv DEF Read, ReadUnanswered
<1>4. ASSUME NEW p \in Pods, NEW k \in DOMAIN pending,
             \/ Check(p, k) \/ Handle(p, k) \/ Record(p, k)
             \/ Ack(p, k) \/ EntryFails(p, k) \/ BatchFails(p, k)
      PROVE  GroupInv'
  BY <1>1, <1>4, WithinInv, EndInv
<1>5. ASSUME NEW p \in Pods, Crash(p) PROVE GroupInv'
  BY <1>5, CrashInv
<1> QED
  BY <1>2, <1>3, <1>4, <1>5, AroundInv DEF ConsumerNext, LoopStep

(* The invariant of the consumer group. *)
THEOREM GroupInvariance == Spec => []GroupInv
<1>1. GroupInv /\ [Next]_vars => GroupInv'
  BY ConsumerNextInv, AroundInv DEF Next, Produce
<1> QED
  BY <1>1, GroupInvInit, PTL DEF Spec

(* No entry reaches the handler twice, for any number of pods, restarts    *)
(* and reclaimed entries (index.ts:79-129).                                *)
THEOREM EntriesAreHandledOnce == Spec => []EntryHandledOnce
<1>1. GroupInv => EntryHandledOnce
  BY DEF GroupInv
<1> QED
  BY <1>1, GroupInvariance, PTL

(* What has left the pending entries list has been handled, for any number *)
(* of pods and of faults of every kind (index.ts:104-122).                 *)
THEOREM NothingIsLostSilently == Spec => []AcknowledgedIsHandled
<1>1. GroupInv => AcknowledgedIsHandled
  BY DEF GroupInv
<1> QED
  BY <1>1, GroupInvariance, PTL

-----------------------------------------------------------------------------
(* How much is left behind, and how often an event is handled.  Each entry *)
(* left behind is charged to a fault; each handling of an event to a pod   *)
(* that has handled it and not yet set its key (HaveHandled), to a fault,  *)
(* and, once the key is there, to one of the pods there are.               *)
Within ==
  /\ faults \in [Faults -> Nat]
  /\ \A f \in Faults : faults[f] <= FaultBudget[f]

SmallBatches == \A p \in Pods : IsFiniteSet(loop[p].batch) /\ Cardinality(loop[p].batch) <= BatchSize

(* The pods that have handled event e and not yet set its key, and those   *)
(* that have found no key and have not handled it yet.                     *)
HaveHandled(e) == {p \in Pods : \E k \in loop[p].batch : At(p, k, "record") /\ stream[k] = e}

AboutTo(e) == {p \in Pods : \E k \in loop[p].batch : At(p, k, "handle") /\ stream[k] = e}

Excess == Cardinality(Pods) * (Spent("unrecorded") + Spent("crash") + Spent("expired"))

(* A pod that is about to handle an event has looked before the key was    *)
(* there.                                                                  *)
Accounted(e) ==
  /\ e \notin processed => TimesHandled(e) <= Cardinality(HaveHandled(e)) + Excess
  /\ e \in processed => TimesHandled(e) + Cardinality(AboutTo(e)) <= Cardinality(Pods) + Excess

LeftBehind ==
  Spent("unhandled") + Spent("unrecorded") + Spent("unacked")
    + BatchSize * (Spent("unread") + Spent("unchecked") + Spent("crash"))

CountInv == Within /\ SmallBatches /\ StrandedBounded /\ \A e \in Events : Accounted(e)

-----------------------------------------------------------------------------
(* A pod has one step to take, with one entry. *)
LEMMA OneAt ==
  ASSUME TypeInv, NEW p \in Pods, NEW k, NEW l, NEW a, NEW b, At(p, k, a), At(p, l, b)
  PROVE  k = l /\ a = b
BY DEF TypeInv, LoopState, At

LEMMA CountFacts ==
  ASSUME TypeInv, NEW e
  PROVE  /\ Cardinality(Pods) \in Nat
         /\ IsFiniteSet(HaveHandled(e)) /\ Cardinality(HaveHandled(e)) \in Nat
         /\ IsFiniteSet(AboutTo(e)) /\ Cardinality(AboutTo(e)) \in Nat
         /\ Cardinality(HaveHandled(e)) + Cardinality(AboutTo(e)) <= Cardinality(Pods)
         /\ TimesHandled(e) \in Nat
<1>1. IsFiniteSet(Pods) /\ Cardinality(Pods) \in Nat
  BY PodsAssumption, FS_CardinalityType DEF PodsAssumption
<1>2. HaveHandled(e) \subseteq Pods /\ AboutTo(e) \subseteq Pods /\ HaveHandled(e) \cap AboutTo(e) = {}
  BY DEF HaveHandled, AboutTo, At
<1>3. /\ IsFiniteSet(HaveHandled(e)) /\ Cardinality(HaveHandled(e)) \in Nat
      /\ IsFiniteSet(AboutTo(e)) /\ Cardinality(AboutTo(e)) \in Nat
  BY <1>1, <1>2, FS_Subset, FS_CardinalityType
<1>4. Cardinality(HaveHandled(e) \cup AboutTo(e)) =
        Cardinality(HaveHandled(e)) + Cardinality(AboutTo(e)) - Cardinality(HaveHandled(e) \cap AboutTo(e))
  BY <1>3, FS_Union
<1>5. Cardinality(HaveHandled(e) \cap AboutTo(e)) = 0
  BY <1>2, FS_EmptySet
<1>6. Cardinality(HaveHandled(e) \cup AboutTo(e)) <= Cardinality(Pods)
  <2>1. HaveHandled(e) \cup AboutTo(e) \subseteq Pods
    BY <1>2
  <2> QED
    BY <1>1, <2>1, FS_Subset
<1>7. TimesHandled(e) \in Nat
  <2>1. {j \in DOMAIN handled : stream[handled[j]] = e} \subseteq 1 .. Len(handled) /\ IsFiniteSet(1 .. Len(handled))
    BY RangeFacts, FS_Interval
  <2> QED
    BY <2>1, FS_Subset, FS_CardinalityType DEF TimesHandled
<1> QED
  BY <1>1, <1>3, <1>4, <1>5, <1>6, <1>7

(* What the handler's history says of events that are in the stream. *)
LEMMA TimesRest ==
  ASSUME GroupInv, UNCHANGED handled, \A k \in DOMAIN stream : stream'[k] = stream[k], NEW e
  PROVE  TimesHandled(e)' = TimesHandled(e)
<1>1. \A j \in DOMAIN handled : handled[j] \in DOMAIN stream
  BY RangeFacts DEF GroupInv, Placed, HandledEntries
<1>2. {j \in DOMAIN handled : stream'[handled[j]] = e} = {j \in DOMAIN handled : stream[handled[j]] = e}
  BY <1>1
<1> QED
  BY <1>2 DEF TimesHandled

LEMMA TimesAppended ==
  ASSUME TypeInv, NEW k \in Nat, handled' = Append(handled, k), UNCHANGED stream, NEW e
  PROVE  TimesHandled(e)' = IF e = stream[k] THEN TimesHandled(e) + 1 ELSE TimesHandled(e)
<1> DEFINE S == {j \in DOMAIN handled : stream[handled[j]] = e}
           U == {j \in DOMAIN handled' : stream'[handled'[j]] = e}
<1>1. /\ DOMAIN handled' = DOMAIN handled \cup {Len(handled) + 1}
      /\ \A j \in DOMAIN handled : handled'[j] = handled[j]
      /\ handled'[Len(handled) + 1] = k
  BY AppendProperties DEF TypeInv
<1>2. DOMAIN handled = 1 .. Len(handled) /\ Len(handled) \in Nat
  BY RangeFacts
<1>3. IsFiniteSet(S) /\ Len(handled) + 1 \notin S
  <2>1. IsFiniteSet(1 .. Len(handled))
    BY <1>2, FS_Interval
  <2>2. S \in SUBSET (1 .. Len(handled))
    BY <1>2
  <2>3. IsFiniteSet(S)
    BY <2>1, <2>2, FS_Subset
  <2>4. Len(handled) + 1 \notin 1 .. Len(handled)
    BY <1>2
  <2> QED
    BY <2>2, <2>3, <2>4
<1>4. e = stream[k] => U = S \cup {Len(handled) + 1}
  BY <1>1
<1>5. e # stream[k] => U = S
  BY <1>1
<1>6. Cardinality(S \cup {Len(handled) + 1}) = Cardinality(S) + 1
  BY <1>3, FS_AddElement
<1>7. TimesHandled(e) = Cardinality(S) /\ TimesHandled(e)' = Cardinality(U)
  BY DEF TimesHandled
<1> QED
  BY <1>4, <1>5, <1>6, <1>7

(* What a fault allows. *)
LEMMA SpentFacts ==
  ASSUME TypeInv, Within
  PROVE  /\ \A f \in Faults : Spent(f) \in Nat
         /\ Excess \in Nat /\ LeftBehind \in Nat
<1>1. \A f \in Faults : Spent(f) \in Nat
  BY FaultBudgetAssumption DEF FaultBudgetAssumption, Within, Spent
<1>2. Cardinality(Pods) \in Nat /\ BatchSize \in Nat
  BY PodsAssumption, BatchSizeAssumption, FS_CardinalityType DEF PodsAssumption, BatchSizeAssumption
<1>3. \A a, b \in Nat : a * b \in Nat
  OBVIOUS
<1>4. Spent("unrecorded") + Spent("crash") + Spent("expired") \in Nat
  BY <1>1 DEF Faults
<1>5. Excess \in Nat
  BY <1>2, <1>3, <1>4 DEF Excess
<1>6. /\ Spent("unread") + Spent("unchecked") + Spent("crash") \in Nat
      /\ Spent("unhandled") + Spent("unrecorded") + Spent("unacked") \in Nat
  BY <1>1 DEF Faults
<1>7. LeftBehind \in Nat
  BY <1>2, <1>3, <1>6 DEF LeftBehind
<1> QED
  BY <1>1, <1>5, <1>7

LEMMA SpentRests ==
  ASSUME UNCHANGED faults, Within
  PROVE  Within' /\ Excess' = Excess /\ LeftBehind' = LeftBehind
BY DEF Within, Excess, LeftBehind, Spent

LEMMA FaultSpends ==
  ASSUME TypeInv, Within, NEW f \in Faults, Happens(f)
  PROVE  /\ Within'
         /\ Excess' = IF f \in {"unrecorded", "crash", "expired"} THEN Excess + Cardinality(Pods) ELSE Excess
         /\ LeftBehind' = LeftBehind + (IF f = "expired" THEN 0
                                        ELSE IF f \in {"unread", "unchecked", "crash"} THEN BatchSize ELSE 1)
<1>1. /\ faults'[f] = faults[f] - 1 /\ \A g \in Faults : g # f => faults'[g] = faults[g]
      /\ \A g \in Faults : faults[g] \in Nat /\ FaultBudget[g] \in Nat
      /\ faults[f] > 0 /\ faults' \in [Faults -> Nat]
  <2>1. faults \in [Faults -> Nat] /\ faults[f] > 0 /\ faults' = [faults EXCEPT ![f] = faults[f] - 1]
    BY DEF Within, Happens
  <2>2. faults[f] \in Nat
    BY <2>1
  <2>3. faults[f] - 1 \in Nat
    BY <2>1, <2>2
  <2>4. \A g \in Faults : FaultBudget[g] \in Nat
    BY FaultBudgetAssumption DEF FaultBudgetAssumption
  <2> QED
    BY <2>1, <2>3, <2>4
<1>2. Within'
  BY <1>1 DEF Within
<1>3. Spent(f)' = Spent(f) + 1 /\ \A g \in Faults : g # f => Spent(g)' = Spent(g)
  BY <1>1 DEF Spent
<1>4. \A g \in Faults : Spent(g) \in Nat
  BY SpentFacts
<1>5. Cardinality(Pods) \in Nat /\ BatchSize \in Nat
  BY PodsAssumption, BatchSizeAssumption, FS_CardinalityType DEF PodsAssumption, BatchSizeAssumption
<1>6. \A a, b \in Nat : a * (b + 1) = a * b + a /\ a * b \in Nat
  OBVIOUS
<1> DEFINE keys == Spent("unrecorded") + Spent("crash") + Spent("expired")
           batches == Spent("unread") + Spent("unchecked") + Spent("crash")
           entries == Spent("unhandled") + Spent("unrecorded") + Spent("unacked")
<1>7. keys \in Nat /\ batches \in Nat /\ entries \in Nat
  BY <1>4 DEF Faults
<1>8. keys' = IF f \in {"unrecorded", "crash", "expired"} THEN keys + 1 ELSE keys
  BY <1>3, <1>4 DEF Faults
<1>9. batches' = IF f \in {"unread", "unchecked", "crash"} THEN batches + 1 ELSE batches
  BY <1>3, <1>4 DEF Faults
<1>10. entries' = IF f \in {"unhandled", "unrecorded", "unacked"} THEN entries + 1 ELSE entries
  BY <1>3, <1>4 DEF Faults
<1>11. /\ Excess = Cardinality(Pods) * keys /\ Excess' = Cardinality(Pods) * keys'
       /\ LeftBehind = entries + BatchSize * batches /\ LeftBehind' = entries' + BatchSize * batches'
  BY DEF Excess, LeftBehind
<1> HIDE DEF keys, batches, entries
<1>12. /\ Cardinality(Pods) * (keys + 1) = Cardinality(Pods) * keys + Cardinality(Pods)
       /\ BatchSize * (batches + 1) = BatchSize * batches + BatchSize
       /\ BatchSize * batches \in Nat /\ Cardinality(Pods) * keys \in Nat
  BY <1>5, <1>6, <1>7
<1>13. Excess' = IF f \in {"unrecorded", "crash", "expired"} THEN Excess + Cardinality(Pods) ELSE Excess
  BY <1>8, <1>11, <1>12
<1>14. CASE f \in {"unread", "unchecked", "crash"}
  <2>1. entries' = entries /\ batches' = batches + 1
    BY <1>9, <1>10, <1>14
  <2>2. LeftBehind' = LeftBehind + BatchSize
    BY <1>5, <1>7, <1>11, <1>12, <2>1
  <2> QED
    BY <1>1, <1>2, <1>13, <1>14, <2>2
<1>15. CASE f \in {"unhandled", "unrecorded", "unacked"}
  <2>1. entries' = entries + 1 /\ batches' = batches
    BY <1>9, <1>10, <1>15
  <2>2. LeftBehind' = LeftBehind + 1
    BY <1>5, <1>7, <1>11, <1>12, <2>1
  <2> QED
    BY <1>1, <1>2, <1>13, <1>15, <2>2
<1>16. CASE f = "expired"
  <2>1. entries' = entries /\ batches' = batches
    BY <1>9, <1>10, <1>16
  <2>2. LeftBehind' = LeftBehind + 0
    BY <1>5, <1>7, <1>11, <1>12, <2>1
  <2> QED
    BY <1>1, <1>2, <1>13, <1>16, <2>2
<1> QED
  BY <1>14, <1>15, <1>16 DEF Faults

-----------------------------------------------------------------------------
(* What a step of one pod may do to the accounts. *)
LEMMA AccountedStep ==
  ASSUME TypeInv, Within, NEW e, Accounted(e),
         e \in processed' <=> e \in processed,
         TimesHandled(e)' = TimesHandled(e),
         e \in processed => AboutTo(e)' \subseteq AboutTo(e),
         \/ HaveHandled(e)' = HaveHandled(e) /\ Excess' = Excess
         \/ Excess' = Excess + Cardinality(Pods)
  PROVE  Accounted(e)'
<1>1. /\ Cardinality(Pods) \in Nat
      /\ Cardinality(HaveHandled(e)) \in Nat
      /\ IsFiniteSet(AboutTo(e)) /\ Cardinality(AboutTo(e)) \in Nat
      /\ Cardinality(HaveHandled(e)) + Cardinality(AboutTo(e)) <= Cardinality(Pods)
      /\ TimesHandled(e) \in Nat
  BY CountFacts
<1>2. Cardinality(HaveHandled(e)') \in Nat /\ Cardinality(AboutTo(e)') \in Nat
  <2>1. HaveHandled(e)' \in SUBSET Pods /\ AboutTo(e)' \in SUBSET Pods
    BY DEF HaveHandled, AboutTo
  <2>2. IsFiniteSet(HaveHandled(e)') /\ IsFiniteSet(AboutTo(e)')
    BY <2>1, FS_Subset, PodsAssumption DEF PodsAssumption
  <2> QED
    BY <2>2, FS_CardinalityType
<1>3. Excess \in Nat
  BY SpentFacts
<1>4. e \in processed => Cardinality(AboutTo(e)') <= Cardinality(AboutTo(e))
  BY <1>1, FS_Subset
<1> QED
  BY <1>1, <1>2, <1>3, <1>4 DEF Accounted

LEMMA StrandedStep ==
  ASSUME GroupInv, Within, StrandedBounded, NEW X, IsFiniteSet(X), Stranded' \subseteq Stranded \cup X,
         NEW d \in Nat, Cardinality(X) <= d, LeftBehind' = LeftBehind + d
  PROVE  StrandedBounded'
<1>1. IsFiniteSet(Stranded)
  <2>1. Stranded \subseteq 1 .. Len(stream)
    BY RangeFacts DEF GroupInv, Owned, Stranded
  <2>2. IsFiniteSet(1 .. Len(stream))
    BY RangeFacts, FS_Interval DEF GroupInv
  <2> QED
    BY <2>1, <2>2, FS_Subset
<1>2. /\ IsFiniteSet(Stranded \cup X)
      /\ Cardinality(Stranded \cup X) = Cardinality(Stranded) + Cardinality(X) - Cardinality(Stranded \cap X)
  BY <1>1, FS_Union
<1>3. Cardinality(Stranded') <= Cardinality(Stranded \cup X) /\ IsFiniteSet(Stranded')
  BY <1>2, FS_Subset
<1>4. /\ Cardinality(Stranded) \in Nat /\ Cardinality(X) \in Nat /\ Cardinality(Stranded') \in Nat
      /\ Cardinality(Stranded \cap X) \in Nat /\ Cardinality(Stranded \cup X) \in Nat
  <2>1. IsFiniteSet(Stranded \cap X)
    <3>1. Stranded \cap X \in SUBSET X
      OBVIOUS
    <3> QED
      BY <3>1, FS_Subset
  <2> QED
    BY <1>1, <1>2, <1>3, <2>1, FS_CardinalityType
<1>5. LeftBehind \in Nat /\ Cardinality(Stranded) <= LeftBehind
  BY SpentFacts DEF GroupInv, StrandedBounded, LeftBehind
<1>6. Cardinality(Stranded') <= LeftBehind'
  BY <1>2, <1>3, <1>4, <1>5
<1> QED
  BY <1>6 DEF StrandedBounded, LeftBehind

(* The pods that do not move. *)
LEMMA OthersRest ==
  ASSUME GroupInv, NEW p, \A q \in Pods : q # p => loop'[q] = loop[q],
         \A k \in DOMAIN stream : stream'[k] = stream[k], NEW e
  PROVE  \A q \in Pods : q # p => /\ (q \in HaveHandled(e)' <=> q \in HaveHandled(e))
                                  /\ (q \in AboutTo(e)' <=> q \in AboutTo(e))
<1>1. \A q \in Pods : loop[q].batch \subseteq DOMAIN stream
  BY RangeFacts DEF GroupInv, Owned
<1> QED
  BY <1>1 DEF HaveHandled, AboutTo, At

(* A pod whose next step is neither the handler nor the key. *)
LEMMA QuietPod ==
  ASSUME GroupInv, NEW p \in Pods, \A q \in Pods : q # p => loop'[q] = loop[q],
         loop'[p].pc \notin {"handle", "record"},
         \A k \in DOMAIN stream : stream'[k] = stream[k], NEW e
  PROVE  /\ HaveHandled(e)' \subseteq HaveHandled(e) /\ AboutTo(e)' \subseteq AboutTo(e)
         /\ loop[p].pc # "record" => HaveHandled(e)' = HaveHandled(e)
<1>1. p \notin HaveHandled(e)' /\ p \notin AboutTo(e)'
  BY DEF HaveHandled, AboutTo, At
<1>2. \A q \in Pods : q # p => /\ (q \in HaveHandled(e)' <=> q \in HaveHandled(e))
                               /\ (q \in AboutTo(e)' <=> q \in AboutTo(e))
  BY OthersRest
<1>3. /\ HaveHandled(e) \subseteq Pods /\ HaveHandled(e)' \subseteq Pods
      /\ AboutTo(e) \subseteq Pods /\ AboutTo(e)' \subseteq Pods
  BY DEF HaveHandled, AboutTo
<1>4. loop[p].pc # "record" => p \notin HaveHandled(e)
  BY DEF HaveHandled, At
<1> QED
  BY <1>1, <1>2, <1>3, <1>4

(* Loop states after a step. *)
LEMMA GoToFacts ==
  ASSUME TypeInv, NEW p \in Pods, NEW pc, GoTo(p, pc)
  PROVE  /\ loop'[p].pc = pc /\ loop'[p].batch = loop[p].batch
         /\ \A q \in Pods : q # p => loop'[q] = loop[q]
BY DEF TypeInv, GoTo, LoopState

LEMMA NextEntryFacts ==
  ASSUME TypeInv, NEW p \in Pods, NEW k, NextEntry(p, k)
  PROVE  /\ loop'[p].pc \in {"read", "check"} /\ loop'[p].batch = loop[p].batch \ {k}
         /\ \A q \in Pods : q # p => loop'[q] = loop[q]
<1> DEFINE rest == loop[p].batch \ {k}
           next == [pc |-> IF rest = {} THEN "read" ELSE "check", batch |-> rest]
<1>1. loop' = [loop EXCEPT ![p] = next]
  BY DEF NextEntry
<1>2. next.pc \in {"read", "check"} /\ next.batch = rest
  OBVIOUS
<1> HIDE DEF next
<1> QED
  BY <1>1, <1>2 DEF TypeInv

(* A batch that shrinks. *)
LEMMA SmallerBatch ==
  ASSUME SmallBatches, NEW p \in Pods, loop'[p].batch \subseteq loop[p].batch,
         \A q \in Pods : q # p => loop'[q] = loop[q]
  PROVE  SmallBatches'
<1>1. ASSUME NEW q \in Pods
      PROVE  IsFiniteSet(loop'[q].batch) /\ Cardinality(loop'[q].batch) <= BatchSize
  <2>1. IsFiniteSet(loop[q].batch) /\ Cardinality(loop[q].batch) <= BatchSize
    BY DEF SmallBatches
  <2>2. CASE q # p
    BY <2>1, <2>2
  <2>3. CASE q = p
    <3>1. IsFiniteSet(loop'[q].batch) /\ Cardinality(loop'[q].batch) <= Cardinality(loop[q].batch)
      BY <2>1, <2>3, FS_Subset
    <3>2. Cardinality(loop'[q].batch) \in Nat /\ Cardinality(loop[q].batch) \in Nat /\ BatchSize \in Nat
      BY <2>1, <3>1, FS_CardinalityType, BatchSizeAssumption DEF BatchSizeAssumption
    <3> QED
      BY <2>1, <3>1, <3>2
  <2> QED
    BY <2>2, <2>3
<1> QED
  BY <1>1 DEF SmallBatches

(* What no fault leaves behind. *)
LEMMA NothingStranded ==
  ASSUME GroupInv, CountInv, Stranded' \subseteq Stranded, NEW d \in Nat, LeftBehind' = LeftBehind + d
  PROVE  StrandedBounded'
<1>1. IsFiniteSet({}) /\ Cardinality({}) = 0
  BY FS_EmptySet
<1>2. Within /\ StrandedBounded
  BY DEF CountInv
<1>3. Stranded' \subseteq Stranded \cup {} /\ Cardinality({}) <= d
  BY <1>1
<1> QED
  BY <1>1, <1>2, <1>3, StrandedStep

-----------------------------------------------------------------------------
(* A pod that neither finds a key missing, handles, nor sets a key.        *)
LEMMA QuietStep ==
  ASSUME GroupInv, CountInv, NEW p \in Pods, \A q \in Pods : q # p => loop'[q] = loop[q],
         loop'[p].pc \notin {"handle", "record"},
         \A k \in DOMAIN stream : stream'[k] = stream[k],
         UNCHANGED <<handled, processed>>,
         \/ loop[p].pc # "record" /\ Excess' = Excess
         \/ Excess' = Excess + Cardinality(Pods)
  PROVE  \A e \in Events : Accounted(e)'
<1> SUFFICES ASSUME NEW e \in Events PROVE Accounted(e)'
  OBVIOUS
<1>1. TypeInv /\ Within /\ Accounted(e)
  BY DEF GroupInv, CountInv
<1>2. /\ HaveHandled(e)' \subseteq HaveHandled(e) /\ AboutTo(e)' \subseteq AboutTo(e)
      /\ loop[p].pc # "record" => HaveHandled(e)' = HaveHandled(e)
  BY QuietPod
<1>3. TimesHandled(e)' = TimesHandled(e)
  BY TimesRest
<1> QED
  BY <1>1, <1>2, <1>3, AccountedStep

LEMMA StartCount ==
  ASSUME GroupInv, CountInv, NEW p \in Pods, Start(p)
  PROVE  CountInv'
<1>1. TypeInv /\ Within /\ SmallBatches
  BY DEF GroupInv, CountInv
<1>2. /\ UNCHANGED <<stream, pending, processed, handled, faults>> /\ loop[p].pc = "down"
      /\ loop'[p].pc = "read" /\ loop'[p].batch = loop[p].batch
      /\ \A q \in Pods : q # p => loop'[q] = loop[q]
  BY <1>1, GoToFacts DEF Start, Down
<1>3. Within' /\ Excess' = Excess /\ LeftBehind' = LeftBehind + 0
  BY <1>1, <1>2, SpentRests, SpentFacts
<1>4. Stranded' \subseteq Stranded
  BY <1>2 DEF Stranded
<1>5. SmallBatches'
  BY <1>1, <1>2, SmallerBatch
<1>6. StrandedBounded'
  BY <1>3, <1>4, NothingStranded
<1>7. \A e \in Events : Accounted(e)'
  BY <1>2, <1>3, QuietStep
<1> QED
  BY <1>3, <1>5, <1>6, <1>7 DEF CountInv

(* A read hands out a batch at most; an answer that is lost leaves it      *)
(* behind.                                                                 *)
LEMMA FreshIsABatch ==
  ASSUME TypeInv, Fresh # {}
  PROVE  IsFiniteSet(Fresh) /\ Cardinality(Fresh) <= BatchSize
<1>1. group.cursor \in Nat /\ BatchSize \in Nat
  BY RangeFacts, BatchSizeAssumption DEF BatchSizeAssumption
<1>2. /\ IsFiniteSet(group.cursor + 1 .. group.cursor + BatchSize)
      /\ Cardinality(group.cursor + 1 .. group.cursor + BatchSize) = BatchSize
  <2>1. BatchSize > 0
    BY BatchSizeAssumption DEF BatchSizeAssumption
  <2>2. Cardinality(group.cursor + 1 .. group.cursor + BatchSize) =
          (group.cursor + BatchSize) - (group.cursor + 1) + 1
    BY <1>1, <2>1, FS_Interval
  <2> QED
    BY <1>1, <2>2, FS_Interval
<1>3. Fresh \in SUBSET (group.cursor + 1 .. group.cursor + BatchSize)
  BY <1>1 DEF Fresh
<1> QED
  BY <1>2, <1>3, FS_Subset

LEMMA ReadCount ==
  ASSUME GroupInv, CountInv, NEW p \in Pods, Read(p) \/ ReadUnanswered(p)
  PROVE  CountInv'
<1>1. TypeInv /\ Within /\ SmallBatches /\ StrandedBounded /\ loop[p].pc = "read"
  BY DEF GroupInv, CountInv, Read, ReadUnanswered, Deliver
<1>2. UNCHANGED <<stream, processed, handled>> /\ DOMAIN pending' = DOMAIN pending \cup Fresh
  BY DEF Read, ReadUnanswered, Deliver
<1>3. IsFiniteSet(Fresh) /\ Cardinality(Fresh) <= BatchSize
  BY <1>1, FreshIsABatch DEF Read, ReadUnanswered, Deliver
<1>4. CASE Read(p)
  <2>1. /\ loop'[p].pc = "check" /\ loop'[p].batch = Fresh /\ loop[p].batch = {}
        /\ \A q \in Pods : q # p => loop'[q] = loop[q]
    BY <1>1, <1>4 DEF Read, TypeInv, GroupInv, Owned
  <2>2. Within' /\ Excess' = Excess /\ LeftBehind' = LeftBehind + 0
    BY <1>1, <1>4, SpentRests, SpentFacts DEF Read
  <2>3. Stranded' \subseteq Stranded
    BY <1>2, <2>1 DEF Stranded
  <2>4. SmallBatches'
    BY <1>1, <1>3, <2>1 DEF SmallBatches
  <2>5. StrandedBounded'
    BY <2>2, <2>3, NothingStranded
  <2>6. \A e \in Events : Accounted(e)'
    BY <1>1, <1>2, <2>1, <2>2, QuietStep
  <2> QED
    BY <2>2, <2>4, <2>5, <2>6 DEF CountInv
<1>5. CASE ReadUnanswered(p)
  <2>1. UNCHANGED loop /\ Happens("unread") /\ "unread" \in Faults
    BY <1>5 DEF ReadUnanswered, Faults
  <2>2. Within' /\ Excess' = Excess /\ LeftBehind' = LeftBehind + BatchSize
    BY <1>1, <2>1, FaultSpends
  <2>3. Stranded' \subseteq Stranded \cup Fresh
    BY <1>2, <2>1 DEF Stranded
  <2>4. SmallBatches'
    BY <1>1, <2>1 DEF SmallBatches
  <2>5. BatchSize \in Nat
    BY BatchSizeAssumption DEF BatchSizeAssumption
  <2>6. StrandedBounded'
    BY <1>1, <1>3, <2>2, <2>3, <2>5, StrandedStep
  <2>7. \A e \in Events : Accounted(e)'
    BY <1>1, <1>2, <2>1, <2>2, QuietStep
  <2> QED
    BY <2>2, <2>4, <2>6, <2>7 DEF CountInv
<1> QED
  BY <1>4, <1>5

(* The ends of an entry: what a fault leaves is the entry or the batch. *)
LEMMA EndCount ==
  ASSUME GroupInv, CountInv, NEW p \in Pods, NEW k \in Nat,
         Ack(p, k) \/ EntryFails(p, k) \/ BatchFails(p, k) \/ Crash(p)
  PROVE  CountInv'
<1>1. TypeInv /\ Within /\ SmallBatches /\ StrandedBounded
  BY DEF GroupInv, CountInv
<1>2. UNCHANGED <<stream, processed, handled>>
  BY DEF Ack, EntryFails, BatchFails, Crash
<1>3. BatchSize \in Nat /\ BatchSize > 0
  BY BatchSizeAssumption DEF BatchSizeAssumption
<1>4. CASE Ack(p, k)
  <2>1. /\ loop'[p].pc \in {"read", "check"} /\ loop'[p].batch = loop[p].batch \ {k}
        /\ \A q \in Pods : q # p => loop'[q] = loop[q]
    BY <1>1, <1>4, NextEntryFacts DEF Ack
  <2>2. loop[p].pc # "record" /\ DOMAIN pending' = DOMAIN pending \ {k} /\ UNCHANGED faults
    BY <1>4 DEF Ack, At, Acknowledge
  <2>3. Within' /\ Excess' = Excess /\ LeftBehind' = LeftBehind + 0
    BY <1>1, <2>2, SpentRests, SpentFacts
  <2>4. Stranded' \subseteq Stranded
    BY <2>1, <2>2 DEF Stranded
  <2>5. SmallBatches'
    BY <1>1, <2>1, SmallerBatch
  <2>6. StrandedBounded'
    BY <2>3, <2>4, NothingStranded
  <2>7. \A e \in Events : Accounted(e)'
    BY <1>2, <2>1, <2>2, <2>3, QuietStep
  <2> QED
    BY <2>3, <2>5, <2>6, <2>7 DEF CountInv
<1>5. CASE EntryFails(p, k)
  <2>1. /\ loop'[p].pc \in {"read", "check"} /\ loop'[p].batch = loop[p].batch \ {k}
        /\ \A q \in Pods : q # p => loop'[q] = loop[q]
        /\ UNCHANGED pending
    BY <1>1, <1>5, NextEntryFacts DEF EntryFails
  <2>2. /\ Within' /\ LeftBehind' = LeftBehind + 1
        /\ \/ loop[p].pc # "record" /\ Excess' = Excess
           \/ Excess' = Excess + Cardinality(Pods)
    <3>1. "unhandled" \in Faults /\ "unrecorded" \in Faults /\ "unacked" \in Faults
      BY DEF Faults
    <3>2. CASE loop[p].pc # "record" /\ (Happens("unhandled") \/ Happens("unacked"))
      BY <1>1, <3>1, <3>2, FaultSpends
    <3>3. CASE Happens("unrecorded")
      BY <1>1, <3>1, <3>3, FaultSpends
    <3> QED
      BY <1>5, <3>2, <3>3 DEF EntryFails, At
  <2>3. Stranded' \subseteq Stranded \cup {k}
    BY <2>1 DEF Stranded
  <2>4. SmallBatches'
    BY <1>1, <2>1, SmallerBatch
  <2>5. IsFiniteSet({k}) /\ Cardinality({k}) = 1
    BY FS_Singleton
  <2>6. StrandedBounded'
    BY <1>1, <2>2, <2>3, <2>5, StrandedStep
  <2>7. \A e \in Events : Accounted(e)'
    BY <1>2, <2>1, <2>2, QuietStep
  <2> QED
    BY <2>2, <2>4, <2>6, <2>7 DEF CountInv
<1>6. CASE BatchFails(p, k) \/ Crash(p)
  <2>1. /\ loop'[p].pc \in {"read", "down"} /\ loop'[p].batch = {}
        /\ \A q \in Pods : q # p => loop'[q] = loop[q]
        /\ UNCHANGED pending
    BY <1>1, <1>6 DEF BatchFails, Crash, Down, TypeInv
  <2>2. /\ Within' /\ LeftBehind' = LeftBehind + BatchSize
        /\ \/ loop[p].pc # "record" /\ Excess' = Excess
           \/ Excess' = Excess + Cardinality(Pods)
    <3>1. "unchecked" \in Faults /\ "crash" \in Faults
      BY DEF Faults
    <3>2. CASE BatchFails(p, k)
      <4>1. loop[p].pc # "record" /\ Happens("unchecked")
        BY <3>2 DEF BatchFails, At
      <4> QED
        BY <1>1, <3>1, <4>1, FaultSpends
    <3>3. CASE Crash(p)
      <4>1. Happens("crash")
        BY <3>3 DEF Crash
      <4> QED
        BY <1>1, <3>1, <4>1, FaultSpends
    <3> QED
      BY <1>6, <3>2, <3>3
  <2>3. Stranded' \subseteq Stranded \cup loop[p].batch
    BY <2>1 DEF Stranded
  <2>4. SmallBatches'
    BY <1>1, <2>1, SmallerBatch
  <2>5. IsFiniteSet(loop[p].batch) /\ Cardinality(loop[p].batch) <= BatchSize
    BY <1>1 DEF SmallBatches
  <2>6. StrandedBounded'
    BY <1>1, <1>3, <2>2, <2>3, <2>5, StrandedStep
  <2>7. \A e \in Events : Accounted(e)'
    BY <1>2, <2>1, <2>2, QuietStep
  <2> QED
    BY <2>2, <2>4, <2>6, <2>7 DEF CountInv
<1> QED
  BY <1>4, <1>5, <1>6

-----------------------------------------------------------------------------
(* The steps with one entry.                                               *)

(* What they have in common: the batch stays. *)
LEMMA WithinFacts ==
  ASSUME GroupInv, CountInv, NEW p \in Pods, NEW pc, GoTo(p, pc), UNCHANGED <<stream, pending, faults>>
  PROVE  /\ TypeInv /\ Within /\ Within' /\ SmallBatches' /\ StrandedBounded'
         /\ Excess' = Excess /\ Excess \in Nat
         /\ loop'[p].pc = pc /\ loop'[p].batch = loop[p].batch
         /\ \A q \in Pods : q # p => loop'[q] = loop[q]
<1>1. TypeInv /\ Within /\ SmallBatches
  BY DEF GroupInv, CountInv
<1>2. /\ loop'[p].pc = pc /\ loop'[p].batch = loop[p].batch
      /\ \A q \in Pods : q # p => loop'[q] = loop[q]
  BY <1>1, GoToFacts
<1>3. Within' /\ Excess' = Excess /\ LeftBehind' = LeftBehind + 0 /\ Excess \in Nat
  BY <1>1, SpentRests, SpentFacts
<1>4. SmallBatches'
  BY <1>1, <1>2, SmallerBatch
<1>5. Stranded' \subseteq Stranded
  BY <1>2 DEF Stranded
<1>6. StrandedBounded'
  BY <1>3, <1>5, NothingStranded
<1> QED
  BY <1>1, <1>2, <1>3, <1>4, <1>6

(* EXISTS: a pod is about to handle an event only if its key is missing. *)
LEMMA CheckCount ==
  ASSUME GroupInv, CountInv, NEW p \in Pods, NEW k \in Nat, Check(p, k)
  PROVE  CountInv'
<1>1. PICK pc : GoTo(p, pc) /\ pc = IF stream[k] \in processed THEN "skip" ELSE "handle"
  BY DEF Check
<1>2. UNCHANGED <<stream, group, pending, processed, handled, faults>> /\ At(p, k, "check")
  BY DEF Check
<1>3. /\ TypeInv /\ Within /\ Within' /\ SmallBatches' /\ StrandedBounded'
      /\ Excess' = Excess /\ loop'[p].pc = pc /\ loop'[p].batch = loop[p].batch
      /\ \A q \in Pods : q # p => loop'[q] = loop[q]
  BY <1>1, <1>2, WithinFacts
<1>4. ASSUME NEW e \in Events PROVE Accounted(e)'
  <2>1. \A q \in Pods : q # p => /\ (q \in HaveHandled(e)' <=> q \in HaveHandled(e))
                                 /\ (q \in AboutTo(e)' <=> q \in AboutTo(e))
    BY <1>2, <1>3, OthersRest
  <2>2. p \notin HaveHandled(e) /\ p \notin HaveHandled(e)'
    BY <1>1, <1>2, <1>3 DEF HaveHandled, At
  <2>3. HaveHandled(e)' = HaveHandled(e)
    BY <2>1, <2>2 DEF HaveHandled
  <2>4. e \in processed => p \notin AboutTo(e)'
    <3> SUFFICES ASSUME e \in processed, p \in AboutTo(e)' PROVE FALSE
      OBVIOUS
    <3>1. PICK l \in loop'[p].batch : At(p, l, "handle")' /\ stream'[l] = e
      BY DEF AboutTo
    <3>2. l = k
      BY <1>2, <1>3, <3>1 DEF At, TypeInv, LoopState
    <3> QED
      BY <1>1, <1>2, <1>3, <3>1, <3>2 DEF At
  <2>5. e \in processed => AboutTo(e)' \subseteq AboutTo(e)
    BY <2>1, <2>4 DEF AboutTo
  <2>6. TimesHandled(e)' = TimesHandled(e) /\ Accounted(e)
    BY <1>2, TimesRest DEF CountInv
  <2> QED
    BY <1>2, <1>3, <2>3, <2>5, <2>6, AccountedStep
<1> QED
  BY <1>3, <1>4 DEF CountInv

(* The handler: charged to its pod. *)
LEMMA HandleCount ==
  ASSUME GroupInv, CountInv, NEW p \in Pods, NEW k \in Nat, Handle(p, k)
  PROVE  CountInv'
<1>1. /\ GoTo(p, "record") /\ handled' = Append(handled, k) /\ At(p, k, "handle")
      /\ UNCHANGED <<stream, group, pending, processed, faults>>
  BY DEF Handle
<1>2. /\ TypeInv /\ Within /\ Within' /\ SmallBatches' /\ StrandedBounded'
      /\ Excess' = Excess /\ Excess \in Nat
      /\ loop'[p].pc = "record" /\ loop'[p].batch = loop[p].batch
      /\ \A q \in Pods : q # p => loop'[q] = loop[q]
  BY <1>1, WithinFacts
<1>3. ASSUME NEW e \in Events PROVE Accounted(e)'
  <2>1. \A q \in Pods : q # p => /\ (q \in HaveHandled(e)' <=> q \in HaveHandled(e))
                                 /\ (q \in AboutTo(e)' <=> q \in AboutTo(e))
    BY <1>1, <1>2, OthersRest
  <2>2. /\ p \in AboutTo(e) <=> e = stream[k]
        /\ p \notin AboutTo(e)' /\ p \notin HaveHandled(e)
        /\ p \in HaveHandled(e)' <=> e = stream[k]
    <3>1. p \in AboutTo(e) <=> e = stream[k]
      BY <1>1, <1>2, OneAt DEF AboutTo, At
    <3>2. p \notin AboutTo(e)' /\ p \notin HaveHandled(e)
      BY <1>1, <1>2 DEF AboutTo, HaveHandled, At
    <3>3. \A l \in loop'[p].batch : At(p, l, "record")' => l = k
      BY <1>1, <1>2 DEF At, TypeInv, LoopState
    <3>4. At(p, k, "record")' /\ k \in loop'[p].batch
      BY <1>1, <1>2 DEF At
    <3>5. p \in HaveHandled(e)' <=> e = stream[k]
      BY <1>1, <3>3, <3>4 DEF HaveHandled
    <3> QED
      BY <3>1, <3>2, <3>5
  <2>3. /\ Cardinality(Pods) \in Nat
        /\ IsFiniteSet(HaveHandled(e)) /\ Cardinality(HaveHandled(e)) \in Nat
        /\ IsFiniteSet(AboutTo(e)) /\ Cardinality(AboutTo(e)) \in Nat
        /\ TimesHandled(e) \in Nat
    BY <1>2, CountFacts
  <2>4. Accounted(e)
    BY DEF CountInv
  <2>5. CASE e = stream[k]
    <3>1. HaveHandled(e)' = HaveHandled(e) \cup {p} /\ AboutTo(e)' = AboutTo(e) \ {p}
      BY <2>1, <2>2, <2>5 DEF HaveHandled, AboutTo
    <3>2. Cardinality(HaveHandled(e)') = Cardinality(HaveHandled(e)) + 1
      <4>1. Cardinality(HaveHandled(e) \cup {p}) = Cardinality(HaveHandled(e)) + 1
        BY <2>2, <2>3, FS_AddElement
      <4> QED
        BY <3>1, <4>1
    <3>3. Cardinality(AboutTo(e)') = Cardinality(AboutTo(e)) - 1
      <4>1. Cardinality(AboutTo(e) \ {p}) = Cardinality(AboutTo(e)) - 1
        BY <2>2, <2>3, <2>5, FS_RemoveElement
      <4> QED
        BY <3>1, <4>1
    <3>4. TimesHandled(e)' = TimesHandled(e) + 1
      BY <1>1, <1>2, <2>5, TimesAppended
    <3> QED
      BY <1>1, <1>2, <2>3, <2>4, <3>2, <3>3, <3>4 DEF Accounted
  <2>6. CASE e # stream[k]
    <3>1. HaveHandled(e)' = HaveHandled(e) /\ AboutTo(e)' \subseteq AboutTo(e)
      BY <2>1, <2>2, <2>6 DEF HaveHandled, AboutTo
    <3>2. TimesHandled(e)' = TimesHandled(e)
      BY <1>1, <1>2, <2>6, TimesAppended
    <3> QED
      BY <1>1, <1>2, <2>4, <3>1, <3>2, AccountedStep
  <2> QED
    BY <2>5, <2>6
<1> QED
  BY <1>2, <1>3 DEF CountInv

(* SET: from now on, whoever handles the event was about to already.       *)
LEMMA RecordCount ==
  ASSUME GroupInv, CountInv, NEW p \in Pods, NEW k \in Nat, Record(p, k)
  PROVE  CountInv'
<1>1. /\ GoTo(p, "ack") /\ processed' = processed \cup {stream[k]} /\ At(p, k, "record")
      /\ UNCHANGED <<stream, group, pending, handled, faults>>
  BY DEF Record
<1>2. /\ TypeInv /\ Within /\ Within' /\ SmallBatches' /\ StrandedBounded'
      /\ Excess' = Excess /\ Excess \in Nat
      /\ loop'[p].pc = "ack" /\ loop'[p].batch = loop[p].batch
      /\ \A q \in Pods : q # p => loop'[q] = loop[q]
  BY <1>1, WithinFacts
<1>3. ASSUME NEW e \in Events PROVE Accounted(e)'
  <2>1. HaveHandled(e)' \subseteq HaveHandled(e) /\ AboutTo(e)' \subseteq AboutTo(e)
    BY <1>1, <1>2, QuietPod
  <2>2. Accounted(e) /\ TimesHandled(e)' = TimesHandled(e)
    BY <1>1, TimesRest DEF CountInv
  <2>3. CASE e = stream[k]
    <3>1. /\ Cardinality(Pods) \in Nat
          /\ Cardinality(HaveHandled(e)) \in Nat
          /\ IsFiniteSet(AboutTo(e)) /\ Cardinality(AboutTo(e)) \in Nat
          /\ Cardinality(HaveHandled(e)) + Cardinality(AboutTo(e)) <= Cardinality(Pods)
          /\ TimesHandled(e) \in Nat
      BY <1>2, CountFacts
    <3>2. IsFiniteSet(AboutTo(e)') /\ Cardinality(AboutTo(e)') <= Cardinality(AboutTo(e))
      BY <2>1, <3>1, FS_Subset
    <3>3. Cardinality(AboutTo(e)') \in Nat
      BY <3>2, FS_CardinalityType
    <3>4. e \in processed'
      BY <1>1, <2>3
    <3> QED
      BY <1>2, <2>2, <3>1, <3>2, <3>3, <3>4 DEF Accounted
  <2>4. CASE e # stream[k]
    <3>1. p \notin HaveHandled(e)
      BY <1>1, <1>2, <2>4, OneAt DEF HaveHandled
    <3>2. \A q \in Pods : q # p => (q \in HaveHandled(e)' <=> q \in HaveHandled(e))
      BY <1>1, <1>2, OthersRest
    <3>3. HaveHandled(e)' = HaveHandled(e)
      BY <2>1, <3>1, <3>2 DEF HaveHandled
    <3>4. e \in processed' <=> e \in processed
      BY <1>1, <2>4
    <3> QED
      BY <1>2, <2>1, <2>2, <3>3, <3>4, AccountedStep
  <2> QED
    BY <2>3, <2>4
<1> QED
  BY <1>2, <1>3 DEF CountInv

-----------------------------------------------------------------------------
(* Owners change, keys expire, entries are appended. *)
LEMMA LoopsRest ==
  ASSUME GroupInv, UNCHANGED loop, \A k \in DOMAIN stream : stream'[k] = stream[k], NEW e
  PROVE  HaveHandled(e)' = HaveHandled(e) /\ AboutTo(e)' = AboutTo(e)
<1>1. \A q \in Pods : loop[q].batch \subseteq DOMAIN stream
  BY RangeFacts DEF GroupInv, Owned
<1> QED
  BY <1>1 DEF HaveHandled, AboutTo, At

LEMMA AroundCount ==
  ASSUME GroupInv, CountInv,
         \/ \E p \in Pods, S \in SUBSET DOMAIN pending : Reclaim(p, S)
         \/ \E e \in Events : Expire(e)
         \/ \E e \in Events : stream' = Append(stream, e) /\ UNCHANGED consumerVars
         \/ UNCHANGED vars
  PROVE  CountInv'
<1>1. TypeInv /\ Within /\ SmallBatches
  BY DEF GroupInv, CountInv
<1>2. DOMAIN pending' = DOMAIN pending /\ UNCHANGED <<loop, handled>>
  BY DEF Reclaim, Expire, vars, consumerVars
<1>3. \A k \in DOMAIN stream : stream'[k] = stream[k]
  <2>1. CASE UNCHANGED stream
    BY <2>1
  <2>2. ASSUME NEW e \in Events, stream' = Append(stream, e)
        PROVE  \A k \in DOMAIN stream : stream'[k] = stream[k]
    BY <1>1, <2>2, AppendProperties DEF TypeInv
  <2> QED
    BY <2>1, <2>2 DEF Reclaim, Expire, vars
<1>4. Stranded' \subseteq Stranded /\ SmallBatches'
  BY <1>1, <1>2 DEF Stranded, SmallBatches
<1>5. \A e : HaveHandled(e)' = HaveHandled(e) /\ AboutTo(e)' = AboutTo(e) /\ TimesHandled(e)' = TimesHandled(e)
  BY <1>2, <1>3, LoopsRest, TimesRest
<1>6. \A e \in Events : Accounted(e)
  BY DEF CountInv
<1>7. CASE UNCHANGED <<processed, faults>>
  <2>1. Within' /\ Excess' = Excess /\ LeftBehind' = LeftBehind + 0
    BY <1>1, <1>7, SpentRests, SpentFacts
  <2>2. StrandedBounded'
    BY <1>4, <2>1, NothingStranded
  <2>3. \A e \in Events : Accounted(e)'
    BY <1>5, <1>6, <1>7, <2>1 DEF Accounted
  <2> QED
    BY <1>4, <2>1, <2>2, <2>3 DEF CountInv
<1>8. ASSUME NEW d \in Events, Expire(d) PROVE CountInv'
  <2>1. processed' = processed \ {d} /\ d \in processed /\ Happens("expired") /\ "expired" \in Faults
    BY <1>8 DEF Expire, Faults
  <2>2. Within' /\ Excess' = Excess + Cardinality(Pods) /\ LeftBehind' = LeftBehind + 0
    BY <1>1, <2>1, FaultSpends
  <2>3. StrandedBounded'
    BY <1>4, <2>2, NothingStranded
  <2>4. ASSUME NEW e \in Events PROVE Accounted(e)'
    <3>1. CASE e = d
      <4>1. /\ Cardinality(Pods) \in Nat /\ Excess \in Nat
            /\ Cardinality(HaveHandled(e)) \in Nat /\ Cardinality(AboutTo(e)) \in Nat
            /\ TimesHandled(e) \in Nat
        BY <1>1, CountFacts, SpentFacts
      <4>2. TimesHandled(e) + Cardinality(AboutTo(e)) <= Cardinality(Pods) + Excess
        BY <1>6, <2>1, <3>1 DEF Accounted
      <4>3. e \notin processed'
        BY <2>1, <3>1
      <4> QED
        BY <1>5, <2>2, <4>1, <4>2, <4>3 DEF Accounted
    <3>2. CASE e # d
      <4>1. (e \in processed' <=> e \in processed) /\ Accounted(e)
        BY <1>6, <2>1, <3>2
      <4> QED
        BY <1>1, <1>5, <2>2, <4>1, AccountedStep
    <3> QED
      BY <3>1, <3>2
  <2> QED
    BY <1>4, <2>2, <2>3, <2>4 DEF CountInv
<1> QED
  BY <1>7, <1>8 DEF Reclaim, vars, consumerVars

(* Counting starts at zero, whether the group exists or not. *)
LEMMA CountInvStart ==
  ASSUME GroupInv, faults = FaultBudget, pending = <<>>, processed = {}, handled = <<>>,
         \A p \in Pods : loop[p].batch = {}
  PROVE  CountInv
<1>1. TypeInv /\ FaultBudget \in [Faults -> Nat]
  BY FaultBudgetAssumption DEF FaultBudgetAssumption, GroupInv
<1>2. Within
  BY <1>1 DEF Within
<1>3. BatchSize \in Nat
  BY BatchSizeAssumption DEF BatchSizeAssumption
<1>4. SmallBatches
  <2>1. IsFiniteSet({}) /\ Cardinality({}) <= BatchSize
    BY <1>3, FS_EmptySet
  <2> QED
    BY <2>1 DEF SmallBatches
<1>5. StrandedBounded
  <2>1. Stranded = {}
    BY DEF Stranded
  <2>2. Cardinality(Stranded) = 0 /\ LeftBehind \in Nat
    BY <1>1, <1>2, <2>1, FS_EmptySet, SpentFacts
  <2> QED
    BY <2>2 DEF StrandedBounded, LeftBehind
<1>6. ASSUME NEW e \in Events PROVE Accounted(e)
  <2>1. {j \in DOMAIN handled : stream[handled[j]] = e} = {} /\ e \notin processed
    OBVIOUS
  <2>2. TimesHandled(e) = 0
    BY <2>1, FS_EmptySet DEF TimesHandled
  <2>3. Cardinality(HaveHandled(e)) \in Nat /\ Excess \in Nat
    BY <1>1, <1>2, CountFacts, SpentFacts
  <2> QED
    BY <2>1, <2>2, <2>3 DEF Accounted
<1> QED
  BY <1>2, <1>4, <1>5, <1>6 DEF CountInv

LEMMA CountInvInit == Init => CountInv
<1> SUFFICES ASSUME Init PROVE CountInv
  OBVIOUS
<1>1. /\ faults = FaultBudget /\ pending = <<>> /\ processed = {} /\ handled = <<>>
      /\ \A p \in Pods : loop[p].batch = {}
  BY DEF Init, Down
<1> QED
  BY <1>1, GroupInvInit, CountInvStart

LEMMA CountInvNext ==
  ASSUME GroupInv, CountInv, [Next]_vars
  PROVE  CountInv'
<1>1. DOMAIN pending \subseteq Nat
  BY RangeFacts DEF GroupInv, Owned, Delivered
<1>2. ASSUME NEW p \in Pods, Start(p) \/ Read(p) \/ ReadUnanswered(p) PROVE CountInv'
  BY <1>2, StartCount, ReadCount
<1>3. ASSUME NEW p \in Pods, NEW k \in DOMAIN pending,
             \/ Check(p, k) \/ Handle(p, k) \/ Record(p, k)
             \/ Ack(p, k) \/ EntryFails(p, k) \/ BatchFails(p, k)
      PROVE  CountInv'
  BY <1>1, <1>3, CheckCount, HandleCount, RecordCount, EndCount
<1>4. ASSUME NEW p \in Pods, Crash(p) PROVE CountInv'
  <2>1. 0 \in Nat
    OBVIOUS
  <2> QED
    BY <1>4, <2>1, EndCount
<1> QED
  BY <1>2, <1>3, <1>4, AroundCount DEF Next, ConsumerNext, LoopStep, Produce

(* The counts hold for any number of pods, entries and faults. *)
THEOREM CountsHold == Spec => []CountInv
<1>1. GroupInv /\ CountInv /\ [Next]_vars => CountInv'
  BY CountInvNext
<1> QED
  BY <1>1, CountInvInit, GroupInvariance, PTL DEF Spec

(* What is left behind is one entry per step that fails and one batch per  *)
(* pod that dies, answer that is lost or lookup that fails, and nothing    *)
(* because of duplicates, other pods or the reclaimer (index.ts:79-160).   *)
THEOREM LeftBehindIsBounded == Spec => []StrandedBounded
<1>1. CountInv => StrandedBounded
  BY DEF CountInv
<1> QED
  BY <1>1, CountsHold, PTL

(* Before and after the key is there, the account is the bound. *)
LEMMA CountsTell ==
  ASSUME GroupInv, CountInv
  PROVE  EventHandledOnce
<1> SUFFICES ASSUME NEW e \in Events
             PROVE  TimesHandled(e) <=
                      Cardinality(Pods) * (1 + Spent("unrecorded") + Spent("crash") + Spent("expired"))
  BY DEF EventHandledOnce
<1>1. TypeInv /\ Within /\ Accounted(e)
  BY DEF GroupInv, CountInv
<1>2. /\ Cardinality(Pods) \in Nat /\ Excess \in Nat
      /\ Cardinality(HaveHandled(e)) \in Nat /\ Cardinality(AboutTo(e)) \in Nat
      /\ Cardinality(HaveHandled(e)) + Cardinality(AboutTo(e)) <= Cardinality(Pods)
      /\ TimesHandled(e) \in Nat
  BY <1>1, CountFacts, SpentFacts
<1>3. TimesHandled(e) <= Cardinality(Pods) + Excess
  BY <1>1, <1>2 DEF Accounted
<1>4. Spent("unrecorded") \in Nat /\ Spent("crash") \in Nat /\ Spent("expired") \in Nat
  BY <1>1, SpentFacts DEF Faults
<1>5. PICK keys \in Nat : keys = Spent("unrecorded") + Spent("crash") + Spent("expired")
  BY <1>4
<1>6. 1 + Spent("unrecorded") + Spent("crash") + Spent("expired") = 1 + keys
  BY <1>4, <1>5
<1>7. \A a, b \in Nat : a * (1 + b) = a + a * b
  OBVIOUS
<1>8. Cardinality(Pods) * (1 + keys) = Cardinality(Pods) + Cardinality(Pods) * keys
  BY <1>2, <1>7
<1>9. Excess = Cardinality(Pods) * keys
  BY <1>5 DEF Excess
<1> QED
  BY <1>3, <1>6, <1>8, <1>9

(* However often the producers repeat an event, it is handled once by each *)
(* pod, and once more by each for every key that is lost                   *)
(* (index.ts:104-122).                                                     *)
THEOREM EventsAreHandledOnce == Spec => []EventHandledOnce
<1>1. GroupInv /\ CountInv => EventHandledOnce
  BY CountsTell
<1> QED
  BY <1>1, CountsHold, GroupInvariance, PTL

-----------------------------------------------------------------------------
(* A group of one pod whose only fault is that an acknowledgement fails    *)
(* handles each event once and in the order of the stream: what has been   *)
(* delivered has been handled or is in hand, and what is about to be       *)
(* handled has not been handled before.  (With two pods the second batch   *)
(* may be handled before the first.)                                       *)
Careful ==
  /\ \A p, q \in Pods : p = q
  /\ \A f \in Faults \ {"unacked"} : FaultBudget[f] = 0

InTurn ==
  /\ faults \in [Faults -> Nat] /\ \A f \in Faults \ {"unacked"} : faults[f] = 0
  /\ \A k \in Delivered : stream[k] \in HandledEvents \/ \E p \in Pods : k \in loop[p].batch
  /\ \A p \in Pods : \A k \in loop[p].batch : At(p, k, "handle") => stream[k] \notin HandledEvents
  /\ \A e \in HandledEvents \ processed :
       \E p \in Pods : \E k \in loop[p].batch : At(p, k, "record") /\ stream[k] = e

LEMMA HandledInTurn ==
  ASSUME GroupInv, InTurn, Careful, NEW p \in Pods, NEW k, Handle(p, k)
  PROVE  /\ k \in Delivered /\ stream[k] \notin HandledEvents
         /\ \A l \in Delivered : l < k => stream[l] \in HandledEvents
<1>1. At(p, k, "handle") /\ k \in loop[p].batch /\ \A l \in loop[p].batch : k <= l
  BY DEF Handle, At
<1>2. k \in Delivered
  BY <1>1 DEF GroupInv, Owned
<1>3. ASSUME NEW l \in Delivered, l < k PROVE stream[l] \in HandledEvents
  <2>1. \A q \in Pods : q = p
    BY DEF Careful
  <2>2. l \notin loop[p].batch
    BY <1>1, <1>2, <1>3, RangeFacts DEF GroupInv, Delivered
  <2> QED
    BY <2>1, <2>2 DEF InTurn
<1> QED
  BY <1>1, <1>2, <1>3 DEF InTurn

(* Entries are appended, and owners change. *)
LEMMA InTurnRests ==
  ASSUME GroupInv, InTurn, UNCHANGED <<group, loop, processed, handled, faults>>,
         \A k \in DOMAIN stream : stream'[k] = stream[k]
  PROVE  InTurn'
<1>1. Delivered \subseteq DOMAIN stream /\ HandledEntries \subseteq DOMAIN stream
  BY RangeFacts DEF GroupInv, Placed
<1>2. HandledEntries' = HandledEntries /\ Delivered' = Delivered
  BY DEF HandledEntries, Delivered
<1>3. HandledEvents' = HandledEvents
  BY <1>1, <1>2 DEF HandledEvents
<1>4. \A p \in Pods : loop[p].batch \subseteq DOMAIN stream
  BY <1>1 DEF GroupInv, Owned
<1>5. \A p, k, pc : At(p, k, pc)' <=> At(p, k, pc)
  BY DEF At
<1> QED
  BY <1>1, <1>2, <1>3, <1>4, <1>5 DEF InTurn

(* A step of the pod that handles nothing: its batch gets entries that are *)
(* delivered, or loses one that has been handled.                          *)
LEMMA InTurnGoesOn ==
  ASSUME GroupInv, InTurn, Careful, NEW p \in Pods, UNCHANGED <<stream, handled>>,
         loop'[p].pc \notin {"handle", "record"},
         HandledEvents \subseteq processed',
         \A k \in Delivered' \ loop'[p].batch : k \in Delivered /\ stream[k] \in HandledEvents,
         faults' \in [Faults -> Nat], \A f \in Faults \ {"unacked"} : faults'[f] = 0
  PROVE  InTurn'
<1>1. HandledEvents' = HandledEvents
  BY DEF HandledEvents, HandledEntries
<1>2. \A q \in Pods : q = p
  BY DEF Careful
<1> QED
  BY <1>1, <1>2 DEF InTurn, At

(* No other fault happens. *)
LEMMA OnlyUnacked ==
  ASSUME InTurn, NEW f \in Faults, Happens(f)
  PROVE  /\ f = "unacked" /\ faults' \in [Faults -> Nat]
         /\ \A g \in Faults \ {"unacked"} : faults'[g] = 0
BY DEF InTurn, Happens

(* Away from "record" every event handled has its key. *)
LEMMA KeysAreWritten ==
  ASSUME InTurn, Careful, NEW p \in Pods, loop[p].pc # "record"
  PROVE  HandledEvents \subseteq processed
BY DEF InTurn, Careful, At

LEMMA InTurnReads ==
  ASSUME GroupInv, InTurn, Careful, NEW p \in Pods, Start(p) \/ Read(p)
  PROVE  InTurn'
<1>1. /\ loop[p].pc # "record" /\ loop[p].batch = {}
      /\ UNCHANGED <<stream, processed, handled, faults>>
  BY DEF Start, Read, Deliver, Down, GroupInv, Owned
<1>2. HandledEvents \subseteq processed'
  BY <1>1, KeysAreWritten
<1>3. \A k \in Delivered : stream[k] \in HandledEvents
  <2>1. \A q \in Pods : q = p
    BY DEF Careful
  <2> QED
    BY <1>1, <2>1 DEF InTurn
<1>4. loop'[p].pc \notin {"handle", "record"} /\ Delivered' \ loop'[p].batch \subseteq Delivered
  <2>1. CASE Start(p)
    <3>1. loop'[p].pc = "read"
      BY <2>1 DEF Start, GoTo, GroupInv, TypeInv, LoopState
    <3>2. group' = group \/ group' = [exists |-> TRUE, start |-> Len(stream), cursor |-> Len(stream)]
      BY <2>1 DEF Start
    <3>3. Delivered' = Delivered \/ Delivered' = {}
      BY <3>2, RangeFacts DEF Delivered, GroupInv
    <3> QED
      BY <3>1, <3>3
  <2>2. CASE Read(p)
    <3>1. /\ Cardinality(Fresh) \in Nat
          /\ Fresh = group.cursor + 1 .. group.cursor + Cardinality(Fresh)
      BY <2>2, FreshFacts DEF Read, Deliver, GroupInv
    <3>2. loop'[p].pc = "check" /\ loop'[p].batch = Fresh
      <4> DEFINE given == [pc |-> "check", batch |-> Fresh]
      <4>1. given.pc = "check" /\ given.batch = Fresh
        OBVIOUS
      <4> HIDE DEF given
      <4>2. loop' = [loop EXCEPT ![p] = given]
        BY <2>2 DEF Read, given
      <4> QED
        BY <4>1, <4>2 DEF GroupInv, TypeInv
    <3>3. group'.start = group.start /\ group'.cursor = group.cursor + Cardinality(Fresh)
      BY <2>2 DEF Read, Deliver, GroupInv, TypeInv
    <3>4. Delivered' \ Fresh \subseteq Delivered
      BY <3>1, <3>3, RangeFacts DEF Delivered, GroupInv
    <3> QED
      BY <3>2, <3>4
  <2> QED
    BY <2>1, <2>2
<1>5. faults' \in [Faults -> Nat] /\ \A f \in Faults \ {"unacked"} : faults'[f] = 0
  BY <1>1 DEF InTurn
<1> QED
  BY <1>1, <1>2, <1>3, <1>4, <1>5, InTurnGoesOn

(* EXISTS, the handler, SET. *)
LEMMA InTurnWithin ==
  ASSUME GroupInv, InTurn, Careful, NEW p \in Pods, NEW k \in Nat,
         Check(p, k) \/ Handle(p, k) \/ Record(p, k)
  PROVE  InTurn'
<1>1. /\ UNCHANGED <<stream, group, pending, faults>> /\ k \in loop[p].batch
      /\ \A l \in loop[p].batch : k <= l
  BY DEF Check, Handle, Record, At
<1>2. PICK pc \in {"skip", "handle", "record", "ack"} : GoTo(p, pc)
  BY DEF Check, Handle, Record
<1>3. loop'[p].batch = loop[p].batch /\ loop'[p].pc = pc
  BY <1>2 DEF GoTo, GroupInv, TypeInv, LoopState
<1>4. Delivered' = Delivered /\ \A q \in Pods : q = p
  BY <1>1 DEF Delivered, Careful
<1>5. \A l \in loop[p].batch : l \in Nat
  BY DEF GroupInv, TypeInv, LoopState
<1>6. \A l, n : At(p, l, n)' <=> (l = k /\ n = pc)
  BY <1>1, <1>3, <1>5 DEF At
<1>7. CASE Check(p, k)
  <2>1. /\ UNCHANGED <<processed, handled>> /\ loop[p].pc = "check"
        /\ pc = IF stream[k] \in processed THEN "skip" ELSE "handle"
    BY <1>3, <1>7 DEF Check, At, GoTo, GroupInv, TypeInv
  <2>2. HandledEvents' = HandledEvents /\ HandledEvents \subseteq processed
    BY <1>1, <2>1, KeysAreWritten DEF HandledEntries, HandledEvents
  <2> QED
    BY <1>1, <1>3, <1>4, <1>6, <2>1, <2>2 DEF InTurn
<1>8. CASE Handle(p, k)
  <2>1. processed' = processed /\ handled' = Append(handled, k) /\ loop[p].pc = "handle" /\ pc = "record"
    BY <1>3, <1>8 DEF Handle, At, GoTo, GroupInv, TypeInv
  <2>2. /\ DOMAIN handled' = DOMAIN handled \cup {Len(handled) + 1}
        /\ \A i \in DOMAIN handled : handled'[i] = handled[i]
        /\ handled'[Len(handled) + 1] = k
    BY <2>1, AppendProperties, RangeFacts DEF GroupInv, TypeInv
  <2>3. HandledEntries' = HandledEntries \cup {k}
    BY <2>2 DEF HandledEntries
  <2>4. HandledEvents' = HandledEvents \cup {stream[k]}
    BY <1>1, <2>3 DEF HandledEvents
  <2>5. HandledEvents \subseteq processed
    BY <2>1, KeysAreWritten
  <2> QED
    BY <1>1, <1>3, <1>4, <1>6, <2>1, <2>4, <2>5 DEF InTurn
<1>9. CASE Record(p, k)
  <2>1. handled' = handled /\ processed' = processed \cup {stream[k]} /\ loop[p].pc = "record" /\ pc = "ack"
    BY <1>3, <1>9 DEF Record, At, GoTo, GroupInv, TypeInv
  <2>2. HandledEvents' = HandledEvents
    BY <1>1, <2>1 DEF HandledEntries, HandledEvents
  <2>3. \A l \in loop[p].batch : At(p, l, "record") => l = k
    BY <1>1, <1>5 DEF At
  <2>4. HandledEvents \subseteq processed'
    BY <1>4, <2>1, <2>3 DEF InTurn
  <2> QED
    BY <1>1, <1>3, <1>4, <1>6, <2>1, <2>2, <2>4 DEF InTurn
<1> QED
  BY <1>7, <1>8, <1>9

(* An entry leaves the batch when its event has been handled. *)
LEMMA InTurnEnds ==
  ASSUME GroupInv, InTurn, Careful, NEW p \in Pods, NEW k \in Nat, Ack(p, k) \/ EntryFails(p, k)
  PROVE  InTurn'
<1>1. At(p, k, "ack") \/ At(p, k, "skip")
  BY OnlyUnacked DEF Ack, EntryFails, Faults
<1>2. k \in loop[p].batch /\ loop[p].pc # "record"
  BY <1>1 DEF At
<1>3. UNCHANGED <<stream, group, processed, handled>> /\ NextEntry(p, k)
  BY DEF Ack, EntryFails
<1>4. HandledEvents \subseteq processed'
  BY <1>2, <1>3, KeysAreWritten
<1>5. stream[k] \in HandledEvents
  BY <1>1, <1>2 DEF GroupInv, Placed, Remembered, AfterHandler, HandledEvents
<1>6. loop'[p].pc \notin {"handle", "record"} /\ loop'[p].batch = loop[p].batch \ {k}
  <2> DEFINE rest == loop[p].batch \ {k}
             left == [pc |-> IF rest = {} THEN "read" ELSE "check", batch |-> rest]
  <2>1. left.pc \notin {"handle", "record"} /\ left.batch = rest
    OBVIOUS
  <2> HIDE DEF left
  <2>2. loop' = [loop EXCEPT ![p] = left]
    BY <1>3 DEF NextEntry, left
  <2> QED
    BY <2>1, <2>2 DEF GroupInv, TypeInv
<1>7. Delivered' = Delivered /\ \A q \in Pods : q = p
  BY <1>3 DEF Delivered, Careful
<1>8. faults' \in [Faults -> Nat] /\ \A f \in Faults \ {"unacked"} : faults'[f] = 0
  <2>1. CASE Ack(p, k)
    BY <2>1 DEF Ack, InTurn
  <2>2. CASE EntryFails(p, k)
    BY <2>2, OnlyUnacked DEF EntryFails, Faults
  <2> QED
    BY <2>1, <2>2
<1>9. \A l \in Delivered \ loop'[p].batch : stream[l] \in HandledEvents
  BY <1>5, <1>6, <1>7 DEF InTurn
<1> QED
  BY <1>3, <1>4, <1>6, <1>7, <1>8, <1>9, InTurnGoesOn

LEMMA InTurnNext ==
  ASSUME GroupInv, InTurn, Careful, ConsumerNext
  PROVE  InTurn'
<1>1. \A k \in DOMAIN pending : k \in Nat
  BY RangeFacts DEF GroupInv, Owned
<1>2. ASSUME NEW p \in Pods, Start(p) \/ Read(p) PROVE InTurn'
  BY <1>2, InTurnReads
<1>3. ASSUME NEW p \in Pods, NEW k \in DOMAIN pending, Check(p, k) \/ Handle(p, k) \/ Record(p, k)
      PROVE  InTurn'
  BY <1>1, <1>3, InTurnWithin
<1>4. ASSUME NEW p \in Pods, NEW k \in DOMAIN pending, Ack(p, k) \/ EntryFails(p, k) PROVE InTurn'
  BY <1>1, <1>4, InTurnEnds
<1>5. ASSUME NEW p \in Pods, NEW S, Reclaim(p, S) PROVE InTurn'
  BY <1>5, InTurnRests DEF Reclaim
<1>6. ASSUME NEW p \in Pods, ReadUnanswered(p) \/ Crash(p) PROVE FALSE
  BY <1>6, OnlyUnacked DEF ReadUnanswered, Crash, Faults
<1>7. ASSUME NEW p \in Pods, NEW k, BatchFails(p, k) PROVE FALSE
  BY <1>7, OnlyUnacked DEF BatchFails, Faults
<1>8. ASSUME NEW e, Expire(e) PROVE FALSE
  BY <1>8, OnlyUnacked DEF Expire, Faults
<1> QED
  BY <1>2, <1>3, <1>4, <1>5, <1>6, <1>7, <1>8 DEF ConsumerNext, LoopStep

=============================================================================

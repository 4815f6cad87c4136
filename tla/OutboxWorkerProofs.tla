------------------------- MODULE OutboxWorkerProofs -------------------------
(***************************************************************************)
(* Proofs about OutboxWorker, for any number of overlapping ticks, any     *)
(* batch size and any number of faults of every kind.                      *)
(*                                                                         *)
(* The guarantee needs to know of the record between its XADD and its      *)
(* UPDATE (Sound).  The order of first copies rests on two facts: a row is *)
(* inserted when its complaint has none in progress (SettledBefore), so    *)
(* that no older row of it can turn up later; and a snapshot that holds a  *)
(* row holds every older one that is not published (NothingOvertaken).     *)
(* The number of copies is bounded by charging each copy to a tick or to a *)
(* fault (Accounted).                                                      *)
(***************************************************************************)
EXTENDS OutboxWorker, SequenceTheorems, FiniteSetTheorems, TLAPS

OutboxRow == [cid : Complaints, n : Nat, state : Table!RowState]

Committed == Table!Committed

TypeInv ==
  /\ outbox \in Seq(OutboxRow)
  /\ tick \in [Ticks -> [batch : SUBSET Nat, sent : BOOLEAN]]
  /\ stream \in Seq(Nat)
  /\ faults \in [Faults -> Nat]
  /\ faults["refused"] <= FaultBudget["refused"]

SameComplaint(i, j) == outbox[i].cid = outbox[j].cid

(* The row lock of the transactions, as the table shows it. *)
SettledBefore ==
  \A i, j \in DOMAIN outbox : i < j /\ SameComplaint(i, j) => outbox[i].state # "pending"

(* Ticks work on committed rows, and one that has sent a row has sent it.  *)
Sound ==
  /\ OutboxGuarantee
  /\ \A t \in Ticks :
       /\ tick[t].batch \subseteq Committed
       /\ tick[t].batch = {} => ~tick[t].sent
       /\ \A i \in tick[t].batch : IsCurrent(t, i) /\ tick[t].sent => i \in Streamed

(* What a tick still has to send leaves no older event of its complaint    *)
(* behind.                                                                 *)
NothingOvertaken ==
  \A t \in Ticks : \A j \in tick[t].batch, i \in Committed :
    i < j /\ SameComplaint(i, j) => i \in Streamed \cup tick[t].batch

Unrefused == faults["refused"] = FaultBudget["refused"]

WorkerInv ==
  /\ TypeInv /\ SettledBefore /\ Sound
  /\ (Unrefused => NothingOvertaken)
  /\ FirstCopiesInOrder

-----------------------------------------------------------------------------
(* Rows are numbered, and the committed ones are rows. *)
LEMMA RowFacts ==
  ASSUME TypeInv
  PROVE  /\ DOMAIN outbox = 1 .. Len(outbox) /\ Len(outbox) \in Nat
         /\ Committed \subseteq DOMAIN outbox
         /\ DOMAIN stream = 1 .. Len(stream) /\ Len(stream) \in Nat
         /\ Streamed \subseteq Nat
BY DEF TypeInv, Committed, Table!Committed, Streamed

(* An empty table, no tick and no fault yet. *)
LEMMA WorkerInvInit == Init => WorkerInv
<1> SUFFICES ASSUME Init PROVE WorkerInv
  OBVIOUS
<1>1. outbox = <<>> /\ published = {} /\ stream = <<>> /\ faults = FaultBudget
  BY DEF Init, Table!Init
<1>2. \A t \in Ticks : tick[t].batch = {} /\ tick[t].sent = FALSE
  BY DEF Init, NoTick
<1>3. TypeInv
  BY <1>1, BudgetAssumption DEF BudgetAssumption, Init, NoTick, TypeInv, Faults
<1>4. Committed = {} /\ Streamed = {} /\ DOMAIN outbox = {} /\ DOMAIN stream = {}
  BY <1>1 DEF Committed, Table!Committed, Streamed
<1> QED
  BY <1>1, <1>2, <1>3, <1>4 DEF WorkerInv, SettledBefore, Sound, OutboxGuarantee, NothingOvertaken,
     FirstCopiesInOrder, Committed

-----------------------------------------------------------------------------
(* The transactions: what they do to the table. *)
LEMMA TableStep ==
  ASSUME TypeInv, SettledBefore, Transactions
  PROVE  /\ outbox' \in Seq(OutboxRow)
         /\ DOMAIN outbox \subseteq DOMAIN outbox'
         /\ \A i \in DOMAIN outbox : outbox'[i].cid = outbox[i].cid
         /\ Committed \subseteq Committed'
         /\ SettledBefore'
         /\ \A i \in Committed' \ Committed, j \in Committed :
              outbox'[i].cid = outbox'[j].cid => ~(i < j)
<1> USE RowFacts DEF TypeInv
<1>1. ASSUME NEW c \in Complaints, Table!Insert(c)
      PROVE  /\ outbox' \in Seq(OutboxRow)
             /\ DOMAIN outbox \subseteq DOMAIN outbox'
             /\ \A i \in DOMAIN outbox : outbox'[i].cid = outbox[i].cid
             /\ Committed' = Committed
             /\ SettledBefore'
  <2> DEFINE m == Cardinality(Table!Rows(c, "committed"))
             new == [cid |-> c, n |-> m, state |-> "pending"]
             last == Len(outbox) + 1
  <2>1. m \in Nat
    <3>1. IsFiniteSet(1 .. Len(outbox))
      BY FS_Interval
    <3>2. Table!Rows(c, "committed") \subseteq 1 .. Len(outbox)
      BY DEF Table!Rows
    <3> QED
      BY <3>1, <3>2, FS_Subset, FS_CardinalityType
  <2>2. outbox' = Append(outbox, new)
    <3>1. Table!Cardinality(Table!Rows(c, "committed")) = m
      BY Zenon DEF Table!Cardinality, Cardinality
    <3> QED
      BY <1>1, <3>1 DEF Table!Insert
  <2>3. new \in OutboxRow /\ new.cid = c /\ new.state = "pending"
    BY <2>1 DEF OutboxRow, Table!RowState
  <2> HIDE DEF new, m
  <2>4. /\ outbox' \in Seq(OutboxRow)
        /\ DOMAIN outbox' = DOMAIN outbox \cup {last}
        /\ last \notin DOMAIN outbox
        /\ \A i \in DOMAIN outbox : outbox'[i] = outbox[i]
        /\ outbox'[last] = new
    BY <2>2, <2>3, AppendProperties
  <2>5. Committed' = Committed
    BY <2>3, <2>4 DEF Committed, Table!Committed
  <2>6. SettledBefore'
    <3> SUFFICES ASSUME NEW i \in DOMAIN outbox', NEW j \in DOMAIN outbox', i < j,
                        outbox'[i].cid = outbox'[j].cid
                 PROVE  outbox'[i].state # "pending"
      BY DEF SettledBefore, SameComplaint
    <3>1. i \in DOMAIN outbox
      BY <2>4
    <3>2. CASE j \in DOMAIN outbox
      BY <2>4, <3>1, <3>2 DEF SettledBefore, SameComplaint
    <3>3. CASE j = last
      <4>1. outbox[i].cid = c
        BY <2>3, <2>4, <3>1, <3>3
      <4>2. i \notin Table!Rows(c, "pending")
        BY <1>1 DEF Table!Insert
      <4> QED
        BY <2>4, <3>1, <4>1, <4>2 DEF Table!Rows
    <3> QED
      BY <2>4, <3>2, <3>3
  <2> QED
    BY <2>4, <2>5, <2>6
<1>2. ASSUME NEW i \in DOMAIN outbox, NEW state \in {"committed", "aborted"},
             outbox[i].state = "pending", outbox' = [outbox EXCEPT ![i].state = state]
      PROVE  /\ outbox' \in Seq(OutboxRow)
             /\ DOMAIN outbox' = DOMAIN outbox
             /\ \A k \in DOMAIN outbox : outbox'[k].cid = outbox[k].cid
             /\ Committed \subseteq Committed' /\ Committed' \subseteq Committed \cup {i}
             /\ SettledBefore'
             /\ \A j \in Committed : outbox'[i].cid = outbox'[j].cid => ~(i < j)
  <2> DEFINE new == [outbox[i] EXCEPT !.state = state]
  <2>1. outbox[i] \in OutboxRow
    BY ElementOfSeq
  <2>2. new \in OutboxRow /\ new.cid = outbox[i].cid /\ new.state = state
    BY <2>1 DEF OutboxRow, Table!RowState
  <2>3. outbox' = [outbox EXCEPT ![i] = new]
    BY <1>2
  <2> HIDE DEF new
  <2>4. /\ DOMAIN outbox' = DOMAIN outbox /\ outbox'[i] = new
        /\ \A k \in DOMAIN outbox : k # i => outbox'[k] = outbox[k]
    BY <2>3
  <2>5. outbox' \in Seq(OutboxRow)
    BY <2>2, <2>3, ExceptSeq
  <2>6. SettledBefore'
    BY <1>2, <2>2, <2>4 DEF SettledBefore, SameComplaint
  <2>7. Committed \subseteq Committed' /\ Committed' \subseteq Committed \cup {i}
    BY <1>2, <2>2, <2>4 DEF Committed, Table!Committed
  <2>8. ASSUME NEW j \in Committed, outbox'[i].cid = outbox'[j].cid, i < j PROVE FALSE
    <3>1. j \in DOMAIN outbox /\ outbox[j].cid = outbox'[j].cid
      BY <2>2, <2>4
    <3>2. outbox[i].cid = outbox[j].cid
      BY <2>2, <2>4, <2>8, <3>1
    <3> QED
      BY <1>2, <2>8, <3>1, <3>2 DEF SettledBefore, SameComplaint
  <2> QED
    BY <2>2, <2>4, <2>5, <2>6, <2>7, <2>8
<1>3. ASSUME NEW i \in DOMAIN outbox, Table!CommitRow(i) \/ Table!AbortRow(i)
      PROVE  \E state \in {"committed", "aborted"} :
               outbox[i].state = "pending" /\ outbox' = [outbox EXCEPT ![i].state = state]
  BY <1>3 DEF Table!CommitRow, Table!AbortRow
<1>4. CASE \E c \in Complaints : Table!Insert(c)
  BY <1>1, <1>4
<1>5. CASE \E i \in DOMAIN outbox : Table!CommitRow(i) \/ Table!AbortRow(i)
  <2>1. PICK i \in DOMAIN outbox, state \in {"committed", "aborted"} :
          outbox[i].state = "pending" /\ outbox' = [outbox EXCEPT ![i].state = state]
    BY <1>3, <1>5
  <2> QED
    BY <1>2, <2>1
<1> QED
  BY <1>4, <1>5 DEF Transactions

(* A row committed late is not older than a committed row of its complaint *)
(* (TableStep): no tick has overtaken it.                                  *)
LEMMA TransactionsInv ==
  ASSUME WorkerInv, Transactions
  PROVE  WorkerInv'
<1> USE DEF WorkerInv
<1>1. UNCHANGED <<published, tick, stream, faults>>
  BY DEF Transactions, workerVars
<1>2. /\ outbox' \in Seq(OutboxRow)
      /\ DOMAIN outbox \subseteq DOMAIN outbox'
      /\ \A i \in DOMAIN outbox : outbox'[i].cid = outbox[i].cid
      /\ Committed \subseteq Committed'
      /\ SettledBefore'
      /\ \A i \in Committed' \ Committed, j \in Committed :
           outbox'[i].cid = outbox'[j].cid => ~(i < j)
  BY TableStep
<1>3. Committed \subseteq DOMAIN outbox
  BY RowFacts
<1>4. Streamed' = Streamed
  BY <1>1 DEF Streamed
<1>5. TypeInv'
  BY <1>1, <1>2 DEF TypeInv
<1>6. Sound'
  <2>1. OutboxGuarantee'
    BY <1>1, <1>2, <1>4 DEF Sound, OutboxGuarantee, Committed
  <2> QED
    BY <1>1, <1>2, <1>4, <2>1 DEF Sound, IsCurrent
<1>7. \A t \in Ticks : tick[t].batch \subseteq Committed
  BY DEF Sound
<1>8. Unrefused' => NothingOvertaken'
  <2> SUFFICES ASSUME Unrefused, NEW t \in Ticks, NEW j \in tick[t].batch, NEW i \in Committed',
                      i < j, outbox'[i].cid = outbox'[j].cid
               PROVE  i \in Streamed \cup tick[t].batch
    BY <1>1, <1>4 DEF Unrefused, NothingOvertaken, SameComplaint
  <2>1. j \in Committed /\ i \in Committed
    BY <1>2, <1>7
  <2> QED
    BY <1>2, <1>3, <2>1 DEF NothingOvertaken, SameComplaint
<1>9. FirstCopiesInOrder'
  <2> SUFFICES ASSUME Unrefused, NEW l \in DOMAIN stream, NEW i \in Committed',
                      i < stream[l], outbox'[i].cid = outbox'[stream[l]].cid
               PROVE  \E k \in 1 .. l - 1 : stream[k] = i
    BY <1>1 DEF FirstCopiesInOrder, Unrefused, Committed
  <2>1. stream[l] \in Committed
    BY DEF Sound, OutboxGuarantee, Streamed, Committed
  <2>2. i \in Committed
    BY <1>2, <2>1
  <2> QED
    BY <1>2, <1>3, <2>1, <2>2 DEF FirstCopiesInOrder, Unrefused, Committed
<1> QED
  BY <1>2, <1>5, <1>6, <1>8, <1>9

-----------------------------------------------------------------------------
(* A snapshot reaches back to the oldest row that is not published. *)
LEMMA SnapshotReachesBack ==
  ASSUME TypeInv, NEW j \in Snapshot, NEW i \in Unpublished, i < j
  PROVE  i \in Snapshot
<1> DEFINE Before(k) == {u \in Unpublished : u < k}
<1>1. Unpublished \subseteq 1 .. Len(outbox) /\ Len(outbox) \in Nat
  BY RowFacts DEF Unpublished, Committed
<1>2. IsFiniteSet(Before(j)) /\ IsFiniteSet(Before(i))
  <2>1. IsFiniteSet(1 .. Len(outbox))
    BY <1>1, FS_Interval
  <2>2. Before(j) \subseteq 1 .. Len(outbox) /\ Before(i) \subseteq 1 .. Len(outbox)
    BY <1>1
  <2> QED
    BY <2>1, <2>2, FS_Subset
<1>3. Before(i) \subseteq Before(j)
  <2> SUFFICES ASSUME NEW u \in Unpublished, u < i PROVE u < j
    OBVIOUS
  <2>1. u \in Nat /\ i \in Nat /\ j \in Nat
    BY <1>1 DEF Snapshot
  <2> QED
    BY <2>1
<1>4. Cardinality(Before(i)) <= Cardinality(Before(j))
  BY <1>2, <1>3, FS_Subset
<1>5. Cardinality(Before(i)) \in Nat /\ Cardinality(Before(j)) \in Nat
  BY <1>2, FS_CardinalityType
<1>6. Cardinality(Before(j)) < BATCH
  BY DEF Snapshot
<1> QED
  BY <1>4, <1>5, <1>6, BatchAssumption DEF BatchAssumption, Snapshot

(* What is older than a row of the snapshot and not in it is published. *)
LEMMA StartTickInv ==
  ASSUME WorkerInv, NEW t \in Ticks, StartTick(t)
  PROVE  WorkerInv'
<1> USE DEF WorkerInv
<1>1. /\ tick[t].batch = {} /\ tick' = [tick EXCEPT ![t].batch = Snapshot]
      /\ UNCHANGED <<outbox, published, stream, faults>>
  BY DEF StartTick
<1>2. Streamed' = Streamed /\ Committed' = Committed
  BY <1>1 DEF Streamed, Committed, Table!Committed
<1>3. Snapshot \subseteq Committed /\ Snapshot \subseteq Nat
  BY RowFacts DEF Snapshot, Unpublished, Committed
<1>4. /\ tick' \in [Ticks -> [batch : SUBSET Nat, sent : BOOLEAN]]
      /\ \A u \in Ticks : u # t => tick'[u] = tick[u]
      /\ tick'[t].batch = Snapshot /\ tick'[t].sent = tick[t].sent
  BY <1>1, <1>3 DEF TypeInv
<1>5. TypeInv'
  BY <1>1, <1>4 DEF TypeInv
<1>6. SettledBefore'
  BY <1>1 DEF SettledBefore, SameComplaint
<1>7. Sound'
  <2>1. OutboxGuarantee'
    BY <1>1, <1>2 DEF Sound, OutboxGuarantee, Committed
  <2>2. ~tick[t].sent
    BY <1>1 DEF Sound
  <2> QED
    BY <1>2, <1>3, <1>4, <2>1, <2>2 DEF Sound, IsCurrent
<1>8. Unrefused' => NothingOvertaken'
  <2> SUFFICES ASSUME Unrefused, NEW u \in Ticks, NEW j \in tick'[u].batch, NEW i \in Committed,
                      i < j, SameComplaint(i, j)
               PROVE  i \in Streamed \cup tick'[u].batch
    BY <1>1, <1>2 DEF Unrefused, NothingOvertaken, SameComplaint
  <2>1. CASE u = t
    <3>1. j \in Snapshot
      BY <1>4, <2>1
    <3>2. i \in published \/ i \in Unpublished
      BY DEF Unpublished, Committed
    <3>3. i \in published => i \in Streamed
      BY DEF Sound, OutboxGuarantee
    <3>4. i \in Unpublished => i \in Snapshot
      BY <3>1, SnapshotReachesBack
    <3> QED
      BY <1>4, <2>1, <3>2, <3>3, <3>4
  <2>2. CASE u # t
    BY <1>4, <2>2 DEF NothingOvertaken
  <2> QED
    BY <2>1, <2>2
<1>9. FirstCopiesInOrder'
  BY <1>1, <1>2 DEF FirstCopiesInOrder, Committed
<1> QED
  BY <1>5, <1>6, <1>7, <1>8, <1>9

-----------------------------------------------------------------------------
(* An XADD, answered or not: everything older that a tick had to send is   *)
(* in the stream before.                                                   *)
LEMMA AppendInv ==
  ASSUME WorkerInv, NEW t \in Ticks, NEW i \in DOMAIN outbox, IsCurrent(t, i),
         stream' = Append(stream, i),
         \/ tick' = [tick EXCEPT ![t].sent = TRUE] /\ UNCHANGED faults
         \/ tick' = tick /\ faults' \in [Faults -> Nat]
                         /\ faults'["refused"] = faults["refused"],
         UNCHANGED <<outbox, published>>
  PROVE  WorkerInv'
<1> USE DEF WorkerInv
<1>1. Committed' = Committed /\ (Unrefused' <=> Unrefused)
  BY DEF Committed, Table!Committed, Unrefused
<1>2. i \in Committed /\ i \in tick[t].batch /\ i \in Nat
  BY RowFacts DEF IsCurrent, Sound
<1>3. /\ stream' \in Seq(Nat) /\ Len(stream') = Len(stream) + 1
      /\ DOMAIN stream' = DOMAIN stream \cup {Len(stream) + 1}
      /\ \A k \in DOMAIN stream : stream'[k] = stream[k]
      /\ stream'[Len(stream) + 1] = i
  BY <1>2, RowFacts, AppendProperties DEF TypeInv
<1>4. Streamed' = Streamed \cup {i}
  BY <1>3 DEF Streamed
<1>5. /\ tick' \in [Ticks -> [batch : SUBSET Nat, sent : BOOLEAN]]
      /\ \A u \in Ticks : tick'[u].batch = tick[u].batch
      /\ \A u \in Ticks : u # t => tick'[u] = tick[u]
  BY DEF TypeInv
<1>6. TypeInv'
  BY <1>3, <1>5 DEF TypeInv
<1>7. SettledBefore'
  BY DEF SettledBefore, SameComplaint
<1>8. Sound'
  <2>1. OutboxGuarantee'
    BY <1>1, <1>2, <1>4 DEF Sound, OutboxGuarantee, Committed
  <2>2. ASSUME NEW u \in Ticks
        PROVE  /\ tick'[u].batch \subseteq Committed'
               /\ tick'[u].batch = {} => ~tick'[u].sent
               /\ \A j \in tick'[u].batch : IsCurrent(u, j)' /\ tick'[u].sent => j \in Streamed'
    <3>1. CASE u = t
      <4>1. \A j \in tick'[u].batch : IsCurrent(u, j)' => j = i
        BY <1>2, <1>5, <3>1 DEF IsCurrent, TypeInv
      <4> QED
        BY <1>1, <1>2, <1>4, <1>5, <3>1, <4>1 DEF Sound
    <3>2. CASE u # t
      BY <1>1, <1>4, <1>5, <3>2 DEF Sound, IsCurrent
    <3> QED
      BY <3>1, <3>2
  <2> QED
    BY <2>1, <2>2 DEF Sound
<1>9. Unrefused' => NothingOvertaken'
  BY <1>1, <1>4, <1>5 DEF NothingOvertaken, SameComplaint
<1>10. FirstCopiesInOrder'
  <2> SUFFICES ASSUME Unrefused, NEW l \in DOMAIN stream', NEW j \in Committed,
                      j < stream'[l], SameComplaint(j, stream'[l])
               PROVE  \E k \in 1 .. l - 1 : stream'[k] = j
    BY <1>1 DEF FirstCopiesInOrder, Unrefused, Committed, SameComplaint
  <2>1. CASE l \in DOMAIN stream
    <3>1. PICK k \in 1 .. l - 1 : stream[k] = j
      BY <1>3, <2>1 DEF FirstCopiesInOrder, Unrefused, Committed, SameComplaint
    <3>2. k \in DOMAIN stream
      BY <2>1, RowFacts
    <3> QED
      BY <1>3, <3>1, <3>2
  <2>2. CASE l = Len(stream) + 1
    <3>1. j < i /\ SameComplaint(j, i)
      BY <1>3, <2>2
    <3>2. j \notin tick[t].batch
      BY <3>1, <1>2, RowFacts DEF IsCurrent
    <3>3. j \in Streamed
      BY <1>2, <3>1, <3>2 DEF NothingOvertaken
    <3>4. PICK k \in DOMAIN stream : stream[k] = j
      BY <3>3 DEF Streamed
    <3> QED
      BY <1>3, <2>2, <3>4, RowFacts
  <2> QED
    BY <1>3, <2>1, <2>2
<1> QED
  BY <1>6, <1>7, <1>8, <1>9, <1>10

(* The tick is done with a record: sent, unless Redis refused it. *)
LEMMA NextRecordInv ==
  ASSUME WorkerInv, NEW t \in Ticks, NEW i \in DOMAIN outbox, IsCurrent(t, i), NextRecord(t, i),
         UNCHANGED <<outbox, stream>>,
         published' = published \/ (i \in Streamed /\ published' = published \cup {i}),
         \/ i \in Streamed /\ faults'["refused"] = faults["refused"]
         \/ faults'["refused"] < faults["refused"],
         faults' \in [Faults -> Nat]
  PROVE  WorkerInv'
<1> USE DEF WorkerInv
<1>1. Committed' = Committed /\ Streamed' = Streamed
  BY DEF Committed, Table!Committed, Streamed
<1>2. /\ tick' \in [Ticks -> [batch : SUBSET Nat, sent : BOOLEAN]]
      /\ tick'[t].batch = tick[t].batch \ {i} /\ tick'[t].sent = FALSE
      /\ \A u \in Ticks : u # t => tick'[u] = tick[u]
  <2> DEFINE next == [batch |-> tick[t].batch \ {i}, sent |-> FALSE]
  <2>1. tick' = [tick EXCEPT ![t] = next]
    BY DEF NextRecord
  <2>2. next \in [batch : SUBSET Nat, sent : BOOLEAN] /\ next.batch = tick[t].batch \ {i} /\ next.sent = FALSE
    BY DEF TypeInv
  <2> HIDE DEF next
  <2> QED
    BY <2>1, <2>2 DEF TypeInv
<1>3. faults'["refused"] \in Nat /\ faults["refused"] \in Nat /\ FaultBudget["refused"] \in Nat
  BY BudgetAssumption DEF BudgetAssumption, TypeInv, Faults
<1>4. TypeInv'
  BY <1>2, <1>3 DEF TypeInv
<1>5. SettledBefore'
  BY DEF SettledBefore, SameComplaint
<1>6. Sound'
  <2>1. OutboxGuarantee'
    BY <1>1 DEF Sound, OutboxGuarantee, Committed
  <2> QED
    BY <1>1, <1>2, <2>1 DEF Sound, IsCurrent
<1>7. Unrefused' => Unrefused /\ i \in Streamed
  BY <1>3 DEF Unrefused, TypeInv
<1>8. Unrefused' => NothingOvertaken'
  <2> SUFFICES ASSUME Unrefused, i \in Streamed, NEW u \in Ticks, NEW j \in tick'[u].batch,
                      NEW k \in Committed, k < j, SameComplaint(k, j)
               PROVE  k \in Streamed \cup tick'[u].batch
    BY <1>1, <1>7 DEF NothingOvertaken, SameComplaint
  <2>1. j \in tick[u].batch
    BY <1>2
  <2>2. k \in Streamed \cup tick[u].batch
    BY <2>1 DEF NothingOvertaken
  <2> QED
    BY <1>2, <2>2
<1>9. FirstCopiesInOrder'
  BY <1>1, <1>7 DEF FirstCopiesInOrder, Unrefused, Committed
<1> QED
  BY <1>4, <1>5, <1>6, <1>8, <1>9

(* The service dies: its ticks are gone, the rest stays. *)
LEMMA CrashInv ==
  ASSUME WorkerInv, Crash
  PROVE  WorkerInv'
<1> USE DEF WorkerInv
<1>1. /\ tick' = [t \in Ticks |-> NoTick] /\ UNCHANGED <<outbox, published, stream>>
      /\ faults' = [faults EXCEPT !["crash"] = @ - 1] /\ faults["crash"] > 0
  BY DEF Crash, Happens
<1>2. Committed' = Committed /\ Streamed' = Streamed
  BY <1>1 DEF Committed, Table!Committed, Streamed
<1>3. faults' \in [Faults -> Nat] /\ faults'["refused"] = faults["refused"]
  BY <1>1 DEF TypeInv, Faults
<1>4. \A t \in Ticks : tick'[t].batch = {} /\ tick'[t].sent = FALSE
  BY <1>1 DEF NoTick
<1>5. TypeInv'
  BY <1>1, <1>3 DEF TypeInv, NoTick
<1>6. SettledBefore'
  BY <1>1 DEF SettledBefore, SameComplaint
<1>7. Sound'
  BY <1>1, <1>2, <1>4 DEF Sound, OutboxGuarantee, Committed
<1>8. NothingOvertaken'
  BY <1>4 DEF NothingOvertaken
<1>9. FirstCopiesInOrder'
  BY <1>1, <1>2, <1>3 DEF FirstCopiesInOrder, Committed
<1> QED
  BY <1>5, <1>6, <1>7, <1>8, <1>9

-----------------------------------------------------------------------------
(* The steps of a tick with one record. *)
LEMMA RecordInv ==
  ASSUME WorkerInv, NEW t \in Ticks, NEW i \in DOMAIN outbox,
         \/ Publish(t, i) \/ PublishUnanswered(t, i) \/ PublishRefused(t, i)
         \/ MarkPublished(t, i) \/ MarkFails(t, i)
  PROVE  WorkerInv'
<1>1. ASSUME Publish(t, i) PROVE WorkerInv'
  BY <1>1, AppendInv DEF Publish
<1>2. ASSUME NEW f \in Faults, Happens(f)
      PROVE  /\ faults' \in [Faults -> Nat]
             /\ f # "refused" => faults'["refused"] = faults["refused"]
             /\ f = "refused" => faults'["refused"] < faults["refused"]
  BY <1>2 DEF Happens, WorkerInv, TypeInv, Faults
<1>3. "lost" \in Faults /\ "refused" \in Faults /\ "unmarked" \in Faults
  BY DEF Faults
<1>4. ASSUME PublishUnanswered(t, i) PROVE WorkerInv'
  BY <1>2, <1>3, <1>4, AppendInv DEF PublishUnanswered
<1>5. ASSUME PublishRefused(t, i) PROVE WorkerInv'
  BY <1>2, <1>3, <1>5, NextRecordInv DEF PublishRefused
<1>6. IsCurrent(t, i) /\ tick[t].sent => i \in Streamed
  BY DEF WorkerInv, Sound, IsCurrent
<1>7. ASSUME MarkPublished(t, i) PROVE WorkerInv'
  BY <1>6, <1>7, NextRecordInv DEF MarkPublished, WorkerInv, TypeInv
<1>8. ASSUME MarkFails(t, i) PROVE WorkerInv'
  BY <1>2, <1>3, <1>6, <1>8, NextRecordInv DEF MarkFails
<1> QED
  BY <1>1, <1>4, <1>5, <1>7, <1>8

(* The invariant of the worker. *)
THEOREM WorkerInvariance == Spec => []WorkerInv
<1>1. ASSUME WorkerInv, [Next]_vars PROVE WorkerInv'
  <2>1. CASE UNCHANGED vars
    <3>1. UNCHANGED <<outbox, published, tick, stream, faults>>
      BY <2>1 DEF vars
    <3>2. Streamed' = Streamed /\ Committed' = Committed
      BY <3>1 DEF Streamed, Committed, Table!Committed
    <3>3. TypeInv' /\ SettledBefore'
      BY <1>1, <3>1 DEF WorkerInv, TypeInv, SettledBefore, SameComplaint
    <3>4. Sound'
      BY <1>1, <3>1, <3>2 DEF WorkerInv, Sound, OutboxGuarantee, IsCurrent, Committed
    <3>5. Unrefused' => NothingOvertaken'
      BY <1>1, <3>1, <3>2 DEF WorkerInv, NothingOvertaken, SameComplaint, Unrefused
    <3>6. FirstCopiesInOrder'
      BY <1>1, <3>1, <3>2 DEF WorkerInv, FirstCopiesInOrder, Committed
    <3> QED
      BY <3>3, <3>4, <3>5, <3>6 DEF WorkerInv
  <2>2. CASE Next
    BY <1>1, <2>2, TransactionsInv, StartTickInv, RecordInv, CrashInv DEF Next, WorkerNext
  <2> QED
    BY <1>1, <2>1, <2>2
<1> QED
  BY <1>1, WorkerInvInit, PTL DEF Spec

(* Only committed events reach the stream, and only events in the stream   *)
(* are marked, for any number of ticks and faults (worker.ts:16-41).       *)
THEOREM NothingInventedNothingLost == Spec => []OutboxGuarantee
<1>1. WorkerInv => OutboxGuarantee
  BY DEF WorkerInv, Sound
<1> QED
  BY <1>1, WorkerInvariance, PTL

(* While Redis refuses nothing, the first copies of the events of a        *)
(* complaint are in the order of its changes, for any number of            *)
(* overlapping ticks, lost answers, failed updates and crashes             *)
(* (worker.ts:17-48).                                                      *)
THEOREM OrderSurvives == Spec => []FirstCopiesInOrder
<1>1. WorkerInv => FirstCopiesInOrder
  BY DEF WorkerInv
<1> QED
  BY <1>1, WorkerInvariance, PTL

-----------------------------------------------------------------------------
(* How often an event enters the stream.  The bound counts faults; to keep *)
(* it, the copies of an event have to be charged to somebody: to a tick    *)
(* that has sent the event and is not done with it (HaveSent), to a fault, *)
(* and, once the row is published, to one of the ticks there are.          *)
HaveSent(i) == {t \in Ticks : IsCurrent(t, i) /\ tick[t].sent}

Waiting(i) == {t \in Ticks : i \in tick[t].batch /\ ~(IsCurrent(t, i) /\ tick[t].sent)}

Excess == Cardinality(Ticks) * Spent("crash") + Spent("lost") + Spent("unmarked")

(* A tick that has the row still to send can only have read it before it   *)
(* was published.                                                          *)
Accounted(i) ==
  /\ i \notin published => Copies(i) <= Cardinality(HaveSent(i)) + Excess
  /\ i \in published => Copies(i) + Cardinality(Waiting(i)) <= Cardinality(Ticks) + Excess

Within == \A f \in Faults : faults[f] <= FaultBudget[f]

CopiesInv == Within /\ \A i \in Nat : Accounted(i)

-----------------------------------------------------------------------------
(* The numbers are numbers, and a tick has sent its record or has not. *)
LEMMA CountFacts ==
  ASSUME TypeInv, NEW i \in Nat
  PROVE  /\ Cardinality(Ticks) \in Nat
         /\ IsFiniteSet(HaveSent(i)) /\ Cardinality(HaveSent(i)) \in Nat
         /\ IsFiniteSet(Waiting(i)) /\ Cardinality(Waiting(i)) \in Nat
         /\ Cardinality(HaveSent(i)) + Cardinality(Waiting(i)) <= Cardinality(Ticks)
         /\ Copies(i) \in Nat
<1>1. IsFiniteSet(Ticks) /\ Cardinality(Ticks) \in Nat
  BY TicksAssumption, FS_CardinalityType DEF TicksAssumption
<1>2. HaveSent(i) \subseteq Ticks /\ Waiting(i) \subseteq Ticks /\ HaveSent(i) \cap Waiting(i) = {}
  BY DEF HaveSent, Waiting
<1>3. /\ IsFiniteSet(HaveSent(i)) /\ Cardinality(HaveSent(i)) \in Nat
      /\ IsFiniteSet(Waiting(i)) /\ Cardinality(Waiting(i)) \in Nat
  BY <1>1, <1>2, FS_Subset, FS_CardinalityType
<1>4. Cardinality(HaveSent(i) \cup Waiting(i)) =
        Cardinality(HaveSent(i)) + Cardinality(Waiting(i)) - Cardinality(HaveSent(i) \cap Waiting(i))
  BY <1>3, FS_Union
<1>5. Cardinality(HaveSent(i) \cap Waiting(i)) = 0
  BY <1>2, FS_EmptySet
<1>6. Cardinality(HaveSent(i) \cup Waiting(i)) <= Cardinality(Ticks)
  <2>1. HaveSent(i) \cup Waiting(i) \subseteq Ticks
    BY <1>2
  <2> QED
    BY <1>1, <2>1, FS_Subset
<1>7. Copies(i) \in Nat
  <2>1. {k \in DOMAIN stream : stream[k] = i} \subseteq 1 .. Len(stream) /\ IsFiniteSet(1 .. Len(stream))
    BY RowFacts, FS_Interval
  <2> QED
    BY <2>1, FS_Subset, FS_CardinalityType DEF Copies
<1> QED
  BY <1>1, <1>3, <1>4, <1>5, <1>6, <1>7

LEMMA AppendedCopies ==
  ASSUME TypeInv, NEW i \in Nat, stream' = Append(stream, i), NEW n \in Nat
  PROVE  Copies(n)' = IF n = i THEN Copies(n) + 1 ELSE Copies(n)
<1> DEFINE S == {k \in DOMAIN stream : stream[k] = n}
           T == {k \in DOMAIN stream' : stream'[k] = n}
<1>1. /\ DOMAIN stream' = DOMAIN stream \cup {Len(stream) + 1}
      /\ \A k \in DOMAIN stream : stream'[k] = stream[k]
      /\ stream'[Len(stream) + 1] = i
  BY AppendProperties DEF TypeInv
<1>2. DOMAIN stream = 1 .. Len(stream) /\ Len(stream) \in Nat
  BY RowFacts
<1>3. IsFiniteSet(S) /\ Len(stream) + 1 \notin S
  <2>1. S \subseteq 1 .. Len(stream) /\ IsFiniteSet(1 .. Len(stream))
    BY <1>2, FS_Interval
  <2> QED
    BY <1>2, <2>1, FS_Subset
<1>4. n = i => T = S \cup {Len(stream) + 1}
  BY <1>1
<1>5. n # i => T = S
  BY <1>1
<1>6. Cardinality(S \cup {Len(stream) + 1}) = Cardinality(S) + 1
  BY <1>3, FS_AddElement
<1>7. Copies(n) = Cardinality(S) /\ Copies(n)' = Cardinality(T)
  BY DEF Copies
<1> QED
  BY <1>4, <1>5, <1>6, <1>7

(* What a fault allows. *)
LEMMA ExcessFacts ==
  ASSUME TypeInv, Within
  PROVE  Excess \in Nat
<1>1. Spent("crash") \in Nat /\ Spent("lost") \in Nat /\ Spent("unmarked") \in Nat
  BY BudgetAssumption DEF BudgetAssumption, TypeInv, Within, Faults, Spent
<1>2. Cardinality(Ticks) \in Nat
  BY TicksAssumption, FS_CardinalityType DEF TicksAssumption
<1>3. \A a, b \in Nat : a * b \in Nat
  OBVIOUS
<1> QED
  BY <1>1, <1>2, <1>3 DEF Excess

LEMMA ExcessRests ==
  ASSUME UNCHANGED faults, Within
  PROVE  Within' /\ Excess' = Excess
BY DEF Within, Excess, Spent

LEMMA FaultSpends ==
  ASSUME TypeInv, Within, NEW f \in Faults, Happens(f)
  PROVE  /\ Within'
         /\ f = "refused" => Excess' = Excess
         /\ f \in {"lost", "unmarked"} => Excess' = Excess + 1
         /\ f = "crash" => Excess' = Excess + Cardinality(Ticks)
<1>1. /\ faults'[f] = faults[f] - 1 /\ \A g \in Faults : g # f => faults'[g] = faults[g]
      /\ \A g \in Faults : faults[g] \in Nat /\ FaultBudget[g] \in Nat
      /\ faults[f] > 0
  BY BudgetAssumption DEF BudgetAssumption, TypeInv, Happens
<1>2. Within'
  BY <1>1 DEF Within
<1>3. Spent(f)' = Spent(f) + 1 /\ \A g \in Faults : g # f => Spent(g)' = Spent(g)
  BY <1>1 DEF Spent
<1>4. Spent("crash") \in Nat /\ Spent("lost") \in Nat /\ Spent("unmarked") \in Nat
  BY <1>1 DEF Within, Faults, Spent
<1>5. Cardinality(Ticks) \in Nat
  BY TicksAssumption, FS_CardinalityType DEF TicksAssumption
<1>6. \A a, b \in Nat : a * (b + 1) = a * b + a /\ a * b \in Nat
  OBVIOUS
<1>7. Cardinality(Ticks) * (Spent("crash") + 1) = Cardinality(Ticks) * Spent("crash") + Cardinality(Ticks)
  BY <1>4, <1>5, <1>6
<1>8. Cardinality(Ticks) * Spent("crash") \in Nat
  BY <1>4, <1>5, <1>6
<1>9. Excess' = Cardinality(Ticks) * Spent("crash")' + Spent("lost")' + Spent("unmarked")'
  BY DEF Excess
<1>10. "crash" \in Faults /\ "lost" \in Faults /\ "unmarked" \in Faults
  BY DEF Faults
<1>11. CASE f = "crash"
  <2>1. Spent("crash")' = Spent("crash") + 1 /\ Spent("lost")' = Spent("lost") /\ Spent("unmarked")' = Spent("unmarked")
    BY <1>3, <1>10, <1>11
  <2> QED
    BY <1>2, <1>4, <1>5, <1>7, <1>8, <1>9, <1>11, <2>1 DEF Excess
<1>12. CASE f = "lost"
  <2>1. Spent("crash")' = Spent("crash") /\ Spent("lost")' = Spent("lost") + 1 /\ Spent("unmarked")' = Spent("unmarked")
    BY <1>3, <1>10, <1>12
  <2> QED
    BY <1>2, <1>4, <1>5, <1>8, <1>9, <1>12, <2>1 DEF Excess
<1>13. CASE f = "unmarked"
  <2>1. Spent("crash")' = Spent("crash") /\ Spent("lost")' = Spent("lost") /\ Spent("unmarked")' = Spent("unmarked") + 1
    BY <1>3, <1>10, <1>13
  <2> QED
    BY <1>2, <1>4, <1>5, <1>8, <1>9, <1>13, <2>1 DEF Excess
<1>14. CASE f = "refused"
  <2>1. Spent("crash")' = Spent("crash") /\ Spent("lost")' = Spent("lost") /\ Spent("unmarked")' = Spent("unmarked")
    BY <1>3, <1>10, <1>14
  <2> QED
    BY <1>2, <1>9, <1>14, <2>1 DEF Excess
<1> QED
  BY <1>11, <1>12, <1>13, <1>14 DEF Faults

-----------------------------------------------------------------------------
(* A tick that leaves its ticket for row n where it is. *)
LEMMA CountsRest ==
  ASSUME NEW n, \A t \in Ticks : /\ (n \in tick'[t].batch <=> n \in tick[t].batch)
                                 /\ ((IsCurrent(t, n) /\ tick[t].sent)' <=> (IsCurrent(t, n) /\ tick[t].sent))
  PROVE  HaveSent(n)' = HaveSent(n) /\ Waiting(n)' = Waiting(n)
BY DEF HaveSent, Waiting

(* The first tick of a row's batch is one row. *)
LEMMA OneCurrent ==
  ASSUME TypeInv, NEW t \in Ticks, NEW i, NEW j, IsCurrent(t, i), IsCurrent(t, j)
  PROVE  i = j
BY DEF TypeInv, IsCurrent

(* A snapshot holds rows that are not published. *)
LEMMA StartTickCopies ==
  ASSUME WorkerInv, WorkerInv', CopiesInv, NEW t \in Ticks, StartTick(t)
  PROVE  CopiesInv'
<1>1. TypeInv /\ Within /\ ~tick[t].sent /\ tick[t].batch = {}
  BY DEF WorkerInv, Sound, CopiesInv, StartTick
<1>2. /\ tick'[t].batch = Snapshot /\ tick'[t].sent = tick[t].sent
      /\ \A u \in Ticks : u # t => tick'[u] = tick[u]
      /\ UNCHANGED <<published, stream, faults>>
  BY <1>1 DEF StartTick, TypeInv
<1>3. Within' /\ Excess' = Excess
  BY <1>1, <1>2, ExcessRests
<1>4. ASSUME NEW n \in Nat PROVE Accounted(n)'
  <2>1. Accounted(n) /\ Copies(n)' = Copies(n)
    BY <1>2 DEF CopiesInv, Copies
  <2>2. HaveSent(n)' = HaveSent(n)
    BY <1>1, <1>2 DEF HaveSent, IsCurrent
  <2>3. n \in published => Waiting(n)' = Waiting(n)
    BY <1>1, <1>2 DEF Waiting, IsCurrent, Snapshot, Unpublished
  <2> QED
    BY <1>2, <1>3, <2>1, <2>2, <2>3 DEF Accounted
<1> QED
  BY <1>3, <1>4 DEF CopiesInv

(* A copy is charged to the tick that sends it, *)
LEMMA PublishCopies ==
  ASSUME WorkerInv, WorkerInv', CopiesInv, NEW t \in Ticks, NEW i \in Nat, Publish(t, i)
  PROVE  CopiesInv'
<1>1. TypeInv /\ TypeInv' /\ Within
  BY DEF WorkerInv, CopiesInv
<1>2. /\ tick'[t].batch = tick[t].batch /\ tick'[t].sent = TRUE /\ ~tick[t].sent
      /\ \A u \in Ticks : u # t => tick'[u] = tick[u]
      /\ UNCHANGED <<published, faults>> /\ IsCurrent(t, i) /\ i \in tick[t].batch
      /\ stream' = Append(stream, i)
  BY <1>1 DEF Publish, TypeInv, IsCurrent
<1>3. Within' /\ Excess' = Excess
  BY <1>1, <1>2, ExcessRests
<1>4. Excess \in Nat
  BY <1>1, ExcessFacts
<1>5. \A u \in Ticks : \A n \in Nat : IsCurrent(u, n)' <=> IsCurrent(u, n)
  BY <1>2 DEF IsCurrent
<1>6. ASSUME NEW n \in Nat PROVE Accounted(n)'
  <2>1. Accounted(n)
    BY DEF CopiesInv
  <2>2. CASE n = i
    <3>1. HaveSent(i)' = HaveSent(i) \cup {t} /\ t \notin HaveSent(i)
      BY <1>2, <1>5 DEF HaveSent
    <3>2. Waiting(i)' = Waiting(i) \ {t} /\ t \in Waiting(i)
      BY <1>2, <1>5 DEF Waiting
    <3>3. Cardinality(HaveSent(i)') = Cardinality(HaveSent(i)) + 1
      BY <1>1, <3>1, CountFacts, FS_AddElement
    <3>4. Cardinality(Waiting(i)') = Cardinality(Waiting(i)) - 1
      BY <1>1, <3>2, CountFacts, FS_RemoveElement
    <3>5. Copies(i)' = Copies(i) + 1
      BY <1>1, <1>2, AppendedCopies
    <3>6. /\ Copies(i) \in Nat /\ Cardinality(HaveSent(i)) \in Nat /\ Cardinality(Waiting(i)) \in Nat
          /\ Cardinality(Ticks) \in Nat
      BY <1>1, CountFacts
    <3> QED
      BY <1>2, <1>3, <1>4, <2>1, <2>2, <3>3, <3>4, <3>5, <3>6 DEF Accounted
  <2>3. CASE n # i
    <3>1. ~IsCurrent(t, n)
      BY <1>1, <1>2, <2>3, OneCurrent
    <3>2. HaveSent(n)' = HaveSent(n) /\ Waiting(n)' = Waiting(n)
      BY <1>2, <1>5, <3>1, CountsRest
    <3>3. Copies(n)' = Copies(n)
      BY <1>1, <1>2, <2>3, AppendedCopies
    <3> QED
      BY <1>2, <1>3, <2>1, <3>2, <3>3 DEF Accounted
  <2> QED
    BY <2>2, <2>3
<1> QED
  BY <1>3, <1>6 DEF CopiesInv

(* and one that ioredis sends again to the lost answer. *)
LEMMA PublishUnansweredCopies ==
  ASSUME WorkerInv, CopiesInv, NEW t \in Ticks, NEW i \in Nat, PublishUnanswered(t, i)
  PROVE  CopiesInv'
<1>1. TypeInv /\ Within /\ "lost" \in Faults
  BY DEF WorkerInv, CopiesInv, Faults
<1>2. UNCHANGED <<published, tick>> /\ stream' = Append(stream, i) /\ Happens("lost")
  BY DEF PublishUnanswered
<1>3. Within' /\ Excess' = Excess + 1
  BY <1>1, <1>2, FaultSpends
<1>4. Excess \in Nat
  BY <1>1, ExcessFacts
<1>5. ASSUME NEW n \in Nat PROVE Accounted(n)'
  <2>1. HaveSent(n)' = HaveSent(n) /\ Waiting(n)' = Waiting(n)
    BY <1>2 DEF HaveSent, Waiting, IsCurrent
  <2>2. Copies(n)' = IF n = i THEN Copies(n) + 1 ELSE Copies(n)
    BY <1>1, <1>2, AppendedCopies
  <2>3. /\ Copies(n) \in Nat /\ Cardinality(HaveSent(n)) \in Nat /\ Cardinality(Waiting(n)) \in Nat
        /\ Cardinality(Ticks) \in Nat
    BY <1>1, CountFacts
  <2>4. Accounted(n)
    BY DEF CopiesInv
  <2>5. Copies(n)' \in {Copies(n), Copies(n) + 1}
    BY <2>2
  <2> QED
    BY <1>2, <1>3, <1>4, <2>1, <2>3, <2>4, <2>5 DEF Accounted
<1> QED
  BY <1>3, <1>5 DEF CopiesInv

(* A tick is done with a record: what the other ticks have does not change. *)
LEMMA DoneWith ==
  ASSUME TypeInv, NEW t \in Ticks, NEW i \in Nat, IsCurrent(t, i), NextRecord(t, i), NEW n \in Nat
  PROVE  /\ HaveSent(n)' = IF n = i THEN HaveSent(n) \ {t} ELSE HaveSent(n)
         /\ Waiting(n)' = IF n = i /\ ~tick[t].sent THEN Waiting(n) \ {t} ELSE Waiting(n)
         /\ tick[t].sent => t \in HaveSent(i)
<1>1. /\ tick'[t].batch = tick[t].batch \ {i} /\ tick'[t].sent = FALSE
      /\ \A u \in Ticks : u # t => tick'[u] = tick[u]
  BY DEF NextRecord, TypeInv
<1>2. n # i => ~IsCurrent(t, n)
  BY OneCurrent
<1>3. \A u \in Ticks : u # t => (IsCurrent(u, n)' <=> IsCurrent(u, n))
  BY <1>1 DEF IsCurrent
<1>4. n # i => (n \in tick'[t].batch <=> n \in tick[t].batch)
  BY <1>1
<1>5. n = i => n \notin tick'[t].batch /\ n \in tick[t].batch
  BY <1>1 DEF IsCurrent
<1>6. HaveSent(n)' = IF n = i THEN HaveSent(n) \ {t} ELSE HaveSent(n)
  BY <1>1, <1>2, <1>3 DEF HaveSent
<1>7. Waiting(n)' = IF n = i /\ ~tick[t].sent THEN Waiting(n) \ {t} ELSE Waiting(n)
  BY <1>1, <1>2, <1>3, <1>4, <1>5 DEF Waiting
<1> QED
  BY <1>6, <1>7 DEF HaveSent

(* A refused record is not sent, and leaves its tick. *)
LEMMA PublishRefusedCopies ==
  ASSUME WorkerInv, CopiesInv, NEW t \in Ticks, NEW i \in Nat, PublishRefused(t, i)
  PROVE  CopiesInv'
<1>1. TypeInv /\ Within /\ "refused" \in Faults
  BY DEF WorkerInv, CopiesInv, Faults
<1>2. /\ UNCHANGED <<published, stream>> /\ Happens("refused") /\ IsCurrent(t, i) /\ NextRecord(t, i)
      /\ ~tick[t].sent
  BY DEF PublishRefused
<1>3. Within' /\ Excess' = Excess
  BY <1>1, <1>2, FaultSpends
<1>4. ASSUME NEW n \in Nat PROVE Accounted(n)'
  <2>1. HaveSent(n)' = HaveSent(n)
    <3>1. t \notin HaveSent(n)
      BY <1>2 DEF HaveSent
    <3> QED
      BY <1>1, <1>2, <3>1, DoneWith
  <2>2. Waiting(n)' \subseteq Waiting(n)
    BY <1>1, <1>2, DoneWith
  <2>3. Cardinality(Waiting(n)') <= Cardinality(Waiting(n))
    BY <1>1, <2>2, CountFacts, FS_Subset
  <2>4. Accounted(n) /\ Copies(n)' = Copies(n)
    BY <1>2 DEF CopiesInv, Copies
  <2>5. Cardinality(Waiting(n)') \in Nat
    BY <1>1, <2>2, CountFacts, FS_Subset, FS_CardinalityType
  <2>6. Copies(n) \in Nat /\ Cardinality(Waiting(n)) \in Nat /\ Cardinality(Ticks) \in Nat /\ Excess \in Nat
    BY <1>1, CountFacts, ExcessFacts
  <2> QED
    BY <1>2, <1>3, <2>1, <2>3, <2>4, <2>5, <2>6 DEF Accounted
<1> QED
  BY <1>3, <1>4 DEF CopiesInv

(* Once the row is published, every copy so far and every copy still to    *)
(* come is that of a tick that is under way, or a fault's.                 *)
LEMMA MarkPublishedCopies ==
  ASSUME WorkerInv, CopiesInv, NEW t \in Ticks, NEW i \in Nat, MarkPublished(t, i)
  PROVE  CopiesInv'
<1>1. TypeInv /\ Within
  BY DEF WorkerInv, CopiesInv
<1>2. /\ published' = published \cup {i} /\ UNCHANGED <<stream, faults>>
      /\ IsCurrent(t, i) /\ NextRecord(t, i) /\ tick[t].sent
  BY DEF MarkPublished
<1>3. Within' /\ Excess' = Excess
  BY <1>1, <1>2, ExcessRests
<1>4. ASSUME NEW n \in Nat PROVE Accounted(n)'
  <2>1. Waiting(n)' = Waiting(n) /\ (n # i => HaveSent(n)' = HaveSent(n))
    BY <1>1, <1>2, DoneWith
  <2>2. Accounted(n) /\ Copies(n)' = Copies(n)
    BY <1>2 DEF CopiesInv, Copies
  <2>3. /\ Copies(n) \in Nat /\ Cardinality(Waiting(n)) \in Nat /\ Cardinality(Ticks) \in Nat /\ Excess \in Nat
        /\ Cardinality(HaveSent(n)) \in Nat
        /\ Cardinality(HaveSent(n)) + Cardinality(Waiting(n)) <= Cardinality(Ticks)
    BY <1>1, CountFacts, ExcessFacts
  <2> QED
    BY <1>2, <1>3, <2>1, <2>2, <2>3 DEF Accounted
<1> QED
  BY <1>3, <1>4 DEF CopiesInv

(* A failed update leaves its tick's copy to the fault. *)
LEMMA MarkFailsCopies ==
  ASSUME WorkerInv, CopiesInv, NEW t \in Ticks, NEW i \in Nat, MarkFails(t, i)
  PROVE  CopiesInv'
<1>1. TypeInv /\ Within /\ "unmarked" \in Faults
  BY DEF WorkerInv, CopiesInv, Faults
<1>2. /\ UNCHANGED <<published, stream>> /\ Happens("unmarked")
      /\ IsCurrent(t, i) /\ NextRecord(t, i) /\ tick[t].sent
  BY DEF MarkFails
<1>3. Within' /\ Excess' = Excess + 1
  BY <1>1, <1>2, FaultSpends
<1>4. ASSUME NEW n \in Nat PROVE Accounted(n)'
  <2>1. Waiting(n)' = Waiting(n) /\ HaveSent(n)' \in {HaveSent(n), HaveSent(n) \ {t}}
    BY <1>1, <1>2, DoneWith
  <2>2. Accounted(n) /\ Copies(n)' = Copies(n)
    BY <1>2 DEF CopiesInv, Copies
  <2>3. /\ Copies(n) \in Nat /\ Cardinality(Waiting(n)) \in Nat /\ Cardinality(Ticks) \in Nat /\ Excess \in Nat
        /\ Cardinality(HaveSent(n)) \in Nat /\ IsFiniteSet(HaveSent(n))
    BY <1>1, CountFacts, ExcessFacts
  <2>4. Cardinality(HaveSent(n) \ {t}) \in {Cardinality(HaveSent(n)), Cardinality(HaveSent(n)) - 1}
    BY <2>3, FS_RemoveElement
  <2>5. Cardinality(HaveSent(n)') \in {Cardinality(HaveSent(n)), Cardinality(HaveSent(n)) - 1}
    BY <2>1, <2>4
  <2> QED
    BY <1>2, <1>3, <2>1, <2>2, <2>3, <2>5 DEF Accounted
<1> QED
  BY <1>3, <1>4 DEF CopiesInv

(* A crash leaves a copy of each tick to the fault. *)
LEMMA CrashCopies ==
  ASSUME WorkerInv, CopiesInv, Crash
  PROVE  CopiesInv'
<1>1. TypeInv /\ Within /\ "crash" \in Faults
  BY DEF WorkerInv, CopiesInv, Faults
<1>2. tick' = [u \in Ticks |-> NoTick] /\ UNCHANGED <<published, stream>> /\ Happens("crash")
  BY DEF Crash
<1>3. Within' /\ Excess' = Excess + Cardinality(Ticks)
  BY <1>1, <1>2, FaultSpends
<1>4. ASSUME NEW n \in Nat PROVE Accounted(n)'
  <2>1. Waiting(n)' = {} /\ HaveSent(n)' = {}
    BY <1>2 DEF Waiting, HaveSent, IsCurrent, NoTick
  <2>2. Cardinality(Waiting(n)') = 0 /\ Cardinality(HaveSent(n)') = 0
    BY <2>1, FS_EmptySet
  <2>3. Accounted(n) /\ Copies(n)' = Copies(n)
    BY <1>2 DEF CopiesInv, Copies
  <2>4. /\ Copies(n) \in Nat /\ Cardinality(Waiting(n)) \in Nat /\ Cardinality(Ticks) \in Nat /\ Excess \in Nat
        /\ Cardinality(HaveSent(n)) \in Nat
        /\ Cardinality(HaveSent(n)) + Cardinality(Waiting(n)) <= Cardinality(Ticks)
    BY <1>1, CountFacts, ExcessFacts
  <2> QED
    BY <1>2, <1>3, <2>2, <2>3, <2>4 DEF Accounted
<1> QED
  BY <1>3, <1>4 DEF CopiesInv

(* The transactions commit rows and send nothing. *)
LEMMA CopiesRest ==
  ASSUME CopiesInv, UNCHANGED <<published, tick, stream, faults>>
  PROVE  CopiesInv'
<1>1. Within' /\ Excess' = Excess
  BY ExcessRests DEF CopiesInv
<1>2. ASSUME NEW n \in Nat PROVE Accounted(n)'
  <2>1. HaveSent(n)' = HaveSent(n) /\ Waiting(n)' = Waiting(n) /\ Copies(n)' = Copies(n)
    BY DEF HaveSent, Waiting, IsCurrent, Copies
  <2> QED
    BY <1>1, <2>1 DEF CopiesInv, Accounted
<1> QED
  BY <1>1, <1>2 DEF CopiesInv

LEMMA CopiesInvInit == Init => CopiesInv
<1> SUFFICES ASSUME Init PROVE CopiesInv
  OBVIOUS
<1>1. WorkerInv
  BY WorkerInvInit
<1>2. Within
  BY BudgetAssumption DEF BudgetAssumption, Init, Within
<1>3. ASSUME NEW n \in Nat PROVE Accounted(n)
  <2>1. {k \in DOMAIN stream : stream[k] = n} = {} /\ n \notin published
    BY DEF Init
  <2>2. Copies(n) = 0
    BY <2>1, FS_EmptySet DEF Copies
  <2>3. Cardinality(HaveSent(n)) \in Nat /\ Excess \in Nat
    BY <1>1, <1>2, CountFacts, ExcessFacts DEF WorkerInv
  <2> QED
    BY <2>1, <2>2, <2>3 DEF Accounted
<1> QED
  BY <1>2, <1>3 DEF CopiesInv

LEMMA CopiesInvNext ==
  ASSUME WorkerInv, WorkerInv', CopiesInv, [Next]_vars
  PROVE  CopiesInv'
<1>1. DOMAIN outbox \subseteq Nat
  BY RowFacts DEF WorkerInv
<1>2. ASSUME NEW t \in Ticks, NEW i \in DOMAIN outbox,
             \/ Publish(t, i) \/ PublishUnanswered(t, i) \/ PublishRefused(t, i)
             \/ MarkPublished(t, i) \/ MarkFails(t, i)
      PROVE  CopiesInv'
  BY <1>1, <1>2, PublishCopies, PublishUnansweredCopies, PublishRefusedCopies, MarkPublishedCopies,
     MarkFailsCopies
<1>3. CASE Transactions \/ UNCHANGED vars
  BY <1>3, CopiesRest DEF Transactions, workerVars, vars
<1> QED
  BY <1>2, <1>3, StartTickCopies, CrashCopies DEF Next, WorkerNext

(* An event enters the stream once per tick and again for every fault that *)
(* hides a success, and no more often, for any number of ticks and faults: *)
(* "at least once" has an upper bound (worker.ts:16-48).                   *)
THEOREM CopiesAreBounded == Spec => []CopiesBounded
<1>1. ASSUME WorkerInv, CopiesInv PROVE CopiesBounded
  <2> SUFFICES ASSUME NEW i \in DOMAIN outbox
               PROVE  Copies(i) <= Cardinality(Ticks) * (1 + Spent("crash")) + Spent("lost") + Spent("unmarked")
    BY DEF CopiesBounded
  <2>1. TypeInv /\ Within /\ i \in Nat
    BY <1>1, RowFacts DEF WorkerInv, CopiesInv
  <2>2. /\ Copies(i) \in Nat /\ Cardinality(Waiting(i)) \in Nat /\ Cardinality(Ticks) \in Nat /\ Excess \in Nat
        /\ Cardinality(HaveSent(i)) \in Nat
        /\ Cardinality(HaveSent(i)) + Cardinality(Waiting(i)) <= Cardinality(Ticks)
    BY <2>1, CountFacts, ExcessFacts
  <2>3. Copies(i) <= Cardinality(Ticks) + Excess
    BY <1>1, <2>1, <2>2 DEF CopiesInv, Accounted
  <2>4. Spent("crash") \in Nat /\ Spent("lost") \in Nat /\ Spent("unmarked") \in Nat
    BY <2>1, BudgetAssumption DEF BudgetAssumption, TypeInv, Within, Faults, Spent
  <2>5. \A a, b \in Nat : a * (1 + b) = a + a * b /\ a * b \in Nat
    OBVIOUS
  <2>6. Cardinality(Ticks) * (1 + Spent("crash")) = Cardinality(Ticks) + Cardinality(Ticks) * Spent("crash")
    BY <2>2, <2>4, <2>5
  <2>7. Cardinality(Ticks) * Spent("crash") \in Nat
    BY <2>2, <2>4, <2>5
  <2> QED
    BY <2>2, <2>3, <2>4, <2>6, <2>7 DEF Excess
<1>2. WorkerInv /\ CopiesInv /\ WorkerInv' /\ [Next]_vars => CopiesInv'
  BY CopiesInvNext
<1>3. Init => CopiesInv
  BY CopiesInvInit
<1>4. Spec => [](WorkerInv /\ CopiesInv)
  BY <1>2, <1>3, WorkerInvariance, PTL DEF Spec
<1>5. WorkerInv /\ CopiesInv => CopiesBounded
  BY <1>1
<1> QED
  BY <1>4, <1>5, PTL

=============================================================================

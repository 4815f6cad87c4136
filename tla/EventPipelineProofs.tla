------------------------- MODULE EventPipelineProofs -------------------------
(***************************************************************************)
(* Proofs about ComplaintService and the EventPipeline that runs it, for   *)
(* any set of complaints, any number of concurrent requests and any bound  *)
(* on the rows.                                                            *)
(*                                                                         *)
(* The invariant of ComplaintService is inductive only as a whole.  The    *)
(* tables need WritersDoNotInterfere at the commit, where the event of the *)
(* transaction must be the next one of its complaint; that in turn needs   *)
(* the tables.                                                             *)
(*                                                                         *)
(* It also implements ComplaintLifecycle: however many requests run at     *)
(* once and wherever they fail, a complaint moves as if filing and         *)
(* changing it were single steps.  A COMMIT is the step of the abstract    *)
(* specification, and every other statement a stutter.  And it implements  *)
(* OutboxTable, on which OutboxWorker runs: inserting the outbox row,      *)
(* COMMIT and ROLLBACK are the three steps of that one.                    *)
(*                                                                         *)
(* The pipeline runs ComplaintService, OutboxWorker and StreamConsumer, so *)
(* that what is proved of each of them holds in it; put together, the      *)
(* order of the outbox, the order of first copies and the turn of the      *)
(* subscriber give EventDelivery.                                          *)
(***************************************************************************)
EXTENDS EventPipeline, SequenceTheorems, FiniteSetTheorems, TLAPS

TablesOK ==
  /\ OutboxMirrorsHistory
  /\ OutboxInCommitOrder
  /\ StatusIsLastRecorded
  /\ FromWasOnceTheStatus

IInv == TypeOK /\ WritersDoNotInterfere /\ TablesOK

-----------------------------------------------------------------------------
(* NoRow stands for no status. *)
LEMMA StatusFacts ==
  /\ NoRow \notin Status
  /\ "OPEN" \in Status
BY DEF Status, NoRow

(* The empty tables satisfy the invariant. *)
LEMMA InitInv == ServiceInit => IInv
<1> SUFFICES ASSUME ServiceInit PROVE IInv
  OBVIOUS
<1>1. TypeOK
  BY StatusFacts DEF ServiceInit, TypeOK, Idle, Transaction
<1>2. WritersDoNotInterfere
  BY DEF ServiceInit, WritersDoNotInterfere, LockExclusive, HoldsRow, TransactionOK, Idle, Writing
<1>3. TablesOK
  BY DEF ServiceInit, TablesOK, OutboxMirrorsHistory, OutboxInCommitOrder, StatusIsLastRecorded,
         FromWasOnceTheStatus, Committed, NoRow
<1> QED
  BY <1>1, <1>2, <1>3 DEF IInv

-----------------------------------------------------------------------------
(* Steps that touch only the transaction leave the tables as they are. *)
LEMMA TablesUnchanged ==
  ASSUME TablesOK, UNCHANGED <<status, history, outbox>>
  PROVE  TablesOK'
BY DEF TablesOK, OutboxMirrorsHistory, OutboxInCommitOrder, StatusIsLastRecorded,
       FromWasOnceTheStatus, Committed, WasStatus

(* ... and every transaction but the one that moves. *)
LEMMA OthersUnchanged ==
  ASSUME UNCHANGED <<status, history, outbox>>,
         NEW q \in Requests, TransactionOK(q), tx'[q] = tx[q]
  PROVE  TransactionOK(q)'
BY DEF TransactionOK, Committed, WasStatus

(* Nobody can hold the row of a complaint that does not exist yet. *)
LEMMA InsertComplaintInv ==
  ASSUME IInv, NEW r \in Requests, NEW c \in Complaints, InsertComplaint(r, c)
  PROVE  IInv'
<1> USE DEF IInv, WritersDoNotInterfere
<1>1. TypeOK'
  BY StatusFacts DEF InsertComplaint, TypeOK, Transaction, Idle, Writing
<1>2. LockExclusive'
  BY DEF InsertComplaint, LockExclusive, HoldsRow, TypeOK, Transaction, Idle, Writing
<1>3. TransactionOK(r)'
  BY StatusFacts DEF InsertComplaint, TransactionOK, TypeOK, Idle
<1>4. ASSUME NEW q \in Requests, q # r PROVE TransactionOK(q)'
  BY <1>4, OthersUnchanged DEF InsertComplaint, TypeOK
<1>5. TablesOK'
  BY TablesUnchanged DEF InsertComplaint
<1> QED
  BY <1>1, <1>2, <1>3, <1>4, <1>5

(* What findUnique returns is a status the complaint has had. *)
LEMMA LoadComplaintInv ==
  ASSUME IInv, NEW r \in Requests, NEW c \in Complaints, NEW to \in Status,
         LoadComplaint(r, c, to)
  PROVE  IInv'
<1> USE DEF IInv, WritersDoNotInterfere
<1>1. TypeOK'
  BY StatusFacts DEF LoadComplaint, TypeOK, Transaction, Idle, Writing
<1>2. LockExclusive'
  BY DEF LoadComplaint, LockExclusive, HoldsRow, TypeOK, Transaction, Idle, Writing
<1>3. WasStatus(c, status[c])
  BY DEF LoadComplaint, TablesOK, StatusIsLastRecorded, WasStatus, TypeOK
<1>4. TransactionOK(r)'
  BY <1>3, StatusFacts DEF LoadComplaint, TransactionOK, TypeOK, Idle, WasStatus
<1>5. ASSUME NEW q \in Requests, q # r PROVE TransactionOK(q)'
  BY <1>5, OthersUnchanged DEF LoadComplaint, TypeOK
<1>6. TablesOK'
  BY TablesUnchanged DEF LoadComplaint
<1> QED
  BY <1>1, <1>2, <1>4, <1>5, <1>6

(* The row lock keeps every other writer of the complaint out. *)
LEMMA UpdateStatusInv ==
  ASSUME IInv, NEW r \in Requests, UpdateStatus(r)
  PROVE  IInv'
<1> USE DEF IInv, WritersDoNotInterfere
<1>1. TypeOK'
  <2>1. tx[r] \in Transaction
    BY DEF TypeOK
  <2>2. [tx[r] EXCEPT !.pc = "updated"] \in Transaction
    BY <2>1 DEF Transaction, Writing
  <2>3. tx' = [tx EXCEPT ![r] = [tx[r] EXCEPT !.pc = "updated"]]
    BY DEF UpdateStatus
  <2> QED
    BY <2>2, <2>3 DEF UpdateStatus, TypeOK
<1>2. LockExclusive'
  BY DEF UpdateStatus, LockExclusive, HoldsRow, TypeOK, Transaction, Writing
<1>3. TransactionOK(r)'
  <2>1. /\ tx'[r].pc = "updated" /\ tx'[r].cid = tx[r].cid
        /\ tx'[r].from = tx[r].from /\ tx'[r].to = tx[r].to
    BY DEF UpdateStatus, TypeOK, Transaction
  <2>2. TransactionOK(r) /\ tx[r].pc \in {"loaded", "updated"}
    BY DEF UpdateStatus
  <2>3. UNCHANGED <<status, history, outbox>>
    BY DEF UpdateStatus
  <2> QED
    BY <2>1, <2>2, <2>3 DEF TransactionOK, WasStatus
<1>4. ASSUME NEW q \in Requests, q # r PROVE TransactionOK(q)'
  BY <1>4, OthersUnchanged DEF UpdateStatus, TypeOK
<1>5. TablesOK'
  BY TablesUnchanged DEF UpdateStatus
<1> QED
  BY <1>1, <1>2, <1>3, <1>4, <1>5

(* The history row stays inside the transaction. *)
LEMMA RecordHistoryInv ==
  ASSUME IInv, NEW r \in Requests, RecordHistory(r)
  PROVE  IInv'
<1> USE DEF IInv, WritersDoNotInterfere
<1>1. TypeOK'
  <2>1. tx[r] \in Transaction
    BY DEF TypeOK
  <2>2. [tx[r] EXCEPT !.pc = "recorded"] \in Transaction
    BY <2>1 DEF Transaction, Writing
  <2>3. tx' = [tx EXCEPT ![r] = [tx[r] EXCEPT !.pc = "recorded"]]
    BY DEF RecordHistory
  <2> QED
    BY <2>2, <2>3 DEF RecordHistory, TypeOK
<1>2. LockExclusive'
  BY DEF RecordHistory, LockExclusive, HoldsRow, TypeOK, Transaction, Writing
<1>3. TransactionOK(r)'
  <2>1. /\ tx'[r].pc = "recorded" /\ tx'[r].cid = tx[r].cid
        /\ tx'[r].from = tx[r].from /\ tx'[r].to = tx[r].to
    BY DEF RecordHistory, TypeOK, Transaction
  <2>2. TransactionOK(r) /\ tx[r].pc \in {"loaded", "updated"}
    BY DEF RecordHistory
  <2>3. UNCHANGED <<status, history, outbox>>
    BY DEF RecordHistory
  <2> QED
    BY <2>1, <2>2, <2>3 DEF TransactionOK, WasStatus
<1>4. ASSUME NEW q \in Requests, q # r PROVE TransactionOK(q)'
  BY <1>4, OthersUnchanged DEF RecordHistory, TypeOK
<1>5. TablesOK'
  BY TablesUnchanged DEF RecordHistory
<1> QED
  BY <1>1, <1>2, <1>3, <1>4, <1>5

-----------------------------------------------------------------------------
(* The insertion of the outbox row, and its removal by a rollback, leave   *)
(* what is committed alone.                                                *)
LEMMA SameCommitted ==
  ASSUME TablesOK, UNCHANGED <<status, history>>, Committed' = Committed,
         \A i \in Committed : outbox'[i] = outbox[i]
  PROVE  TablesOK'
BY DEF TablesOK, OutboxMirrorsHistory, OutboxInCommitOrder, StatusIsLastRecorded,
       FromWasOnceTheStatus, WasStatus

(* The row of a transaction is its own. *)
LEMMA OwnRow ==
  ASSUME NEW r \in Requests, TransactionOK(r), tx[r].pc = "outboxed"
  PROVE  /\ tx[r].row \in DOMAIN outbox
         /\ tx[r].cid \in Complaints
         /\ outbox[tx[r].row].cid = tx[r].cid
         /\ outbox[tx[r].row].from = tx[r].from
         /\ outbox[tx[r].row].to = tx[r].to
         /\ outbox[tx[r].row].n = IF tx[r].from = NoRow THEN 0 ELSE Len(history[tx[r].cid]) + 1
         /\ outbox[tx[r].row].state = "pending"
         /\ \A i \in Committed : outbox[i].cid = tx[r].cid => i < tx[r].row
BY DEF TransactionOK

(* the row that WriteOutbox inserts *)
NewRow(r) ==
  [ cid |-> tx[r].cid, from |-> tx[r].from, to |-> tx[r].to, state |-> "pending",
    n |-> IF IsChange(r) THEN Len(history[tx[r].cid]) + 1 ELSE 0 ]

(* The new row is the last one, and nobody else sees it. *)
LEMMA WriteOutboxEffect ==
  ASSUME IInv, NEW r \in Requests, WriteOutbox(r)
  PROVE  /\ tx[r].cid \in Complaints /\ tx[r].to \in Status
         /\ NewRow(r) \in OutboxRow
         /\ outbox' = Append(outbox, NewRow(r)) /\ UNCHANGED <<status, history>>
         /\ Len(outbox) \in Nat
         /\ DOMAIN outbox' = DOMAIN outbox \cup {Len(outbox) + 1}
         /\ \A i \in DOMAIN outbox : outbox'[i] = outbox[i] /\ i < Len(outbox) + 1
         /\ outbox'[Len(outbox) + 1] = NewRow(r)
         /\ Committed' = Committed
<1> USE DEF IInv, WritersDoNotInterfere
<1>1. tx[r].cid \in Complaints /\ tx[r].to \in Status
  BY DEF WriteOutbox, TransactionOK, TypeOK, Transaction
<1>2. NewRow(r) \in OutboxRow
  BY <1>1 DEF TypeOK, OutboxRow, Transaction, NewRow
<1>3. outbox' = Append(outbox, NewRow(r)) /\ UNCHANGED <<status, history>>
  BY DEF WriteOutbox, NewRow
<1>4. /\ Len(outbox) \in Nat
      /\ DOMAIN outbox' = DOMAIN outbox \cup {Len(outbox) + 1}
      /\ \A i \in DOMAIN outbox : outbox'[i] = outbox[i] /\ i < Len(outbox) + 1
      /\ outbox'[Len(outbox) + 1] = NewRow(r)
  BY <1>2, <1>3 DEF TypeOK
<1>5. Committed' = Committed
  BY <1>4 DEF Committed, NewRow
<1> QED
  BY <1>1, <1>2, <1>3, <1>4, <1>5

(* It comes after every committed event of its complaint. *)
LEMMA WriteOutboxInv ==
  ASSUME IInv, NEW r \in Requests, WriteOutbox(r)
  PROVE  IInv'
<1> USE DEF IInv, WritersDoNotInterfere
<1>1. tx[r].cid \in Complaints /\ tx[r].to \in Status
  BY WriteOutboxEffect
<1>2. NewRow(r) \in OutboxRow
  BY WriteOutboxEffect
<1>3. outbox' = Append(outbox, NewRow(r)) /\ UNCHANGED <<status, history>>
  BY WriteOutboxEffect
<1>4. tx' = [tx EXCEPT ![r].pc = "outboxed", ![r].row = Len(outbox) + 1]
  BY DEF WriteOutbox
<1>5. /\ Len(outbox) \in Nat
      /\ DOMAIN outbox' = DOMAIN outbox \cup {Len(outbox) + 1}
      /\ \A i \in DOMAIN outbox : outbox'[i] = outbox[i] /\ i < Len(outbox) + 1
      /\ outbox'[Len(outbox) + 1] = NewRow(r)
  BY WriteOutboxEffect
<1>6. Committed' = Committed
  BY WriteOutboxEffect
<1>7. TypeOK'
  <2>1. outbox' \in Seq(OutboxRow)
    BY <1>2, <1>3 DEF TypeOK
  <2>2. tx' \in [Requests -> Transaction]
    <3> DEFINE s == [tx[r] EXCEPT !.pc = "outboxed"]
               t == [s EXCEPT !.row = Len(outbox) + 1]
    <3>1. s \in Transaction
      BY DEF TypeOK, Transaction, Writing
    <3>2. tx' = [tx EXCEPT ![r] = t]
      BY <1>4
    <3> HIDE DEF s
    <3>3. t \in Transaction
      BY <1>5, <3>1 DEF Transaction
    <3> HIDE DEF t
    <3> QED
      BY <3>2, <3>3 DEF TypeOK
  <2> QED
    BY <1>3, <2>1, <2>2 DEF TypeOK
<1>8. LockExclusive'
  BY <1>4 DEF WriteOutbox, LockExclusive, HoldsRow, TypeOK, Transaction, Writing
<1>9. TransactionOK(r)'
  <2>1. /\ tx'[r].pc = "outboxed" /\ tx'[r].row = Len(outbox) + 1
        /\ tx'[r].cid = tx[r].cid /\ tx'[r].from = tx[r].from /\ tx'[r].to = tx[r].to
    BY <1>4 DEF TypeOK, Transaction
  <2>2. TransactionOK(r) /\ tx[r].pc \in {"inserted", "recorded"}
    BY DEF WriteOutbox
  <2>3. outbox'[Len(outbox) + 1] =
          [ cid |-> tx[r].cid, from |-> tx[r].from, to |-> tx[r].to, state |-> "pending",
            n |-> IF tx[r].from = NoRow THEN 0 ELSE Len(history[tx[r].cid]) + 1 ]
    BY <1>5 DEF NewRow, IsChange
  <2>4. Len(outbox) + 1 \in DOMAIN outbox' /\ \A i \in Committed' : i < Len(outbox) + 1
    BY <1>5, <1>6 DEF Committed
  <2> QED
    BY <1>3, <2>1, <2>2, <2>3, <2>4 DEF TransactionOK, WasStatus
<1>10. ASSUME NEW q \in Requests, q # r PROVE TransactionOK(q)'
  <2>1. tx'[q] = tx[q] /\ TransactionOK(q)
    BY <1>4, <1>10 DEF TypeOK
  <2>2. \A i \in Committed' : i \in Committed /\ outbox'[i] = outbox[i]
    BY <1>5, <1>6 DEF Committed
  <2>3. \A i \in DOMAIN outbox : i \in DOMAIN outbox' /\ outbox'[i] = outbox[i]
    BY <1>5
  <2>4. UNCHANGED <<status, history>>
    BY <1>3
  <2>5. TransactionOK(q)'
    <3>1. CASE tx[q].pc = "outboxed"
      <4>1. tx[q].row \in DOMAIN outbox' /\ outbox'[tx[q].row] = outbox[tx[q].row]
        BY <2>1, <2>3, <3>1, OwnRow
      <4>2. \A i \in Committed' : outbox'[i].cid = tx[q].cid => i < tx[q].row
        BY <2>1, <2>2, <3>1, OwnRow
      <4> QED
        BY <2>1, <2>4, <3>1, <4>1, <4>2 DEF TransactionOK, WasStatus
    <3>2. CASE tx[q].pc # "outboxed"
      BY <2>1, <2>4, <3>2 DEF TransactionOK, WasStatus
    <3> QED
      BY <3>1, <3>2
  <2> QED
    BY <2>5
<1>11. TablesOK'
  BY <1>3, <1>5, <1>6, SameCommitted DEF Committed
<1> QED
  BY <1>7, <1>8, <1>9, <1>10, <1>11

(* A transaction that ends writes its row's final state. *)
LEMMA RowUpdated ==
  ASSUME TypeOK, NEW k \in DOMAIN outbox, NEW s \in {"committed", "aborted"},
         outbox' = [outbox EXCEPT ![k].state = s]
  PROVE  /\ outbox' \in Seq(OutboxRow)
         /\ DOMAIN outbox' = DOMAIN outbox
         /\ outbox'[k].state = s
         /\ outbox'[k].cid = outbox[k].cid /\ outbox'[k].n = outbox[k].n
         /\ outbox'[k].from = outbox[k].from /\ outbox'[k].to = outbox[k].to
         /\ \A i \in DOMAIN outbox : i # k => outbox'[i] = outbox[i]
<1> DEFINE row == [outbox[k] EXCEPT !.state = s]
<1>1. outbox[k] \in OutboxRow
  BY DEF TypeOK
<1>2. row \in OutboxRow /\ row.state = s
      /\ row.cid = outbox[k].cid /\ row.n = outbox[k].n
      /\ row.from = outbox[k].from /\ row.to = outbox[k].to
  BY <1>1 DEF OutboxRow
<1>3. outbox' = [outbox EXCEPT ![k] = row]
  BY DEF TypeOK
<1> HIDE DEF row
<1>4. outbox' \in Seq(OutboxRow)
  <2>1. outbox \in Seq(OutboxRow) /\ k \in 1 .. Len(outbox)
    BY DEF TypeOK
  <2>2. [outbox EXCEPT ![k] = row] \in Seq(OutboxRow)
    BY <1>2, <2>1, ExceptSeq, Zenon
  <2> QED
    BY <1>3, <2>2, Zenon
<1>5. /\ DOMAIN outbox' = DOMAIN outbox
      /\ outbox'[k] = row
      /\ \A i \in DOMAIN outbox : i # k => outbox'[i] = outbox[i]
  BY <1>3
<1> QED
  BY <1>2, <1>4, <1>5

(* Two transactions that have written their rows are about two complaints. *)
LEMMA RowsDiffer ==
  ASSUME WritersDoNotInterfere, NEW q \in Requests, NEW r \in Requests, q # r,
         tx[q].pc = "outboxed", tx[r].pc = "outboxed"
  PROVE  tx[q].row # tx[r].row /\ tx[q].cid # tx[r].cid
<1>1. tx[q].cid # tx[r].cid
  BY OwnRow DEF WritersDoNotInterfere, LockExclusive, HoldsRow, Writing
<1> QED
  BY <1>1, OwnRow DEF WritersDoNotInterfere

(* A rollback changes at most the row of its transaction, which nobody     *)
(* reads before or after.                                                  *)
LEMMA RollbackEffect ==
  ASSUME IInv, NEW r \in Requests, Rollback(r)
  PROVE  /\ outbox' \in Seq(OutboxRow)
         /\ DOMAIN outbox' = DOMAIN outbox
         /\ \A i \in DOMAIN outbox :
              i # tx[r].row \/ tx[r].pc # "outboxed" => outbox'[i] = outbox[i]
         /\ tx[r].pc = "outboxed" => outbox'[tx[r].row].state = "aborted"
         /\ Committed' = Committed /\ \A i \in Committed : outbox'[i] = outbox[i]
<1> USE DEF IInv, WritersDoNotInterfere
<1>1. /\ outbox' \in Seq(OutboxRow)
      /\ DOMAIN outbox' = DOMAIN outbox
      /\ \A i \in DOMAIN outbox :
           i # tx[r].row \/ tx[r].pc # "outboxed" => outbox'[i] = outbox[i]
      /\ tx[r].pc = "outboxed" => outbox'[tx[r].row].state = "aborted"
  <2>1. CASE tx[r].pc = "outboxed"
    BY <2>1, RowUpdated DEF Rollback, TransactionOK
  <2>2. CASE tx[r].pc # "outboxed"
    BY <2>2 DEF Rollback, TypeOK
  <2> QED
    BY <2>1, <2>2
<1>2. Committed' = Committed /\ \A i \in Committed : outbox'[i] = outbox[i]
  <2>1. CASE tx[r].pc = "outboxed"
    BY <1>1, <2>1, OwnRow DEF Committed
  <2>2. CASE tx[r].pc # "outboxed"
    BY <1>1, <2>2 DEF Committed
  <2> QED
    BY <2>1, <2>2
<1> QED
  BY <1>1, <1>2

(* The other transactions keep their rows. *)
LEMMA RollbackInv ==
  ASSUME IInv, NEW r \in Requests, Rollback(r)
  PROVE  IInv'
<1> USE DEF IInv, WritersDoNotInterfere
<1>1. /\ outbox' \in Seq(OutboxRow)
      /\ DOMAIN outbox' = DOMAIN outbox
      /\ \A i \in DOMAIN outbox :
           i # tx[r].row \/ tx[r].pc # "outboxed" => outbox'[i] = outbox[i]
      /\ tx[r].pc = "outboxed" => outbox'[tx[r].row].state = "aborted"
  BY RollbackEffect
<1>2. Committed' = Committed /\ \A i \in Committed : outbox'[i] = outbox[i]
  BY RollbackEffect
<1>3. TypeOK'
  BY <1>1, StatusFacts DEF Rollback, TypeOK, Transaction, Idle
<1>4. LockExclusive'
  BY DEF Rollback, LockExclusive, HoldsRow, TypeOK, Idle, Writing
<1>5. TransactionOK(r)'
  BY DEF Rollback, TransactionOK, TypeOK, Idle
<1>6. ASSUME NEW q \in Requests, q # r PROVE TransactionOK(q)'
  <2>1. tx'[q] = tx[q] /\ UNCHANGED <<status, history>>
    BY <1>6 DEF Rollback, TypeOK
  <2>2. tx[q].pc = "outboxed" => outbox'[tx[q].row] = outbox[tx[q].row]
    BY <1>1, <1>6, OwnRow, RowsDiffer
  <2> QED
    BY <1>1, <1>2, <2>1, <2>2 DEF TransactionOK, WasStatus
<1>7. TablesOK'
  BY <1>2, SameCommitted DEF Rollback
<1> QED
  BY <1>3, <1>4, <1>5, <1>6, <1>7

(* What a commit does to the tables, given what the transaction knows. *)
LEMMA CommitEffect ==
  ASSUME IInv, NEW r \in Requests, Commit(r)
  PROVE  /\ tx[r].pc = "outboxed" /\ TransactionOK(r)
         /\ tx[r].cid \in Complaints /\ tx[r].to \in Status
         /\ tx[r].from \in Status \cup {NoRow}
         /\ tx[r].row \in DOMAIN outbox
         /\ outbox[tx[r].row].cid = tx[r].cid
         /\ outbox[tx[r].row].from = tx[r].from /\ outbox[tx[r].row].to = tx[r].to
         /\ outbox[tx[r].row].n =
              IF tx[r].from = NoRow THEN 0 ELSE Len(history[tx[r].cid]) + 1
         /\ \A i \in Committed : outbox[i].cid = tx[r].cid => i < tx[r].row
         /\ outbox' \in Seq(OutboxRow)
         /\ DOMAIN outbox' = DOMAIN outbox
         /\ outbox[tx[r].row].state = "pending"
         /\ outbox'[tx[r].row].state = "committed"
         /\ outbox'[tx[r].row].cid = tx[r].cid
         /\ outbox'[tx[r].row].n = outbox[tx[r].row].n
         /\ outbox'[tx[r].row].from = tx[r].from
         /\ outbox'[tx[r].row].to = tx[r].to
         /\ \A i \in DOMAIN outbox : i # tx[r].row => outbox'[i] = outbox[i]
         /\ Committed' = Committed \cup {tx[r].row} /\ tx[r].row \notin Committed
         /\ status' \in [Complaints -> Status \cup {NoRow}]
         /\ status'[tx[r].cid] = tx[r].to
         /\ \A d \in Complaints : d # tx[r].cid => status'[d] = status[d]
         /\ history' \in [Complaints -> Seq(HistoryRow)]
         /\ history'[tx[r].cid] =
              IF tx[r].from # NoRow
                THEN Append(history[tx[r].cid], [from |-> tx[r].from, to |-> tx[r].to])
                ELSE history[tx[r].cid]
         /\ \A d \in Complaints : d # tx[r].cid => history'[d] = history[d]
<1> USE DEF IInv, WritersDoNotInterfere
<1> DEFINE c == tx[r].cid
           k == tx[r].row
           new == [from |-> tx[r].from, to |-> tx[r].to]
<1>1. /\ tx[r].pc = "outboxed" /\ TransactionOK(r)
      /\ c \in Complaints /\ tx[r].to \in Status
      /\ tx[r].from \in Status \cup {NoRow}
  BY DEF Commit, TransactionOK, TypeOK, Transaction
<1>2. /\ k \in DOMAIN outbox /\ outbox[k].state = "pending"
      /\ outbox[k].cid = c /\ outbox[k].from = tx[r].from /\ outbox[k].to = tx[r].to
      /\ outbox[k].n = IF tx[r].from = NoRow THEN 0 ELSE Len(history[c]) + 1
      /\ \A i \in Committed : outbox[i].cid = c => i < k
  BY <1>1, OwnRow
<1>3. /\ outbox' \in Seq(OutboxRow)
      /\ DOMAIN outbox' = DOMAIN outbox
      /\ outbox'[k].state = "committed"
      /\ outbox'[k].cid = c /\ outbox'[k].n = outbox[k].n
      /\ outbox'[k].from = tx[r].from /\ outbox'[k].to = tx[r].to
      /\ \A i \in DOMAIN outbox : i # k => outbox'[i] = outbox[i]
  BY <1>2, RowUpdated DEF Commit
<1>4. Committed' = Committed \cup {k} /\ k \notin Committed
  BY <1>2, <1>3 DEF Committed
<1>5. /\ status' \in [Complaints -> Status \cup {NoRow}]
      /\ status'[c] = tx[r].to
      /\ \A d \in Complaints : d # c => status'[d] = status[d]
  BY <1>1 DEF Commit, TypeOK
<1>6. /\ history' \in [Complaints -> Seq(HistoryRow)]
      /\ history'[c] = IF tx[r].from # NoRow THEN Append(history[c], new) ELSE history[c]
      /\ \A d \in Complaints : d # c => history'[d] = history[d]
  <2>1. CASE tx[r].from = NoRow
    BY <1>1, <2>1 DEF Commit, TypeOK, IsChange
  <2>2. CASE tx[r].from # NoRow
    <3>1. new \in HistoryRow
      BY <1>1, <2>2 DEF HistoryRow
    <3>2. history[c] \in Seq(HistoryRow)
      BY <1>1 DEF TypeOK
    <3>3. Append(history[c], new) \in Seq(HistoryRow)
      BY <3>1, <3>2
    <3>4. history' = [history EXCEPT ![c] = Append(history[c], new)]
      BY <2>2 DEF Commit, IsChange
    <3> QED
      BY <1>1, <2>2, <3>3, <3>4 DEF TypeOK
  <2> QED
    BY <2>1, <2>2
<1> QED
  BY <1>1, <1>2, <1>3, <1>4, <1>5, <1>6

(* What the transaction wrote is the next change of its complaint. *)
LEMMA CommitInv ==
  ASSUME IInv, NEW r \in Requests, Commit(r)
  PROVE  IInv'
<1> USE DEF IInv, WritersDoNotInterfere
<1> DEFINE c == tx[r].cid
           k == tx[r].row
           new == [from |-> tx[r].from, to |-> tx[r].to]
<1>1. /\ tx[r].pc = "outboxed" /\ TransactionOK(r)
      /\ c \in Complaints /\ tx[r].to \in Status
      /\ tx[r].from \in Status \cup {NoRow}
  BY CommitEffect
<1>2. /\ k \in DOMAIN outbox /\ outbox[k].state = "pending"
      /\ outbox[k].cid = c /\ outbox[k].from = tx[r].from /\ outbox[k].to = tx[r].to
      /\ outbox[k].n = IF tx[r].from = NoRow THEN 0 ELSE Len(history[c]) + 1
      /\ \A i \in Committed : outbox[i].cid = c => i < k
  BY CommitEffect
<1>3. /\ outbox' \in Seq(OutboxRow)
      /\ DOMAIN outbox' = DOMAIN outbox
      /\ outbox'[k].state = "committed"
      /\ outbox'[k].cid = c /\ outbox'[k].n = outbox[k].n
      /\ outbox'[k].from = tx[r].from /\ outbox'[k].to = tx[r].to
      /\ \A i \in DOMAIN outbox : i # k => outbox'[i] = outbox[i]
  BY CommitEffect
<1>4. Committed' = Committed \cup {k} /\ k \notin Committed
  BY CommitEffect
<1>5. /\ status' \in [Complaints -> Status \cup {NoRow}]
      /\ status'[c] = tx[r].to
      /\ \A d \in Complaints : d # c => status'[d] = status[d]
  BY CommitEffect
<1>6. /\ history' \in [Complaints -> Seq(HistoryRow)]
      /\ history'[c] = IF tx[r].from # NoRow THEN Append(history[c], new) ELSE history[c]
      /\ \A d \in Complaints : d # c => history'[d] = history[d]
  BY CommitEffect
<1>7. tx' \in [Requests -> Transaction] /\ tx'[r] = Idle
      /\ \A q \in Requests : q # r => tx'[q] = tx[q]
  BY StatusFacts DEF Commit, TypeOK, Transaction, Idle
<1>8. TypeOK'
  BY <1>3, <1>5, <1>6, <1>7 DEF TypeOK
<1>9. LockExclusive'
  BY <1>7 DEF LockExclusive, HoldsRow, Idle, Writing
<1>10. history[c] \in Seq(HistoryRow)
  BY <1>1 DEF TypeOK
<1>11. /\ Len(history[c]) \in Nat /\ DOMAIN history[c] = 1 .. Len(history[c])
       /\ \A j \in DOMAIN history[c] :
            j \in DOMAIN history'[c] /\ history'[c][j] = history[c][j]
       /\ tx[r].from = NoRow => history'[c] = history[c]
       /\ tx[r].from # NoRow =>
            /\ Len(history'[c]) = Len(history[c]) + 1
            /\ DOMAIN history'[c] = 1 .. Len(history[c]) + 1
            /\ history'[c][Len(history[c]) + 1] = new
  <2>1. CASE tx[r].from = NoRow
    BY <1>6, <1>10, <2>1
  <2>2. CASE tx[r].from # NoRow
    <3>1. new \in HistoryRow
      BY <1>1, <2>2 DEF HistoryRow
    <3> QED
      BY <1>6, <1>10, <2>2, <3>1
  <2> QED
    BY <2>1, <2>2
<1>12. TransactionOK(r)'
  BY <1>7 DEF TransactionOK, Idle
<1>13. ASSUME NEW q \in Requests, q # r PROVE TransactionOK(q)'
  <2> SUFFICES ASSUME tx[q].pc # "idle" PROVE TransactionOK(q)'
    BY <1>7, <1>13 DEF TransactionOK
  <2> DEFINE d == tx[q].cid
  <2>1. /\ tx'[q] = tx[q] /\ TransactionOK(q) /\ d \in Complaints
        /\ tx[q].from \in Status \cup {NoRow}
    BY <1>7, <1>13 DEF TransactionOK, TypeOK, Transaction
  <2>2. CASE tx[q].pc = "outboxed"
    <3>1. tx[q].row # k /\ d # c
      BY <1>1, <1>13, <2>2, RowsDiffer
    <3>2. status'[d] = status[d] /\ history'[d] = history[d]
      BY <1>5, <1>6, <2>1, <3>1
    <3>3. /\ outbox'[tx[q].row] = outbox[tx[q].row]
          /\ \A i \in Committed' : outbox'[i].cid = d => i < tx[q].row
      BY <1>3, <1>4, <2>1, <2>2, <3>1, OwnRow DEF Committed
    <3> QED
      BY <1>3, <2>1, <2>2, <3>2, <3>3 DEF TransactionOK, WasStatus
  <2>3. CASE tx[q].pc # "outboxed" /\ d # c
    BY <1>5, <1>6, <2>1, <2>3 DEF TransactionOK, WasStatus
  <2>4. CASE tx[q].pc # "outboxed" /\ d = c
    <3>1. tx[q].from # NoRow
      BY <1>1, <1>13, <2>1, <2>4 DEF TransactionOK, LockExclusive, HoldsRow, Writing
    <3>2. \/ tx[q].from = "OPEN"
          \/ \E n \in DOMAIN history'[c] : history'[c][n].to = tx[q].from
      BY <1>11, <2>1, <2>4, <3>1 DEF TransactionOK, WasStatus
    <3>3. status'[c] # NoRow
      BY <1>1, <1>5, StatusFacts
    <3> QED
      BY <2>1, <2>4, <3>1, <3>2, <3>3 DEF TransactionOK, WasStatus
  <2> QED
    BY <2>2, <2>3, <2>4
<1>14. OutboxMirrorsHistory'
  <2> SUFFICES ASSUME NEW d \in Complaints
               PROVE  /\ status'[d] # NoRow =>
                           \E i \in Committed' : outbox'[i].cid = d /\ outbox'[i].n = 0
                      /\ \A m \in DOMAIN history'[d] : \E i \in Committed' :
                           /\ outbox'[i].cid = d
                           /\ outbox'[i].n = m
                           /\ outbox'[i].from = history'[d][m].from
                           /\ outbox'[i].to = history'[d][m].to
                      /\ \A i \in Committed' : outbox'[i].cid = d =>
                           status'[d] # NoRow /\ outbox'[i].n <= Len(history'[d])
    BY DEF OutboxMirrorsHistory
  <2>1. \A i \in Committed : i \in Committed' /\ outbox'[i] = outbox[i]
    BY <1>3, <1>4 DEF Committed
  <2>2. d # c => status'[d] = status[d] /\ history'[d] = history[d]
    BY <1>5, <1>6
  <2>3. /\ status[d] # NoRow => \E i \in Committed : outbox[i].cid = d /\ outbox[i].n = 0
        /\ \A m \in DOMAIN history[d] : \E i \in Committed :
             /\ outbox[i].cid = d
             /\ outbox[i].n = m
             /\ outbox[i].from = history[d][m].from
             /\ outbox[i].to = history[d][m].to
        /\ \A i \in Committed : outbox[i].cid = d =>
             status[d] # NoRow /\ outbox[i].n <= Len(history[d])
    BY DEF TablesOK, OutboxMirrorsHistory
  <2>4. tx[r].from # NoRow <=> status[c] # NoRow
    BY <1>1 DEF TransactionOK
  <2>5. ASSUME status'[d] # NoRow
        PROVE  \E i \in Committed' : outbox'[i].cid = d /\ outbox'[i].n = 0
    <3>1. CASE d # c \/ tx[r].from # NoRow
      BY <2>1, <2>2, <2>3, <2>4, <2>5, <3>1
    <3>2. CASE d = c /\ tx[r].from = NoRow
      BY <1>2, <1>3, <1>4, <3>2
    <3> QED
      BY <3>1, <3>2
  <2>6. ASSUME NEW m \in DOMAIN history'[d]
        PROVE  \E i \in Committed' :
                 /\ outbox'[i].cid = d
                 /\ outbox'[i].n = m
                 /\ outbox'[i].from = history'[d][m].from
                 /\ outbox'[i].to = history'[d][m].to
    <3>1. CASE m \in DOMAIN history[d]
      <4>1. history'[d][m] = history[d][m]
        BY <1>11, <2>2, <3>1
      <4> QED
        BY <2>1, <2>3, <3>1, <4>1
    <3>2. CASE m \notin DOMAIN history[d]
      <4>1. d = c /\ tx[r].from # NoRow /\ m = Len(history[c]) + 1
        BY <1>11, <2>2, <2>6, <3>2
      <4>2. history'[d][m].from = tx[r].from /\ history'[d][m].to = tx[r].to
        BY <1>11, <4>1
      <4>3. k \in Committed' /\ outbox'[k].n = m
        BY <1>2, <1>3, <1>4, <4>1
      <4> QED
        BY <1>3, <4>1, <4>2, <4>3
    <3> QED
      BY <3>1, <3>2
  <2>7. ASSUME NEW i \in Committed', outbox'[i].cid = d
        PROVE  status'[d] # NoRow /\ outbox'[i].n <= Len(history'[d])
    <3>1. CASE i \in Committed
      <4>1. outbox[i].n \in Nat
        <5>1. outbox[i] \in OutboxRow
          BY <3>1 DEF Committed, TypeOK
        <5> QED
          BY <5>1 DEF OutboxRow
      <4>2. status[d] # NoRow /\ outbox[i].n <= Len(history[d]) /\ outbox'[i] = outbox[i]
        BY <2>1, <2>3, <2>7, <3>1
      <4>3. CASE d # c
        BY <2>2, <4>2, <4>3
      <4>4. CASE d = c
        <5>1. status'[c] # NoRow
          BY <1>1, <1>5, StatusFacts
        <5>2. Len(history'[c]) = Len(history[c]) + 1
          BY <1>11, <2>4, <4>2, <4>4
        <5> QED
          BY <1>11, <4>1, <4>2, <4>4, <5>1, <5>2
      <4> QED
        BY <4>3, <4>4
    <3>2. CASE i = k
      BY <1>1, <1>2, <1>3, <1>5, <1>11, <2>7, <3>2, StatusFacts
    <3> QED
      BY <1>4, <2>7, <3>1, <3>2
  <2> QED
    BY <2>5, <2>6, <2>7
<1>15. OutboxInCommitOrder'
  <2> SUFFICES ASSUME NEW i \in Committed', NEW j \in Committed', i < j,
                      outbox'[i].cid = outbox'[j].cid
               PROVE  outbox'[i].n < outbox'[j].n
    BY DEF OutboxInCommitOrder
  <2>1. CASE i \in Committed /\ j \in Committed
    BY <1>3, <1>4, <2>1 DEF TablesOK, OutboxInCommitOrder, Committed
  <2>2. CASE i = k /\ j \in Committed
    BY <1>2, <1>3, <1>4, <2>2 DEF Committed, TypeOK
  <2>3. CASE i \in Committed /\ j = k
    <3>1. outbox[i].cid = c /\ outbox'[i].n = outbox[i].n
      BY <1>3, <1>4, <2>3 DEF Committed
    <3>2. status[c] # NoRow /\ outbox[i].n <= Len(history[c])
      BY <1>1, <2>3, <3>1 DEF TablesOK, OutboxMirrorsHistory
    <3>3. outbox'[k].n = Len(history[c]) + 1
      BY <1>1, <1>2, <1>3, <3>2 DEF TransactionOK
    <3>4. outbox[i].n \in Nat
      <4>1. outbox[i] \in OutboxRow
        BY <2>3 DEF Committed, TypeOK
      <4> QED
        BY <4>1 DEF OutboxRow
    <3> QED
      BY <1>11, <2>3, <3>1, <3>2, <3>3, <3>4
  <2>4. CASE i = k /\ j = k
    BY <1>2, <2>4 DEF TypeOK
  <2> QED
    BY <1>4, <2>1, <2>2, <2>3, <2>4
<1>16. StatusIsLastRecorded'
  <2> SUFFICES ASSUME NEW d \in Complaints
               PROVE  IF history'[d] = <<>>
                        THEN status'[d] \in {NoRow, "OPEN"}
                        ELSE status'[d] = history'[d][Len(history'[d])].to
    BY DEF StatusIsLastRecorded
  <2>1. CASE d # c
    BY <1>5, <1>6, <2>1 DEF TablesOK, StatusIsLastRecorded
  <2>2. CASE d = c /\ tx[r].from = NoRow
    <3>1. status[c] = NoRow /\ tx[r].to = "OPEN"
      BY <1>1, <2>2 DEF TransactionOK
    <3>2. history[c] = <<>>
      <4> SUFFICES ASSUME history[c] # <<>> PROVE FALSE
        OBVIOUS
      <4>1. history[c][Len(history[c])] \in HistoryRow
        BY <1>10
      <4>2. history[c][Len(history[c])].to = NoRow
        BY <1>1, <3>1 DEF TablesOK, StatusIsLastRecorded
      <4> QED
        BY <4>1, <4>2, StatusFacts DEF HistoryRow
    <3> QED
      BY <1>5, <1>11, <2>2, <3>1, <3>2
  <2>3. CASE d = c /\ tx[r].from # NoRow
    BY <1>5, <1>11, <2>3
  <2> QED
    BY <2>1, <2>2, <2>3
<1>17. FromWasOnceTheStatus'
  <2> SUFFICES ASSUME NEW d \in Complaints, NEW m \in DOMAIN history'[d]
               PROVE  /\ ValidTransition(history'[d][m].from, history'[d][m].to)
                      /\ \/ history'[d][m].from = "OPEN"
                         \/ \E j \in 1 .. m - 1 : history'[d][j].to = history'[d][m].from
    BY DEF FromWasOnceTheStatus
  <2>1. CASE d # c
    <3>1. history'[d] = history[d]
      BY <1>6, <2>1
    <3>2. m \in DOMAIN history[d]
      BY <3>1
    <3> QED
      BY <3>1, <3>2 DEF TablesOK, FromWasOnceTheStatus
  <2>2. CASE d = c /\ m \in DOMAIN history[c]
    <3>1. /\ ValidTransition(history[c][m].from, history[c][m].to)
          /\ \/ history[c][m].from = "OPEN"
             \/ \E j \in 1 .. m - 1 : history[c][j].to = history[c][m].from
      BY <2>2 DEF TablesOK, FromWasOnceTheStatus
    <3>2. m \in 1 .. Len(history[c]) /\ Len(history[c]) \in Nat
      BY <1>11, <2>2
    <3>3. /\ history'[d][m] = history[c][m]
          /\ \A j \in 1 .. m - 1 : history'[d][j] = history[c][j]
      <4>1. m \in DOMAIN history[c] /\ \A j \in 1 .. m - 1 : j \in DOMAIN history[c]
        BY <1>11, <2>2, <3>2
      <4> QED
        BY <1>11, <2>2, <4>1
    <3> QED
      BY <3>1, <3>3
  <2>3. CASE d = c /\ m \notin DOMAIN history[c]
    <3>1. tx[r].from # NoRow /\ m = Len(history[c]) + 1 /\ history'[d][m] = new
      <4>1. m \in DOMAIN history'[c]
        BY <2>3
      <4>2. tx[r].from # NoRow
        <5>1. tx[r].from = NoRow => history'[c] = history[c]
          BY <1>11
        <5> QED
          BY <2>3, <4>1, <5>1
      <4>3. m = Len(history[c]) + 1
        <5>1. /\ Len(history[c]) \in Nat /\ DOMAIN history[c] = 1 .. Len(history[c])
              /\ DOMAIN history'[c] = 1 .. Len(history[c]) + 1
          BY <1>11, <4>2
        <5> QED
          BY <2>3, <4>1, <5>1
      <4> QED
        BY <1>11, <2>3, <4>2, <4>3
    <3>2. ValidTransition(tx[r].from, tx[r].to) /\ WasStatus(c, tx[r].from)
      BY <1>1, <3>1 DEF TransactionOK
    <3>3. ASSUME NEW j \in DOMAIN history[c], history[c][j].to = tx[r].from
          PROVE  j \in 1 .. m - 1 /\ history'[d][j].to = tx[r].from
      BY <1>11, <2>3, <3>1, <3>3
    <3> QED
      BY <3>1, <3>2, <3>3 DEF WasStatus
  <2> QED
    BY <2>1, <2>2, <2>3
<1> QED
  BY <1>8, <1>9, <1>12, <1>13, <1>14, <1>15, <1>16, <1>17 DEF TablesOK

-----------------------------------------------------------------------------
(* One case per action. *)
LEMMA NextInv == IInv /\ [ServiceNext]_serviceVars => IInv'
<1> SUFFICES ASSUME IInv, [ServiceNext]_serviceVars PROVE IInv'
  OBVIOUS
<1>1. CASE UNCHANGED serviceVars
  BY <1>1, TablesUnchanged, OthersUnchanged
     DEF serviceVars, IInv, TypeOK, WritersDoNotInterfere, LockExclusive, HoldsRow
<1>2. CASE ServiceNext
  BY <1>1, <1>2, InsertComplaintInv, LoadComplaintInv, UpdateStatusInv, RecordHistoryInv,
     WriteOutboxInv, CommitInv, RollbackInv DEF ServiceNext, RefuseChange
<1> QED
  BY <1>1, <1>2

(* The tables agree with each other and with what every transaction in     *)
(* progress knows, in every reachable state.                               *)
THEOREM Invariance == ServiceSpec => []IInv
BY InitInv, NextInv, PTL DEF ServiceSpec

(* The tables and the transactions keep their types. *)
THEOREM TypeCorrect == ServiceSpec => []TypeOK
BY Invariance, PTL DEF IInv

(* Between the UPDATE and the COMMIT of a transaction, no other one adds   *)
(* to the history or to the committed events of its complaint.             *)
THEOREM NoInterference == ServiceSpec => []WritersDoNotInterfere
BY Invariance, PTL DEF IInv

(* The transactional outbox of complaint.service.ts: there is an event for *)
(* every committed change and a committed change for every event, however  *)
(* many requests run at once and wherever they fail.                       *)
THEOREM EventsMatchChanges == ServiceSpec => []OutboxMirrorsHistory
BY Invariance, PTL DEF IInv, TablesOK

(* The worker, which reads the outbox by createdAt, finds the events of a  *)
(* complaint in the order of the changes.                                  *)
THEOREM EventsInOrder == ServiceSpec => []OutboxInCommitOrder
BY Invariance, PTL DEF IInv, TablesOK

(* The audit trail ends at the current status. *)
THEOREM AuditTrailEnds == ServiceSpec => []StatusIsLastRecorded
BY Invariance, PTL DEF IInv, TablesOK

(* What the unlocked read of changeStatus leaves of the lifecycle: every   *)
(* recorded transition is legal and starts at a status the complaint had.  *)
THEOREM AuditTrailSound == ServiceSpec => []FromWasOnceTheStatus
BY Invariance, PTL DEF IInv, TablesOK

-----------------------------------------------------------------------------
(* The implementation of ComplaintLifecycle.                               *)

(* the events owed to subscribers, as the instance Lifecycle reads them *)
EventAt(i) == [cid |-> outbox[i].cid, n |-> outbox[i].n,
               from |-> outbox[i].from, to |-> outbox[i].to]

Owed == {EventAt(i) : i \in Committed}

(* What is owed depends on the committed rows only. *)
LEMMA OwedUnchanged ==
  ASSUME Committed' = Committed, \A i \in Committed : outbox'[i] = outbox[i]
  PROVE  Owed' = Owed
BY DEF Owed, EventAt

(* A commit adds the event of its transaction. *)
LEMMA OwedByCommit ==
  ASSUME IInv, NEW r \in Requests, Commit(r)
  PROVE  Owed' = Owed \cup
           {[cid |-> tx[r].cid,
             n |-> IF tx[r].from = NoRow THEN 0 ELSE Len(history[tx[r].cid]) + 1,
             from |-> tx[r].from, to |-> tx[r].to]}
<1>1. PICK k : k = tx[r].row
  OBVIOUS
<1>2. PICK event : event =
        [cid |-> tx[r].cid,
         n |-> IF tx[r].from = NoRow THEN 0 ELSE Len(history[tx[r].cid]) + 1,
         from |-> tx[r].from, to |-> tx[r].to]
  OBVIOUS
<1>3. Committed' = Committed \cup {k}
  BY <1>1, CommitEffect
<1>4. \A i \in Committed : outbox'[i] = outbox[i]
  BY CommitEffect DEF Committed
<1>5. /\ outbox'[k].cid = tx[r].cid
      /\ outbox'[k].n = IF tx[r].from = NoRow THEN 0 ELSE Len(history[tx[r].cid]) + 1
      /\ outbox'[k].from = tx[r].from /\ outbox'[k].to = tx[r].to
  BY <1>1, CommitEffect
<1>6. [cid |-> outbox'[k].cid, n |-> outbox'[k].n,
       from |-> outbox'[k].from, to |-> outbox'[k].to] = event
  BY <1>2, <1>5
<1>7. Owed' = Owed \cup {event}
  BY <1>3, <1>4, <1>6 DEF Owed, EventAt
<1> QED
  BY <1>2, <1>7

-----------------------------------------------------------------------------
(* Nothing is filed and nothing owed. *)
LEMMA LifecycleInit == ServiceInit => Lifecycle!Init
BY DEF ServiceInit, Lifecycle!Init, Committed, NoRow, Lifecycle!NoRow

(* A statement that leaves status, history and committed rows alone. *)
LEMMA LifecycleStutter ==
  ASSUME UNCHANGED <<status, history>>, Owed' = Owed
  PROVE  UNCHANGED Lifecycle!vars
BY DEF Lifecycle!vars, Owed, EventAt

(* The commit of createComplaint files the complaint. *)
LEMMA CommitFiles ==
  ASSUME IInv, NEW r \in Requests, Commit(r), tx[r].from = NoRow
  PROVE  \E c \in Complaints : Lifecycle!File(c)
<1>1. PICK c \in Complaints : c = tx[r].cid
  BY CommitEffect
<1>2. status[c] = NoRow /\ tx[r].to = "OPEN"
  BY <1>1, CommitEffect DEF TransactionOK
<1>3. status' = [status EXCEPT ![c] = "OPEN"] /\ history' = history
  BY <1>1, <1>2 DEF Commit, IsChange
<1>4. Owed' = Owed \cup {[cid |-> c, n |-> 0, from |-> NoRow, to |-> "OPEN"]}
  BY <1>1, <1>2, OwedByCommit
<1> QED
  BY <1>1, <1>2, <1>3, <1>4
     DEF Lifecycle!File, Lifecycle!EventOf, Lifecycle!NoRow, NoRow, Owed, EventAt

(* The commit of changeStatus makes the transition it checked, from the    *)
(* status it read.                                                         *)
LEMMA CommitChanges ==
  ASSUME IInv, NEW r \in Requests, Commit(r), tx[r].from # NoRow
  PROVE  \E c \in Complaints, from, to \in Status : Lifecycle!Change(c, from, to)
<1>1. PICK c \in Complaints : c = tx[r].cid
  BY CommitEffect
<1>2. PICK from \in Status, to \in Status : from = tx[r].from /\ to = tx[r].to
  BY CommitEffect
<1>3. status[c] # NoRow /\ ValidTransition(from, to) /\ WasStatus(c, from)
  BY <1>1, <1>2, CommitEffect DEF TransactionOK
<1>4. /\ status' = [status EXCEPT ![c] = to]
      /\ history' = [history EXCEPT ![c] = Append(@, [from |-> from, to |-> to])]
  BY <1>1, <1>2 DEF Commit, IsChange
<1>5. Owed' = Owed \cup {[cid |-> c, n |-> Len(history[c]) + 1, from |-> from, to |-> to]}
  BY <1>1, <1>2, OwedByCommit
<1>6. from \in Lifecycle!Had(c)
  BY <1>3 DEF WasStatus, Lifecycle!Had
<1>7. Lifecycle!ValidTransition(from, to)
  BY <1>3 DEF ValidTransition, VALID_TRANSITIONS,
              Lifecycle!ValidTransition, Lifecycle!VALID_TRANSITIONS
<1>8. status[c] # Lifecycle!NoRow
  BY <1>3 DEF NoRow, Lifecycle!NoRow
<1>9. Lifecycle!Change(c, from, to)
  BY <1>4, <1>5, <1>6, <1>7, <1>8
     DEF Lifecycle!Change, Lifecycle!EventOf, Owed, EventAt
<1> QED
  BY <1>9

(* Only a commit moves the abstract state. *)
LEMMA LifecycleNext ==
  ASSUME IInv, [ServiceNext]_serviceVars
  PROVE  [Lifecycle!Next]_(Lifecycle!vars)
<1>1. CASE UNCHANGED serviceVars
  BY <1>1, LifecycleStutter, OwedUnchanged DEF serviceVars, Committed
<1>2. CASE \E r \in Requests : Commit(r)
  <2>1. PICK r \in Requests : Commit(r)
    BY <1>2
  <2>2. CASE tx[r].from = NoRow
    BY <2>1, <2>2, CommitFiles DEF Lifecycle!Next
  <2>3. CASE tx[r].from # NoRow
    BY <2>1, <2>3, CommitChanges DEF Lifecycle!Next, Status, Lifecycle!Status
  <2> QED
    BY <2>2, <2>3
<1>3. CASE \E r \in Requests : WriteOutbox(r)
  <2>1. PICK r \in Requests : WriteOutbox(r)
    BY <1>3
  <2>2. UNCHANGED <<status, history>> /\ Owed' = Owed
    BY <2>1, WriteOutboxEffect, OwedUnchanged DEF Committed
  <2> QED
    BY <2>2, LifecycleStutter
<1>4. CASE \E r \in Requests : Rollback(r)
  <2>1. PICK r \in Requests : Rollback(r)
    BY <1>4
  <2>2. UNCHANGED <<status, history>> /\ Owed' = Owed
    BY <2>1, RollbackEffect, OwedUnchanged DEF Rollback
  <2> QED
    BY <2>2, LifecycleStutter
<1>5. CASE \E r \in Requests :
             \/ \E c \in Complaints : InsertComplaint(r, c)
             \/ \E c \in Complaints, to \in Status :
                  LoadComplaint(r, c, to) \/ RefuseChange(r, c, to)
             \/ UpdateStatus(r) \/ RecordHistory(r)
  <2>1. UNCHANGED <<status, history, outbox>>
    BY <1>5 DEF InsertComplaint, LoadComplaint, RefuseChange, UpdateStatus, RecordHistory, serviceVars
  <2>2. Owed' = Owed
    BY <2>1, OwedUnchanged DEF Committed
  <2> QED
    BY <2>1, <2>2, LifecycleStutter
<1> QED
  BY <1>1, <1>2, <1>3, <1>4, <1>5 DEF ServiceNext

(* README: "every transition is persisted to a status history table" and   *)
(* event delivery "can never drift from what was actually committed": seen *)
(* from outside, a request of complaint.service.ts moves the status, the   *)
(* audit trail and the events owed to subscribers in a single step.        *)
THEOREM Refinement == ServiceSpec => ImplementsLifecycle
<1>1. ServiceInit => Lifecycle!Init
  BY LifecycleInit
<1>2. IInv /\ [ServiceNext]_serviceVars => [Lifecycle!Next]_(Lifecycle!vars)
  BY LifecycleNext
<1> QED
  BY <1>1, <1>2, Invariance, PTL DEF ServiceSpec, ImplementsLifecycle, Lifecycle!Spec

-----------------------------------------------------------------------------
(* The outbox as OutboxTable sees it.  The row a transaction inserts must  *)
(* be the only uncommitted one of its complaint and carry the number of    *)
(* the committed ones: two more invariants.                                *)
RowsOf(c) == {i \in Committed : outbox[i].cid = c}

PendingOwned ==
  \A i \in DOMAIN outbox :
    outbox[i].state = "pending" =>
      \E r \in Requests : tx[r].pc = "outboxed" /\ tx[r].row = i

EventsCounted ==
  \A c \in Complaints :
    Cardinality(RowsOf(c)) = IF status[c] = NoRow THEN 0 ELSE Len(history[c]) + 1

TableInv == PendingOwned /\ EventsCounted

(* The empty outbox has no owners to find and nothing to count. *)
LEMMA InitTableInv == ServiceInit => TableInv
<1> SUFFICES ASSUME ServiceInit PROVE TableInv
  OBVIOUS
<1>1. \A c \in Complaints : RowsOf(c) = {}
  BY DEF ServiceInit, RowsOf, Committed
<1>2. EventsCounted
  <2>1. Cardinality({}) = 0
    BY FS_EmptySet
  <2> QED
    BY <1>1, <2>1 DEF ServiceInit, EventsCounted
<1>3. PendingOwned
  BY DEF ServiceInit, PendingOwned
<1> QED
  BY <1>2, <1>3 DEF TableInv

(* What is counted is finite. *)
LEMMA RowsFinite ==
  ASSUME TypeOK
  PROVE  \A c : IsFiniteSet(RowsOf(c))
<1>1. Len(outbox) \in Nat /\ DOMAIN outbox = 1 .. Len(outbox)
  BY DEF TypeOK
<1>2. IsFiniteSet(1 .. Len(outbox))
  BY <1>1, FS_Interval
<1>3. \A c : RowsOf(c) \in SUBSET (1 .. Len(outbox))
  BY <1>1 DEF RowsOf, Committed
<1> QED
  BY <1>2, <1>3, FS_Subset

(* A complaint that is not there has no audit trail. *)
LEMMA NoHistory ==
  ASSUME TypeOK, StatusIsLastRecorded, NEW c \in Complaints, status[c] = NoRow
  PROVE  history[c] = <<>>
<1> SUFFICES ASSUME history[c] # <<>> PROVE FALSE
  OBVIOUS
<1>1. history[c][Len(history[c])] \in HistoryRow
  BY DEF TypeOK
<1>2. history[c][Len(history[c])].to = NoRow
  BY DEF StatusIsLastRecorded
<1> QED
  BY <1>1, <1>2, StatusFacts DEF HistoryRow

(* Statements that leave the committed rows alone keep their count. *)
LEMMA CountUnchanged ==
  ASSUME EventsCounted, UNCHANGED <<status, history>>, Committed' = Committed,
         \A i \in Committed : outbox'[i] = outbox[i]
  PROVE  EventsCounted'
<1>1. \A c \in Complaints : RowsOf(c)' = RowsOf(c)
  BY DEF RowsOf
<1> QED
  BY <1>1 DEF EventsCounted

(* Before its last insertion a transaction has no row in the outbox. *)
LEMMA OwnersUnchanged ==
  ASSUME PendingOwned, NEW r \in Requests, tx[r].pc # "outboxed", UNCHANGED outbox,
         \A q \in Requests : q # r => tx'[q] = tx[q]
  PROVE  PendingOwned'
BY DEF PendingOwned

(* A commit adds one row and one change. *)
LEMMA CommitTableInv ==
  ASSUME IInv, TableInv, NEW r \in Requests, Commit(r)
  PROVE  TableInv'
<1>1. PICK k : k = tx[r].row
  OBVIOUS
<1>2. PICK c \in Complaints : c = tx[r].cid
  BY CommitEffect
<1>3. /\ Committed' = Committed \cup {k} /\ k \notin Committed
      /\ DOMAIN outbox' = DOMAIN outbox
      /\ outbox'[k].state = "committed" /\ outbox'[k].cid = c
      /\ \A i \in DOMAIN outbox : i # k => outbox'[i] = outbox[i]
  BY <1>1, <1>2, CommitEffect
<1>4. PendingOwned'
  <2>1. \A q \in Requests : q # r => tx'[q] = tx[q]
    BY DEF Commit, IInv, TypeOK
  <2> QED
    BY <1>1, <1>3, <2>1 DEF TableInv, PendingOwned
<1>5. RowsOf(c)' = RowsOf(c) \cup {k} /\ k \notin RowsOf(c)
  BY <1>3 DEF RowsOf, Committed
<1>6. \A d \in Complaints : d # c => RowsOf(d)' = RowsOf(d)
  BY <1>3 DEF RowsOf, Committed
<1>7. Cardinality(RowsOf(c)') = Cardinality(RowsOf(c)) + 1
  BY <1>5, RowsFinite, FS_AddElement DEF IInv
<1>8. \A d \in Complaints : d # c => status'[d] = status[d] /\ history'[d] = history[d]
  BY <1>2, CommitEffect
<1>9. Cardinality(RowsOf(c)') = IF status'[c] = NoRow THEN 0 ELSE Len(history'[c]) + 1
  <2>1. status'[c] # NoRow
    <3>1. status'[c] = tx[r].to /\ tx[r].to \in Status
      BY <1>2, CommitEffect
    <3> QED
      BY <3>1, StatusFacts
  <2>2. CASE tx[r].from = NoRow
    <3>1. status[c] = NoRow /\ history'[c] = history[c]
      BY <1>2, <2>2, CommitEffect DEF TransactionOK
    <3>2. history[c] = <<>>
      BY <3>1, NoHistory DEF IInv, TablesOK
    <3> QED
      BY <1>7, <2>1, <3>1, <3>2 DEF TableInv, EventsCounted
  <2>3. CASE tx[r].from # NoRow
    <3>1. status[c] # NoRow
      BY <1>2, <2>3, CommitEffect DEF TransactionOK
    <3>2. PICK new : new = [from |-> tx[r].from, to |-> tx[r].to]
      OBVIOUS
    <3>3. new \in HistoryRow
      BY <2>3, <3>2, CommitEffect DEF HistoryRow
    <3>4. history'[c] = Append(history[c], new) /\ history[c] \in Seq(HistoryRow)
      BY <1>2, <2>3, <3>2, CommitEffect DEF IInv, TypeOK
    <3>5. Len(history'[c]) = Len(history[c]) + 1
      BY <3>3, <3>4
    <3> QED
      BY <1>7, <2>1, <3>1, <3>5 DEF TableInv, EventsCounted
  <2> QED
    BY <2>2, <2>3
<1>10. EventsCounted'
  BY <1>6, <1>8, <1>9 DEF TableInv, EventsCounted
<1> QED
  BY <1>4, <1>10 DEF TableInv

(* One case for each action that touches the outbox. *)
LEMMA NextTableInv ==
  ASSUME IInv, TableInv, [ServiceNext]_serviceVars
  PROVE  TableInv'
<1> USE DEF TableInv
<1>1. CASE UNCHANGED serviceVars
  BY <1>1, CountUnchanged DEF serviceVars, Committed, PendingOwned
<1>2. CASE \E r \in Requests : Commit(r)
  BY <1>2, CommitTableInv
<1>3. CASE \E r \in Requests : WriteOutbox(r)
  <2>1. PICK r \in Requests : WriteOutbox(r)
    BY <1>3
  <2>2. EventsCounted'
    BY <2>1, WriteOutboxEffect, CountUnchanged DEF Committed
  <2>3. /\ tx'[r].pc = "outboxed" /\ tx'[r].row = Len(outbox) + 1
        /\ \A q \in Requests : q # r => tx'[q] = tx[q]
        /\ tx[r].pc # "outboxed"
    BY <2>1 DEF WriteOutbox, IInv, TypeOK, Transaction
  <2>4. /\ DOMAIN outbox' = DOMAIN outbox \cup {Len(outbox) + 1}
        /\ \A i \in DOMAIN outbox : outbox'[i] = outbox[i]
    BY <2>1, WriteOutboxEffect
  <2>5. PendingOwned'
    BY <2>3, <2>4 DEF PendingOwned
  <2> QED
    BY <2>2, <2>5
<1>4. CASE \E r \in Requests : Rollback(r)
  <2>1. PICK r \in Requests : Rollback(r)
    BY <1>4
  <2>2. EventsCounted'
    BY <2>1, RollbackEffect, CountUnchanged DEF Rollback
  <2>3. \A q \in Requests : q # r => tx'[q] = tx[q]
    BY <2>1 DEF Rollback, IInv, TypeOK
  <2>4. PendingOwned'
    BY <2>1, <2>3, RollbackEffect DEF PendingOwned
  <2> QED
    BY <2>2, <2>4
<1>5. CASE \E r \in Requests :
             \/ \E c \in Complaints : InsertComplaint(r, c)
             \/ \E c \in Complaints, to \in Status :
                  LoadComplaint(r, c, to) \/ RefuseChange(r, c, to)
             \/ UpdateStatus(r) \/ RecordHistory(r)
  <2>1. UNCHANGED <<status, history, outbox>>
    BY <1>5 DEF InsertComplaint, LoadComplaint, RefuseChange, UpdateStatus, RecordHistory, serviceVars
  <2>2. EventsCounted'
    BY <2>1, CountUnchanged DEF Committed
  <2>3. PICK r \in Requests :
          tx[r].pc # "outboxed" /\ \A q \in Requests : q # r => tx'[q] = tx[q]
    <3>1. PICK r \in Requests :
            \/ \E c \in Complaints : InsertComplaint(r, c)
            \/ \E c \in Complaints, to \in Status :
                 LoadComplaint(r, c, to) \/ RefuseChange(r, c, to)
            \/ UpdateStatus(r) \/ RecordHistory(r)
      BY <1>5
    <3>2. tx[r].pc # "outboxed"
      <4>1. tx[r] = Idle \/ tx[r].pc = "loaded" \/ tx[r].pc = "updated"
        BY <3>1 DEF InsertComplaint, LoadComplaint, RefuseChange, UpdateStatus, RecordHistory
      <4> QED
        BY <4>1 DEF Idle
    <3>3. ASSUME NEW q \in Requests, q # r PROVE tx'[q] = tx[q]
      BY <3>1, <3>3
         DEF InsertComplaint, LoadComplaint, RefuseChange, UpdateStatus, RecordHistory, serviceVars,
             IInv, TypeOK
    <3> QED
      BY <3>2, <3>3
  <2>4. PendingOwned'
    BY <2>1, <2>3, OwnersUnchanged
  <2> QED
    BY <2>2, <2>4
<1> QED
  BY <1>1, <1>2, <1>3, <1>4, <1>5 DEF ServiceNext

(* Every uncommitted row has its transaction, and the committed rows of a  *)
(* complaint are as many as its changes and its creation.                  *)
THEOREM TableInvariance == ServiceSpec => []TableInv
BY InitTableInv, NextTableInv, Invariance, PTL DEF ServiceSpec

-----------------------------------------------------------------------------
(* the outbox, as the instance Table reads it *)
Mirror ==
  [i \in DOMAIN outbox |->
     [cid |-> outbox[i].cid, n |-> outbox[i].n, state |-> outbox[i].state]]

(* An outbox that stays the same is mirrored by one that does. *)
LEMMA TableStutter ==
  ASSUME UNCHANGED outbox
  PROVE  Mirror' = Mirror
BY DEF Mirror

(* Append, for a sequence given as a function. *)
LEMMA AppendFunction ==
  ASSUME NEW S, NEW m \in Nat, NEW f \in [1 .. m -> S], NEW e \in S
  PROVE  Append(f, e) = [i \in 1 .. m + 1 |-> IF i = m + 1 THEN e ELSE f[i]]
<1> DEFINE g == [i \in 1 .. m + 1 |-> IF i = m + 1 THEN e ELSE f[i]]
<1>1. f \in Seq(S) /\ Len(f) = m
  OBVIOUS
<1>2. /\ Append(f, e) \in Seq(S) /\ Len(Append(f, e)) = m + 1
      /\ \A i \in 1 .. m + 1 : Append(f, e)[i] = IF i = m + 1 THEN e ELSE f[i]
  BY <1>1
<1>3. g \in [1 .. m + 1 -> S]
  OBVIOUS
<1>4. \A i \in 1 .. m + 1 : g[i] = IF i = m + 1 THEN e ELSE f[i]
  OBVIOUS
<1> HIDE DEF g
<1>5. g \in Seq(S) /\ Len(g) = m + 1
  BY <1>3
<1>6. Append(f, e) = g
  BY <1>2, <1>4, <1>5, SeqEqual
<1> QED
  BY <1>6 DEF g

(* The row of WriteOutbox is an Insert: the row lock leaves its complaint  *)
(* no other uncommitted row, and n counts the committed ones.              *)
LEMMA WriteOutboxInserts ==
  ASSUME IInv, TableInv, NEW r \in Requests, WriteOutbox(r)
  PROVE  \E c \in Complaints : Table!Insert(c)
<1>1. PICK c \in Complaints : c = tx[r].cid
  BY WriteOutboxEffect
<1>2. Table!Rows(c, "pending") = {}
  <2> SUFFICES ASSUME NEW i \in DOMAIN outbox,
                      outbox[i].cid = c, outbox[i].state = "pending"
               PROVE  FALSE
    BY DEF Table!Rows
  <2>1. PICK q \in Requests : tx[q].pc = "outboxed" /\ tx[q].row = i
    BY DEF TableInv, PendingOwned
  <2>2. tx[q].cid = c
    BY <2>1, OwnRow DEF IInv, WritersDoNotInterfere
  <2>3. q # r
    BY <2>1 DEF WriteOutbox
  <2>4. HoldsRow(q, c) /\ HoldsRow(r, c)
    BY <1>1, <2>1, <2>2 DEF HoldsRow, Writing, WriteOutbox
  <2> QED
    BY <2>3, <2>4 DEF IInv, WritersDoNotInterfere, LockExclusive
<1>3. Table!Rows(c, "committed") = RowsOf(c)
  BY DEF Table!Rows, RowsOf, Committed
<1>4. NewRow(r).n = Cardinality(RowsOf(c))
  <2>1. TransactionOK(r) /\ tx[r].pc # "idle"
    BY DEF IInv, WritersDoNotInterfere, WriteOutbox
  <2>2. tx[r].from = NoRow <=> status[c] = NoRow
    BY <1>1, <2>1 DEF TransactionOK
  <2> QED
    BY <1>1, <2>2 DEF NewRow, IsChange, TableInv, EventsCounted
<1>5. PICK new : new = [cid |-> c, n |-> Cardinality(RowsOf(c)), state |-> "pending"]
  OBVIOUS
<1>6. /\ NewRow(r).cid = c /\ NewRow(r).n = new.n /\ NewRow(r).state = "pending"
      /\ NewRow(r) \in OutboxRow
  BY <1>1, <1>4, <1>5, WriteOutboxEffect DEF NewRow
<1>7. PICK row \in OutboxRow : row = NewRow(r)
  BY <1>6
<1>8. Mirror' = Append(Mirror, new)
  <2> DEFINE S == [cid : Complaints, n : Nat, state : {"pending", "committed", "aborted"}]
  <2>1. /\ outbox \in Seq(OutboxRow) /\ outbox' = Append(outbox, row)
        /\ outbox' \in Seq(OutboxRow)
    <3>1. outbox \in Seq(OutboxRow)
      BY DEF IInv, TypeOK
    <3>2. outbox' = Append(outbox, row)
      BY <1>7, WriteOutboxEffect
    <3> QED
      BY <3>1, <3>2
  <2>2. new \in S /\ new = [cid |-> row.cid, n |-> row.n, state |-> row.state]
    BY <1>5, <1>6, <1>7 DEF OutboxRow
  <2>3. PICK m \in Nat : m = Len(outbox)
    BY <2>1
  <2>4. DOMAIN outbox = 1 .. m /\ DOMAIN outbox' = 1 .. m + 1
    BY <2>1, <2>3
  <2>5. /\ \A i \in 1 .. m : outbox'[i] = outbox[i] /\ outbox[i] \in OutboxRow
        /\ outbox'[m + 1] = row
    BY <2>1, <2>3
  <2>6. Mirror \in [1 .. m -> S]
    BY <2>4, <2>5 DEF Mirror, OutboxRow
  <2> HIDE DEF S
  <2>7. PICK f \in [1 .. m -> S] : f = Mirror
    BY <2>6
  <2>8. Append(Mirror, new) = [i \in 1 .. m + 1 |-> IF i = m + 1 THEN new ELSE Mirror[i]]
    BY <2>2, <2>7, AppendFunction
  <2>9. Mirror' = [i \in 1 .. m + 1 |-> IF i = m + 1 THEN new ELSE Mirror[i]]
    BY <2>2, <2>4, <2>5 DEF Mirror
  <2> QED
    BY <2>8, <2>9
<1>9. Table!Cardinality(RowsOf(c)) = Cardinality(RowsOf(c))
  BY Zenon DEF Table!Cardinality, Cardinality
<1>10. Table!Insert(c)
  BY <1>2, <1>3, <1>5, <1>8, <1>9 DEF Table!Insert, Mirror
<1> QED
  BY <1>10

(* A commit makes the row of its transaction visible. *)
LEMMA CommitCommitsRow ==
  ASSUME IInv, NEW r \in Requests, Commit(r)
  PROVE  \E i \in DOMAIN Mirror : Table!CommitRow(i)
<1>1. PICK k : k = tx[r].row
  OBVIOUS
<1>2. /\ k \in DOMAIN outbox /\ DOMAIN outbox' = DOMAIN outbox
      /\ outbox[k].state = "pending" /\ outbox'[k].state = "committed"
      /\ outbox'[k].cid = outbox[k].cid /\ outbox'[k].n = outbox[k].n
      /\ \A i \in DOMAIN outbox : i # k => outbox'[i] = outbox[i]
  BY <1>1, CommitEffect
<1>3. Mirror[k].state = "pending" /\ k \in DOMAIN Mirror
  BY <1>2 DEF Mirror
<1>4. Mirror' = [Mirror EXCEPT ![k].state = "committed"]
  BY <1>2 DEF Mirror
<1> QED
  BY <1>3, <1>4 DEF Table!CommitRow, Mirror

(* A rollback leaves a tombstone, if the row was there. *)
LEMMA RollbackAbortsRow ==
  ASSUME IInv, NEW r \in Requests, Rollback(r)
  PROVE  Mirror' = Mirror \/ \E i \in DOMAIN Mirror : Table!AbortRow(i)
<1>1. CASE tx[r].pc # "outboxed"
  BY <1>1, TableStutter DEF Rollback
<1>2. CASE tx[r].pc = "outboxed"
  <2>1. PICK k : k = tx[r].row
    OBVIOUS
  <2>2. k \in DOMAIN outbox /\ outbox[k].state = "pending"
    BY <1>2, <2>1, OwnRow DEF IInv, WritersDoNotInterfere
  <2>3. /\ DOMAIN outbox' = DOMAIN outbox
        /\ outbox'[k].state = "aborted"
        /\ outbox'[k].cid = outbox[k].cid /\ outbox'[k].n = outbox[k].n
        /\ \A i \in DOMAIN outbox : i # k => outbox'[i] = outbox[i]
    BY <1>2, <2>1, <2>2, RowUpdated DEF IInv, Rollback
  <2>4. Mirror[k].state = "pending" /\ k \in DOMAIN Mirror
    BY <2>2 DEF Mirror
  <2>5. Mirror' = [Mirror EXCEPT ![k].state = "aborted"]
    BY <2>2, <2>3 DEF Mirror
  <2> QED
    BY <2>4, <2>5 DEF Table!AbortRow, Mirror
<1> QED
  BY <1>1, <1>2

(* The other statements do not touch the outbox. *)
LEMMA TableNext ==
  ASSUME IInv, TableInv, [ServiceNext]_serviceVars
  PROVE  [Table!Next]_Mirror
<1>1. CASE UNCHANGED outbox
  BY <1>1, TableStutter
<1>2. CASE \E r \in Requests : Commit(r)
  BY <1>2, CommitCommitsRow DEF Table!Next, Mirror
<1>3. CASE \E r \in Requests : WriteOutbox(r)
  BY <1>3, WriteOutboxInserts DEF Table!Next, Mirror
<1>4. CASE \E r \in Requests : Rollback(r)
  BY <1>4, RollbackAbortsRow DEF Table!Next, Mirror
<1> QED
  BY <1>1, <1>2, <1>3, <1>4
     DEF ServiceNext, serviceVars, InsertComplaint, LoadComplaint, RefuseChange, UpdateStatus, RecordHistory

(* The transactions of complaint.service.ts keep the contract that the     *)
(* worker of outbox/worker.ts relies on: OutboxWorker, which runs on       *)
(* OutboxTable, needs to know nothing else about them.                     *)
THEOREM ContractKept == ServiceSpec => OutboxContract
<1>1. ServiceInit => Table!Init
  BY DEF ServiceInit, Table!Init
<1>2. IInv /\ TableInv /\ [ServiceNext]_serviceVars => [Table!Next]_Mirror
  BY TableNext
<1> QED
  BY <1>1, <1>2, Invariance, TableInvariance, PTL
     DEF ServiceSpec, OutboxContract, Table!Spec, Mirror

-----------------------------------------------------------------------------
(* Every transaction that has yet to insert its row has been left room for *)
(* it: the bound of the model stops requests at their start, and never a   *)
(* transaction halfway.                                                    *)
RowsReserved ==
  /\ IsFiniteSet(Unlogged)
  /\ Len(outbox) + Cardinality(Unlogged) <= MaxRows

LEMMA UnloggedStep ==
  ASSUME IInv, NEW r \in Requests, NEW t, tx' = [tx EXCEPT ![r] = t]
  PROVE  Unlogged' = IF t.pc \in {"inserted", "loaded", "updated", "recorded"}
                       THEN Unlogged \cup {r} ELSE Unlogged \ {r}
BY DEF IInv, TypeOK, Unlogged

LEMMA RowsReservedInit == ServiceInit => RowsReserved
<1> SUFFICES ASSUME ServiceInit PROVE RowsReserved
  OBVIOUS
<1>1. Unlogged = {} /\ Len(outbox) = 0
  BY DEF ServiceInit, Unlogged, Idle
<1> QED
  BY <1>1, FS_EmptySet, MaxRowsAssumption DEF RowsReserved

(* A transaction begins, ends or goes on. *)
LEMMA RowsReservedStep ==
  ASSUME IInv, RowsReserved, [ServiceNext]_serviceVars
  PROVE  /\ RowsReserved'
         /\ outbox' # outbox => Len(outbox') = Len(outbox) \/ Len(outbox) < MaxRows
<1> DEFINE n == Cardinality(Unlogged)
<1>0. /\ IsFiniteSet(Unlogged) /\ n \in Nat /\ Len(outbox) \in Nat /\ MaxRows \in Nat
      /\ Len(outbox) + n <= MaxRows
  BY FS_CardinalityType, MaxRowsAssumption DEF RowsReserved, IInv, TypeOK
<1> HIDE DEF n
<1>1. ASSUME UNCHANGED outbox, Unlogged' = Unlogged PROVE RowsReserved'
  <2>1. Cardinality(Unlogged)' = n
    BY <1>1 DEF n
  <2> QED
    BY <1>0, <1>1, <2>1 DEF RowsReserved
<1>2. ASSUME NEW r \in Requests, Len(outbox') = Len(outbox), Unlogged' = Unlogged \ {r}
      PROVE  RowsReserved'
  <2>1. IsFiniteSet(Unlogged \ {r}) /\ Cardinality(Unlogged \ {r}) \in Nat
    BY <1>0, FS_RemoveElement, FS_CardinalityType
  <2>2. Cardinality(Unlogged \ {r}) = IF r \in Unlogged THEN n - 1 ELSE n
    BY <1>0, FS_RemoveElement, Zenon DEF n
  <2> QED
    BY <1>0, <1>2, <2>1, <2>2 DEF RowsReserved
<1>3. ASSUME NEW r \in Requests, (\E c \in Complaints : InsertComplaint(r, c))
                                  \/ \E c \in Complaints, to \in Status : LoadComplaint(r, c, to)
      PROVE  RowsReserved'
  <2>1. /\ UNCHANGED outbox /\ tx[r].pc = "idle" /\ Len(outbox) + n < MaxRows
        /\ \E t : tx' = [tx EXCEPT ![r] = t] /\ t.pc \in {"inserted", "loaded"}
    <3>1. tx[r] = Idle /\ UNCHANGED outbox /\ Len(outbox) + n < MaxRows
      BY <1>3 DEF InsertComplaint, LoadComplaint, RoomForRow, n
    <3>2. ASSUME NEW c \in Complaints, InsertComplaint(r, c)
          PROVE  \E t : tx' = [tx EXCEPT ![r] = t] /\ t.pc \in {"inserted", "loaded"}
      <4>1. [Idle EXCEPT !.pc = "inserted", !.cid = c, !.to = "OPEN"].pc = "inserted"
        BY DEF Idle
      <4> QED
        BY <3>2, <4>1 DEF InsertComplaint
    <3>3. ASSUME NEW c \in Complaints, NEW to \in Status, LoadComplaint(r, c, to)
          PROVE  \E t : tx' = [tx EXCEPT ![r] = t] /\ t.pc \in {"inserted", "loaded"}
      <4>1. [Idle EXCEPT !.pc = "loaded", !.cid = c, !.from = status[c], !.to = to].pc = "loaded"
        BY DEF Idle
      <4> QED
        BY <3>3, <4>1 DEF LoadComplaint
    <3> QED
      BY <1>3, <3>1, <3>2, <3>3 DEF Idle
  <2>2. Unlogged' = Unlogged \cup {r} /\ r \notin Unlogged
    BY <2>1, UnloggedStep DEF Unlogged
  <2>3. IsFiniteSet(Unlogged \cup {r}) /\ Cardinality(Unlogged \cup {r}) = n + 1
    BY <1>0, <2>2, FS_AddElement DEF n
  <2> QED
    BY <1>0, <2>1, <2>2, <2>3 DEF RowsReserved
<1>4. ASSUME NEW r \in Requests, UpdateStatus(r) \/ RecordHistory(r)
      PROVE  RowsReserved' /\ UNCHANGED outbox
  <2>1. UNCHANGED outbox /\ r \in Unlogged
    BY <1>4 DEF UpdateStatus, RecordHistory, Unlogged
  <2>2. \E t : tx' = [tx EXCEPT ![r] = t] /\ t.pc \in {"updated", "recorded"}
    <3>1. PICK pc \in {"updated", "recorded"} : tx' = [tx EXCEPT ![r].pc = pc]
      BY <1>4 DEF UpdateStatus, RecordHistory
    <3>2. tx' = [tx EXCEPT ![r] = [tx[r] EXCEPT !.pc = pc]] /\ [tx[r] EXCEPT !.pc = pc].pc = pc
      BY <3>1 DEF IInv, TypeOK, Transaction
    <3> QED
      BY <3>2
  <2>3. Unlogged' = Unlogged \cup {r}
    BY <2>2, UnloggedStep
  <2>4. Unlogged' = Unlogged
    BY <2>1, <2>3
  <2> QED
    BY <1>1, <2>1, <2>4
<1>5. ASSUME NEW r \in Requests, WriteOutbox(r)
      PROVE  RowsReserved' /\ Len(outbox) < MaxRows
  <2>1. r \in Unlogged /\ Len(outbox') = Len(outbox) + 1
    <3>1. \E row : outbox' = Append(outbox, row)
      BY <1>5 DEF WriteOutbox
    <3> QED
      BY <1>5, <3>1 DEF WriteOutbox, Unlogged, IInv, TypeOK
  <2>2. Unlogged' = Unlogged \ {r}
    <3>1. tx' = [tx EXCEPT ![r] = [[tx[r] EXCEPT !.pc = "outboxed"] EXCEPT !.row = Len(outbox) + 1]]
      BY <1>5 DEF WriteOutbox, IInv, TypeOK, Transaction
    <3>2. [[tx[r] EXCEPT !.pc = "outboxed"] EXCEPT !.row = Len(outbox) + 1].pc = "outboxed"
      BY DEF IInv, TypeOK, Transaction
    <3> QED
      BY <3>1, <3>2, UnloggedStep
  <2>3. IsFiniteSet(Unlogged \ {r}) /\ Cardinality(Unlogged \ {r}) = n - 1 /\ n # 0
    BY <1>0, <2>1, FS_RemoveElement, FS_EmptySet DEF n
  <2> QED
    BY <1>0, <2>1, <2>2, <2>3 DEF RowsReserved
<1>6. ASSUME NEW r \in Requests, Commit(r) \/ Rollback(r)
      PROVE  RowsReserved' /\ Len(outbox') = Len(outbox)
  <2>1. Len(outbox') = Len(outbox)
    <3>1. \E s, i : outbox' = [outbox EXCEPT ![i].state = s] \/ outbox' = outbox
      BY <1>6 DEF Commit, Rollback
    <3> QED
      BY <3>1 DEF IInv, TypeOK
  <2>2. tx' = [tx EXCEPT ![r] = Idle] /\ Idle.pc = "idle"
    BY <1>6 DEF Commit, Rollback, Idle
  <2>3. Unlogged' = Unlogged \ {r}
    BY <2>2, UnloggedStep
  <2> QED
    BY <1>2, <2>1, <2>3
<1>7. CASE UNCHANGED serviceVars
  BY <1>1, <1>7 DEF serviceVars, Unlogged
<1>8. ASSUME NEW r \in Requests, NEW c \in Complaints, NEW to \in Status, RefuseChange(r, c, to)
      PROVE  UNCHANGED serviceVars
  BY <1>8 DEF RefuseChange
<1>9. ASSUME NEW r \in Requests, (\E c \in Complaints : InsertComplaint(r, c))
                                  \/ \E c \in Complaints, to \in Status : LoadComplaint(r, c, to)
      PROVE  UNCHANGED outbox
  BY <1>9 DEF InsertComplaint, LoadComplaint
<1>10. UNCHANGED serviceVars => UNCHANGED outbox
  BY DEF serviceVars
<1> QED
  BY <1>3, <1>4, <1>5, <1>6, <1>7, <1>8, <1>9, <1>10 DEF ServiceNext

-----------------------------------------------------------------------------
(* The pipeline runs OutboxWorker and StreamConsumer, with what is proved  *)
(* of them.                                                                *)
WorkerProofs == INSTANCE OutboxWorkerProofs WITH
  outbox <- [i \in DOMAIN outbox |->
               [cid |-> outbox[i].cid, n |-> outbox[i].n, state |-> outbox[i].state]],
  FaultBudget <- WorkerFaultBudget,
  faults <- workerFaults

ConsumerProofs == INSTANCE StreamConsumerProofs WITH
  Events <- 1 .. MaxRows,
  MaxEntries <- 0,
  FaultBudget <- ConsumerFaultBudget,
  faults <- consumerFaults

(* They make the same assumptions ... *)
LEMMA WorkerAssumptions ==
  /\ WorkerProofs!IsFiniteSet(Ticks)
  /\ BATCH \in Nat \ {0}
  /\ WorkerFaultBudget \in [WorkerProofs!Faults -> Nat]
<1>1. WorkerProofs!IsFiniteSet(Ticks)
  BY WorkerAssumption DEF WorkerAssumption, IsFiniteSet, WorkerProofs!IsFiniteSet
<1> QED
  BY <1>1, WorkerAssumption DEF WorkerAssumption, Worker!Faults, WorkerProofs!Faults

LEMMA ConsumerAssumptions ==
  /\ ConsumerProofs!IsFiniteSet(Pods)
  /\ BatchSize \in Nat \ {0}
  /\ ConsumerFaultBudget \in [ConsumerProofs!Faults -> Nat]
<1>1. ConsumerProofs!IsFiniteSet(Pods)
  BY ConsumerAssumption DEF ConsumerAssumption, IsFiniteSet, ConsumerProofs!IsFiniteSet
<1> QED
  BY <1>1, ConsumerAssumption DEF ConsumerAssumption, Consumer!Faults, ConsumerProofs!Faults

(* ... and take the same steps. *)
LEMMA WorkerSteps == Worker!WorkerNext => WorkerProofs!WorkerNext
<1>1. Worker!Snapshot = WorkerProofs!Snapshot
  <2>1. \A S : Worker!Cardinality(S) = WorkerProofs!Cardinality(S)
    BY DEF Worker!Cardinality, WorkerProofs!Cardinality
  <2>2. Worker!Unpublished = WorkerProofs!Unpublished
    BY DEF Worker!Unpublished, WorkerProofs!Unpublished,
           Worker!Table!Committed, WorkerProofs!Table!Committed
  <2> QED
    BY <2>1, <2>2 DEF Worker!Snapshot, WorkerProofs!Snapshot
<1>2. \A t \in Ticks : Worker!StartTick(t) => WorkerProofs!StartTick(t)
  BY <1>1 DEF Worker!StartTick, WorkerProofs!StartTick
<1>3. \A t, i : Worker!IsCurrent(t, i) => WorkerProofs!IsCurrent(t, i)
  BY DEF Worker!IsCurrent, WorkerProofs!IsCurrent
<1>4. \A t, i : Worker!NextRecord(t, i) => WorkerProofs!NextRecord(t, i)
  BY DEF Worker!NextRecord, WorkerProofs!NextRecord
<1>5. \A f : Worker!Happens(f) => WorkerProofs!Happens(f)
  BY DEF Worker!Happens, WorkerProofs!Happens
<1>6. \A t, i :
        /\ Worker!Publish(t, i) => WorkerProofs!Publish(t, i)
        /\ Worker!PublishUnanswered(t, i) => WorkerProofs!PublishUnanswered(t, i)
        /\ Worker!PublishRefused(t, i) => WorkerProofs!PublishRefused(t, i)
        /\ Worker!MarkPublished(t, i) => WorkerProofs!MarkPublished(t, i)
        /\ Worker!MarkFails(t, i) => WorkerProofs!MarkFails(t, i)
  BY <1>3, <1>4, <1>5
     DEF Worker!Publish, WorkerProofs!Publish,
         Worker!PublishUnanswered, WorkerProofs!PublishUnanswered,
         Worker!PublishRefused, WorkerProofs!PublishRefused,
         Worker!MarkPublished, WorkerProofs!MarkPublished,
         Worker!MarkFails, WorkerProofs!MarkFails
<1>7. Worker!Crash => WorkerProofs!Crash
  BY <1>5 DEF Worker!Crash, WorkerProofs!Crash, Worker!NoTick, WorkerProofs!NoTick
<1> QED
  BY <1>2, <1>6, <1>7 DEF Worker!WorkerNext, WorkerProofs!WorkerNext

LEMMA ConsumerSteps == Consumer!ConsumerNext => ConsumerProofs!ConsumerNext
<1>1. \A p, k, pc : Consumer!At(p, k, pc) <=> ConsumerProofs!At(p, k, pc)
  BY DEF Consumer!At, ConsumerProofs!At
<1>2. \A p, pc : Consumer!GoTo(p, pc) => ConsumerProofs!GoTo(p, pc)
  BY DEF Consumer!GoTo, ConsumerProofs!GoTo
<1>3. \A p, k : Consumer!NextEntry(p, k) => ConsumerProofs!NextEntry(p, k)
  BY DEF Consumer!NextEntry, ConsumerProofs!NextEntry
<1>4. \A f : Consumer!Happens(f) => ConsumerProofs!Happens(f)
  BY DEF Consumer!Happens, ConsumerProofs!Happens
<1>5. Consumer!Down = ConsumerProofs!Down /\ Consumer!Reclaimer = ConsumerProofs!Reclaimer
  BY DEF Consumer!Down, ConsumerProofs!Down, Consumer!Reclaimer, ConsumerProofs!Reclaimer
<1>6. Consumer!Fresh = ConsumerProofs!Fresh
  BY DEF Consumer!Fresh, ConsumerProofs!Fresh
<1>7. \A p : Consumer!Deliver(p) => ConsumerProofs!Deliver(p)
  <2>1. \A S : Consumer!Cardinality(S) = ConsumerProofs!Cardinality(S)
    BY DEF Consumer!Cardinality, ConsumerProofs!Cardinality
  <2> QED
    BY <1>6, <2>1 DEF Consumer!Deliver, ConsumerProofs!Deliver
<1>8. \A p \in Pods : Consumer!Start(p) => ConsumerProofs!Start(p)
  BY <1>2, <1>5 DEF Consumer!Start, ConsumerProofs!Start
<1>9. \A p \in Pods : Consumer!Read(p) => ConsumerProofs!Read(p)
  BY <1>6, <1>7 DEF Consumer!Read, ConsumerProofs!Read
<1>10. \A p \in Pods : Consumer!ReadUnanswered(p) => ConsumerProofs!ReadUnanswered(p)
  BY <1>4, <1>7 DEF Consumer!ReadUnanswered, ConsumerProofs!ReadUnanswered
<1>11. \A p \in Pods : Consumer!Crash(p) => ConsumerProofs!Crash(p)
  BY <1>4, <1>5 DEF Consumer!Crash, ConsumerProofs!Crash
<1>12. \A p, k : Consumer!Check(p, k) => ConsumerProofs!Check(p, k)
  BY <1>1, <1>2 DEF Consumer!Check, ConsumerProofs!Check
<1>13. \A p, k : Consumer!Handle(p, k) => ConsumerProofs!Handle(p, k)
  BY <1>1, <1>2 DEF Consumer!Handle, ConsumerProofs!Handle
<1>14. \A p, k : Consumer!Record(p, k) => ConsumerProofs!Record(p, k)
  BY <1>1, <1>2 DEF Consumer!Record, ConsumerProofs!Record
<1>15. \A p, k : Consumer!Ack(p, k) => ConsumerProofs!Ack(p, k)
  BY <1>1, <1>3 DEF Consumer!Ack, ConsumerProofs!Ack, Consumer!Acknowledge, ConsumerProofs!Acknowledge
<1>16. \A p, k : Consumer!EntryFails(p, k) => ConsumerProofs!EntryFails(p, k)
  BY <1>1, <1>3, <1>4 DEF Consumer!EntryFails, ConsumerProofs!EntryFails
<1>17. \A p, k : Consumer!BatchFails(p, k) => ConsumerProofs!BatchFails(p, k)
  BY <1>1, <1>4 DEF Consumer!BatchFails, ConsumerProofs!BatchFails
<1>18. \A p, S : Consumer!Reclaim(p, S) => ConsumerProofs!Reclaim(p, S)
  BY <1>5 DEF Consumer!Reclaim, ConsumerProofs!Reclaim
<1>19. \A e : Consumer!Expire(e) => ConsumerProofs!Expire(e)
  BY <1>4 DEF Consumer!Expire, ConsumerProofs!Expire
<1> QED
  BY <1>8, <1>9, <1>10, <1>11, <1>12, <1>13, <1>14, <1>15, <1>16, <1>17, <1>18, <1>19
     DEF Consumer!ConsumerNext, ConsumerProofs!ConsumerNext, Consumer!LoopStep, ConsumerProofs!LoopStep

-----------------------------------------------------------------------------
(* The outbox, as the worker sees it. *)
LEMMA MirrorFacts ==
  ASSUME IInv
  PROVE  /\ Len(outbox) \in Nat /\ DOMAIN outbox = 1 .. Len(outbox)
         /\ DOMAIN Mirror = DOMAIN outbox /\ Len(Mirror) = Len(outbox)
         /\ \A i \in DOMAIN outbox : Mirror[i] = [cid |-> outbox[i].cid, n |-> outbox[i].n,
                                                  state |-> outbox[i].state]
         /\ WorkerProofs!Table!Committed = Committed
<1>1. Len(outbox) \in Nat /\ DOMAIN outbox = 1 .. Len(outbox)
  BY DEF IInv, TypeOK
<1>2. DOMAIN Mirror = DOMAIN outbox /\ Len(Mirror) = Len(outbox)
  BY <1>1 DEF Mirror
<1>3. WorkerProofs!Table!Committed = Committed
  BY DEF WorkerProofs!Table!Committed, Committed
<1> QED
  BY <1>1, <1>2, <1>3 DEF Mirror

(* What complaint-service does to the outbox is what OutboxWorker expects. *)
LEMMA ServiceFillsTable ==
  ASSUME IInv, IInv', TableInv, RowsReserved, [ServiceNext]_serviceVars, UNCHANGED <<workerOwn, stream>>
  PROVE  [WorkerProofs!Next]_(WorkerProofs!vars)
<1>1. UNCHANGED <<published, tick, stream, workerFaults>>
  BY DEF workerOwn
<1>2. CASE Mirror' = Mirror
  BY <1>1, <1>2 DEF WorkerProofs!vars, Mirror
<1>3. ASSUME NEW c \in Complaints, Table!Insert(c) PROVE WorkerProofs!Next
  <2>1. \E e : Mirror' = Append(Mirror, e)
    BY <1>3 DEF Table!Insert, Mirror
  <2>2. Len(Mirror') = Len(Mirror) + 1
    <3>1. PICK e : Mirror' = Append(Mirror, e)
      BY <2>1
    <3>2. Mirror \in Seq({Mirror[i] : i \in DOMAIN Mirror})
      BY MirrorFacts DEF Mirror
    <3>3. Mirror \in Seq({Mirror[i] : i \in DOMAIN Mirror} \cup {e}) /\ Len(Mirror) \in Nat
      BY <3>2, MirrorFacts
    <3> HIDE DEF Mirror
    <3> QED
      BY <3>1, <3>3
  <2>3. Len(outbox') # Len(outbox)
    <3>1. Len(Mirror)' = Len(outbox)'
      BY MirrorFacts DEF IInv, TypeOK, Mirror
    <3>2. Len(Mirror) = Len(outbox) /\ Len(outbox) \in Nat
      BY MirrorFacts
    <3> HIDE DEF Mirror
    <3> QED
      BY <2>2, <3>1, <3>2
  <2>4. Len(outbox) < MaxRows
    BY <2>3, RowsReservedStep
  <2>5. WorkerProofs!Table!Insert(c)
    <3>1. \A S : Table!Cardinality(S) = WorkerProofs!Table!Cardinality(S)
      BY DEF Table!Cardinality, WorkerProofs!Table!Cardinality
    <3>2. \A s : Table!Rows(c, s) = WorkerProofs!Table!Rows(c, s)
      BY DEF Table!Rows, WorkerProofs!Table!Rows
    <3> QED
      BY <1>3, <3>1, <3>2 DEF Table!Insert, WorkerProofs!Table!Insert
  <2> QED
    BY <1>1, <2>4, <2>5, MirrorFacts
       DEF WorkerProofs!Next, WorkerProofs!Transactions, WorkerProofs!workerVars, Mirror
<1>4. ASSUME NEW i \in DOMAIN Mirror, Table!CommitRow(i) \/ Table!AbortRow(i) PROVE WorkerProofs!Next
  <2>1. WorkerProofs!Table!CommitRow(i) \/ WorkerProofs!Table!AbortRow(i)
    BY <1>4 DEF Table!CommitRow, WorkerProofs!Table!CommitRow, Table!AbortRow, WorkerProofs!Table!AbortRow
  <2> QED
    BY <1>1, <2>1 DEF WorkerProofs!Next, WorkerProofs!Transactions, WorkerProofs!workerVars, Mirror
<1> QED
  BY <1>2, <1>3, <1>4, TableNext DEF Table!Next, Mirror

LEMMA ConsumerOnlyReads ==
  ASSUME ConsumerProofs!ConsumerNext
  PROVE  UNCHANGED stream
BY DEF ConsumerProofs!ConsumerNext, ConsumerProofs!LoopStep, ConsumerProofs!Start, ConsumerProofs!Read,
       ConsumerProofs!ReadUnanswered, ConsumerProofs!Deliver, ConsumerProofs!Crash, ConsumerProofs!Check,
       ConsumerProofs!Handle, ConsumerProofs!Record, ConsumerProofs!Ack, ConsumerProofs!EntryFails,
       ConsumerProofs!BatchFails, ConsumerProofs!Reclaim, ConsumerProofs!Expire

(* The invariants of the parts hold in the pipeline, whose steps leave     *)
(* alone what is not theirs.                                               *)
LEMMA StepOfParts ==
  ASSUME [Next]_vars
  PROVE  /\ [ServiceNext]_serviceVars
         /\ \/ UNCHANGED <<workerOwn, stream, consumerOwn>>
            \/ UNCHANGED <<serviceVars, consumerOwn>> /\ WorkerProofs!WorkerNext
            \/ UNCHANGED <<serviceVars, workerOwn>> /\ ConsumerProofs!ConsumerNext
BY WorkerSteps, ConsumerSteps DEF Next, vars, ServiceStep, WorkerStep, ConsumerStep

(* The pipeline runs complaint-service. *)
THEOREM PipelineRunsService == Spec => ServiceSpec
<1>1. [Next]_vars => [ServiceNext]_serviceVars
  BY StepOfParts
<1> QED
  BY <1>1, PTL DEF Spec, ServiceSpec, Init

LEMMA ServiceInvariants == Spec => [](IInv /\ TableInv /\ RowsReserved)
<1>1. IInv /\ RowsReserved /\ [ServiceNext]_serviceVars => RowsReserved'
  BY RowsReservedStep
<1>2. ServiceSpec => [](IInv /\ TableInv /\ RowsReserved)
  BY <1>1, RowsReservedInit, Invariance, TableInvariance, PTL DEF ServiceSpec
<1> QED
  BY <1>2, PipelineRunsService, PTL

(* The pipeline runs the worker, with complaint-service in the place of    *)
(* the transactions.                                                       *)
THEOREM PipelineRunsWorker == Spec => WorkerProofs!Spec
<1>1. Init => WorkerProofs!Init
  <2>1. Worker!Table!Init => WorkerProofs!Table!Init
    BY DEF Worker!Table!Init, WorkerProofs!Table!Init
  <2> QED
    BY <2>1 DEF Init, Worker!Init, WorkerProofs!Init, Worker!NoTick, WorkerProofs!NoTick
<1>2. IInv /\ IInv' /\ TableInv /\ RowsReserved /\ [Next]_vars => [WorkerProofs!Next]_(WorkerProofs!vars)
  <2> SUFFICES ASSUME IInv, IInv', TableInv, RowsReserved, [Next]_vars
               PROVE  [WorkerProofs!Next]_(WorkerProofs!vars)
    OBVIOUS
  <2>1. CASE UNCHANGED <<workerOwn, stream, consumerOwn>>
    BY <2>1, StepOfParts, ServiceFillsTable
  <2>2. CASE UNCHANGED serviceVars /\ WorkerProofs!WorkerNext
    BY <2>2 DEF WorkerProofs!Next
  <2>3. CASE UNCHANGED <<serviceVars, workerOwn>> /\ ConsumerProofs!ConsumerNext
    <3>1. UNCHANGED <<outbox, published, tick, workerFaults, stream>>
      BY <2>3, ConsumerOnlyReads DEF serviceVars, workerOwn
    <3> QED
      BY <3>1 DEF WorkerProofs!vars
  <2> QED
    BY <2>1, <2>2, <2>3, StepOfParts
<1> QED
  BY <1>1, <1>2, ServiceInvariants, PTL DEF Spec, WorkerProofs!Spec

-----------------------------------------------------------------------------
(* The hypothesis of the delivery: notification-service runs as one pod    *)
(* that fails at most to acknowledge, and Redis refuses no XADD.           *)
CarefulSubscriber ==
  /\ \A p, q \in Pods : p = q
  /\ \A f \in Consumer!Faults \ {"unacked"} : ConsumerFaultBudget[f] = 0
  /\ WorkerFaultBudget["refused"] = 0

SubscriberInv ==
  /\ ConsumerProofs!GroupInv /\ ConsumerProofs!CountInv
  /\ group.exists /\ group.start = 0
  /\ CarefulSubscriber => ConsumerProofs!InTurn

LEMMA CarefulFacts == CarefulSubscriber => ConsumerProofs!Careful
BY DEF CarefulSubscriber, Consumer!Faults, ConsumerProofs!Careful, ConsumerProofs!Faults

LEMMA SubscriberInvInit == Init => SubscriberInv
<1> SUFFICES ASSUME Init PROVE SubscriberInv
  OBVIOUS
<1>1. /\ stream = <<>> /\ handled = <<>> /\ processed = {} /\ pending = <<>>
      /\ group = [exists |-> TRUE, start |-> 0, cursor |-> 0]
      /\ \A p \in Pods : loop[p].pc = "down" /\ loop[p].batch = {}
      /\ loop \in [Pods -> ConsumerProofs!LoopState]
      /\ consumerFaults = ConsumerFaultBudget
  BY DEF Init, Consumer!Down, ConsumerProofs!LoopState, ConsumerProofs!Steps
<1>2. /\ ConsumerProofs!HandledEntries = {} /\ ConsumerProofs!HandledEvents = {}
      /\ ConsumerProofs!Delivered = {} /\ DOMAIN handled = {} /\ DOMAIN pending = {}
  BY <1>1 DEF ConsumerProofs!HandledEntries, ConsumerProofs!HandledEvents, ConsumerProofs!Delivered
<1>3. ConsumerProofs!TypeInv
  BY <1>1 DEF ConsumerProofs!TypeInv
<1>4. ConsumerProofs!GroupInv
  BY <1>1, <1>2, <1>3
     DEF ConsumerProofs!GroupInv, ConsumerProofs!Begun, ConsumerProofs!Owned, ConsumerProofs!Placed,
         ConsumerProofs!Remembered, ConsumerProofs!EntryHandledOnce, ConsumerProofs!AcknowledgedIsHandled
<1>5. CarefulSubscriber => ConsumerProofs!InTurn
  <2> SUFFICES ASSUME CarefulSubscriber PROVE ConsumerProofs!InTurn
    OBVIOUS
  <2>1. consumerFaults \in [ConsumerProofs!Faults -> Nat]
    BY <1>1, ConsumerAssumptions
  <2>2. \A f \in ConsumerProofs!Faults \ {"unacked"} : consumerFaults[f] = 0
    BY <1>1, CarefulFacts DEF ConsumerProofs!Careful
  <2> QED
    BY <1>1, <1>2, <2>1, <2>2 DEF ConsumerProofs!InTurn
<1>6. ConsumerProofs!CountInv
  <2>1. IsFiniteSet(Pods) /\ BatchSize \in Nat \ {0}
    BY ConsumerAssumption DEF ConsumerAssumption
  <2>2. ConsumerProofs!IsFiniteSet(Pods)
    BY ConsumerAssumptions
  <2>3. ConsumerFaultBudget \in [ConsumerProofs!Faults -> Nat]
    BY ConsumerAssumptions
  <2> QED
    BY <1>1, <1>4, <2>1, <2>2, <2>3, ConsumerProofs!CountInvStart
<1> QED
  BY <1>1, <1>4, <1>5, <1>6 DEF SubscriberInv

(* The stream grows by a row of the table, or the subscriber takes a step. *)
LEMMA WorkerAppends ==
  ASSUME IInv, RowsReserved, WorkerProofs!WorkerNext
  PROVE  UNCHANGED stream \/ \E e \in 1 .. MaxRows : stream' = Append(stream, e)
<1>1. DOMAIN Mirror \subseteq 1 .. MaxRows
  <2>1. Len(outbox) <= MaxRows
    BY MaxRowsAssumption, FS_CardinalityType, MirrorFacts DEF RowsReserved
  <2> QED
    BY <2>1, MirrorFacts, MaxRowsAssumption
<1>2. UNCHANGED stream \/ \E e \in DOMAIN Mirror : stream' = Append(stream, e)
  BY DEF WorkerProofs!WorkerNext, WorkerProofs!StartTick, WorkerProofs!Publish,
         WorkerProofs!PublishUnanswered, WorkerProofs!PublishRefused, WorkerProofs!MarkPublished,
         WorkerProofs!MarkFails, WorkerProofs!Crash, Mirror
<1> QED
  BY <1>1, <1>2

LEMMA SubscriberWaits ==
  ASSUME SubscriberInv, UNCHANGED consumerOwn,
         UNCHANGED stream \/ \E e \in 1 .. MaxRows : stream' = Append(stream, e)
  PROVE  SubscriberInv'
<1> USE DEF SubscriberInv
<1>1. UNCHANGED <<group, pending, processed, loop, handled, consumerFaults>>
  BY DEF consumerOwn
<1>2. IsFiniteSet(Pods) /\ BatchSize \in Nat \ {0}
  BY ConsumerAssumption DEF ConsumerAssumption
<1>3. ConsumerProofs!IsFiniteSet(Pods)
  BY ConsumerAssumptions
<1>4. ConsumerFaultBudget \in [ConsumerProofs!Faults -> Nat]
  BY ConsumerAssumptions
<1>5. UNCHANGED ConsumerProofs!consumerVars
  BY <1>1 DEF ConsumerProofs!consumerVars
<1>6. UNCHANGED stream => UNCHANGED ConsumerProofs!vars
  BY <1>1 DEF ConsumerProofs!vars
<1>7. ConsumerProofs!GroupInv'
  BY <1>2, <1>3, <1>4, <1>5, <1>6, ConsumerProofs!AroundInv
<1>8. ConsumerProofs!CountInv'
  BY <1>2, <1>3, <1>4, <1>5, <1>6, ConsumerProofs!AroundCount
<1>9. \A k \in DOMAIN stream : stream'[k] = stream[k]
  <2>1. stream \in Seq(1 .. MaxRows)
    BY DEF ConsumerProofs!GroupInv, ConsumerProofs!TypeInv
  <2> QED
    BY <2>1
<1>10. ASSUME CarefulSubscriber PROVE ConsumerProofs!InTurn'
  BY <1>1, <1>2, <1>3, <1>4, <1>9, <1>10, ConsumerProofs!InTurnRests
<1> QED
  BY <1>1, <1>7, <1>8, <1>10

LEMMA SubscriberSteps ==
  ASSUME SubscriberInv, ConsumerProofs!ConsumerNext
  PROVE  SubscriberInv'
<1> USE DEF SubscriberInv
<1>2. IsFiniteSet(Pods) /\ BatchSize \in Nat \ {0}
  BY ConsumerAssumption DEF ConsumerAssumption
<1>3. ConsumerProofs!IsFiniteSet(Pods)
  BY ConsumerAssumptions
<1>4. ConsumerFaultBudget \in [ConsumerProofs!Faults -> Nat]
  BY ConsumerAssumptions
<1>5. ConsumerProofs!GroupInv'
  BY <1>2, <1>3, <1>4, ConsumerProofs!ConsumerNextInv
<1>6. ASSUME CarefulSubscriber PROVE ConsumerProofs!InTurn'
  <2>1. ConsumerProofs!Careful
    BY <1>6, CarefulFacts
  <2> QED
    BY <1>2, <1>3, <1>4, <1>6, <2>1, ConsumerProofs!InTurnNext
<1>7. group'.exists /\ group'.start = 0
  <2>1. group \in [exists : BOOLEAN, start : Nat, cursor : Nat]
    BY DEF ConsumerProofs!GroupInv, ConsumerProofs!TypeInv
  <2>2. group' = group \/ \E c : group' = [group EXCEPT !.cursor = c]
    BY DEF ConsumerProofs!ConsumerNext, ConsumerProofs!LoopStep, ConsumerProofs!Start, ConsumerProofs!Read,
           ConsumerProofs!ReadUnanswered, ConsumerProofs!Deliver, ConsumerProofs!Crash, ConsumerProofs!Check,
           ConsumerProofs!Handle, ConsumerProofs!Record, ConsumerProofs!Ack, ConsumerProofs!EntryFails,
           ConsumerProofs!BatchFails, ConsumerProofs!Reclaim, ConsumerProofs!Expire
  <2> QED
    BY <2>1, <2>2
<1>8. ConsumerProofs!CountInv'
  <2>1. [ConsumerProofs!Next]_(ConsumerProofs!vars)
    BY DEF ConsumerProofs!Next
  <2> QED
    BY <1>2, <1>3, <1>4, <2>1, ConsumerProofs!CountInvNext
<1> QED
  BY <1>5, <1>6, <1>7, <1>8

LEMMA SubscriberInvariance == Spec => []SubscriberInv
<1>1. IInv /\ RowsReserved /\ SubscriberInv /\ [Next]_vars => SubscriberInv'
  <2> SUFFICES ASSUME IInv, RowsReserved, SubscriberInv, [Next]_vars PROVE SubscriberInv'
    OBVIOUS
  <2>1. CASE UNCHANGED <<workerOwn, stream, consumerOwn>>
    BY <2>1, SubscriberWaits
  <2>2. CASE UNCHANGED consumerOwn /\ WorkerProofs!WorkerNext
    BY <2>2, WorkerAppends, SubscriberWaits
  <2>3. CASE ConsumerProofs!ConsumerNext
    BY <2>3, SubscriberSteps
  <2> QED
    BY <2>1, <2>2, <2>3, StepOfParts
<1> QED
  BY <1>1, SubscriberInvInit, ServiceInvariants, PTL DEF Spec

-----------------------------------------------------------------------------
(* The state of the pipeline, as EventDelivery sees it. *)
Changes == [i \in Committed |-> [cid |-> outbox[i].cid, n |-> outbox[i].n]]

Announcements == [j \in DOMAIN handled |-> stream[handled[j]]]

(* A COMMIT adds a change, and no other statement does. *)
LEMMA CommitAddsChange ==
  ASSUME IInv, NEW r \in Requests, Commit(r)
  PROVE  \E i \in DOMAIN outbox :
           /\ i \notin Committed
           /\ Changes' = [d \in Committed \cup {i} |->
                            IF d = i THEN [cid |-> outbox[i].cid, n |-> outbox[i].n] ELSE Changes[d]]
<1>1. PICK i \in DOMAIN outbox : i = tx[r].row
  BY CommitEffect
<1>2. /\ i \notin Committed /\ Committed' = Committed \cup {i}
      /\ outbox'[i].cid = outbox[i].cid /\ outbox'[i].n = outbox[i].n
      /\ \A d \in DOMAIN outbox : d # i => outbox'[d] = outbox[d]
  BY <1>1, CommitEffect
<1>3. \A d \in Committed : outbox'[d] = outbox[d]
  BY <1>2 DEF Committed
<1> QED
  BY <1>2, <1>3 DEF Changes

LEMMA ChangesRest ==
  ASSUME IInv, [ServiceNext]_serviceVars, \A r \in Requests : ~Commit(r)
  PROVE  Changes' = Changes
<1>1. SUFFICES Committed' = Committed /\ \A i \in Committed : outbox'[i] = outbox[i]
  BY <1>1 DEF Changes
<1>2. CASE UNCHANGED outbox
  BY <1>2 DEF Committed
<1>3. CASE \E r \in Requests : WriteOutbox(r)
  <2>1. PICK r \in Requests : WriteOutbox(r)
    BY <1>3
  <2>2. /\ DOMAIN outbox' = DOMAIN outbox \cup {Len(outbox) + 1}
        /\ \A i \in DOMAIN outbox : outbox'[i] = outbox[i] /\ i < Len(outbox) + 1
        /\ outbox'[Len(outbox) + 1] = NewRow(r)
    BY <2>1, WriteOutboxEffect
  <2>3. NewRow(r).state = "pending"
    BY DEF NewRow
  <2> QED
    BY <2>2, <2>3 DEF Committed
<1>4. CASE \E r \in Requests : Rollback(r)
  BY <1>4, RollbackEffect
<1> QED
  BY <1>2, <1>3, <1>4
     DEF ServiceNext, InsertComplaint, LoadComplaint, RefuseChange, UpdateStatus, RecordHistory, serviceVars

-----------------------------------------------------------------------------
(* What has been handled is in the stream, and entries do not change. *)
LEMMA AnnouncementsRest ==
  ASSUME SubscriberInv, UNCHANGED handled,
         UNCHANGED stream \/ \E e \in 1 .. MaxRows : stream' = Append(stream, e)
  PROVE  Announcements' = Announcements
<1>1. stream \in Seq(1 .. MaxRows) /\ handled \in Seq(Nat)
  BY DEF SubscriberInv, ConsumerProofs!GroupInv, ConsumerProofs!TypeInv
<1>2. \A j \in DOMAIN handled : handled[j] \in DOMAIN stream
  <2>1. ConsumerProofs!HandledEntries \subseteq ConsumerProofs!Delivered
    BY DEF SubscriberInv, ConsumerProofs!GroupInv, ConsumerProofs!Placed
  <2>2. ConsumerProofs!Delivered \subseteq DOMAIN stream
    BY <1>1 DEF SubscriberInv, ConsumerProofs!GroupInv, ConsumerProofs!TypeInv, ConsumerProofs!Delivered
  <2> QED
    BY <2>1, <2>2 DEF ConsumerProofs!HandledEntries
<1>3. \A k \in DOMAIN stream : stream'[k] = stream[k]
  BY <1>1
<1> QED
  BY <1>2, <1>3 DEF Announcements

LEMMA HandleAnnounces ==
  ASSUME SubscriberInv, NEW p \in Pods, NEW k \in DOMAIN pending, ConsumerProofs!Handle(p, k)
  PROVE  /\ Announcements' = Append(Announcements, stream[k])
         /\ Announced = ConsumerProofs!HandledEvents
<1>1. UNCHANGED stream /\ handled' = Append(handled, k)
  BY DEF ConsumerProofs!Handle
<1>2. handled \in Seq(Nat) /\ k \in Nat
  <2>1. DOMAIN pending \subseteq ConsumerProofs!Delivered /\ handled \in Seq(Nat)
    BY DEF SubscriberInv, ConsumerProofs!GroupInv, ConsumerProofs!Owned, ConsumerProofs!TypeInv
  <2> QED
    BY <2>1 DEF ConsumerProofs!Delivered, SubscriberInv, ConsumerProofs!GroupInv, ConsumerProofs!TypeInv
<1>3. /\ DOMAIN handled = 1 .. Len(handled) /\ Len(handled) \in Nat
      /\ DOMAIN handled' = 1 .. Len(handled) + 1
      /\ \A j \in 1 .. Len(handled) : handled'[j] = handled[j]
      /\ handled'[Len(handled) + 1] = k
  BY <1>1, <1>2, AppendProperties
<1>4. Announcements' = [j \in 1 .. Len(handled) + 1 |->
                          IF j = Len(handled) + 1 THEN stream[k] ELSE stream[handled[j]]]
  BY <1>1, <1>3 DEF Announcements
<1>5. Announcements = [j \in 1 .. Len(handled) |-> stream[handled[j]]]
  BY <1>3 DEF Announcements
<1>6. Append(Announcements, stream[k]) =
        [j \in 1 .. Len(handled) + 1 |-> IF j = Len(handled) + 1 THEN stream[k] ELSE stream[handled[j]]]
  BY <1>3, <1>5, AppendFunction
<1>7. Announced = ConsumerProofs!HandledEvents
  BY DEF Announced, ConsumerProofs!HandledEvents, ConsumerProofs!HandledEntries
<1> QED
  BY <1>4, <1>6, <1>7

(* The subscriber handles an event that is committed and new to it, after  *)
(* every older one of its complaint: the outbox is in the order of the     *)
(* changes, the stream in the order of the outbox up to repetitions, and   *)
(* the subscriber goes through the stream in turn.                         *)
LEMMA HandleIsAnnounce ==
  ASSUME IInv, SubscriberInv, CarefulSubscriber,
         WorkerProofs!OutboxGuarantee, WorkerProofs!FirstCopiesInOrder,
         workerFaults["refused"] = WorkerFaultBudget["refused"],
         NEW p \in Pods, NEW k \in DOMAIN pending, ConsumerProofs!Handle(p, k), UNCHANGED serviceVars
  PROVE  \E i \in DOMAIN outbox : Delivery!Announce(i)
<1>0. PICK e : e = stream[k]
  OBVIOUS
<1>1. stream \in Seq(1 .. MaxRows) /\ handled \in Seq(Nat) /\ group.cursor \in Nat /\ group.start = 0
      /\ group.cursor <= Len(stream)
  BY DEF SubscriberInv, ConsumerProofs!GroupInv, ConsumerProofs!TypeInv
<1>2. /\ k \in ConsumerProofs!Delivered /\ e \notin ConsumerProofs!HandledEvents
      /\ \A l \in ConsumerProofs!Delivered : l < k => stream[l] \in ConsumerProofs!HandledEvents
  <2>1. ConsumerProofs!GroupInv /\ ConsumerProofs!InTurn /\ ConsumerProofs!Careful
    BY CarefulFacts DEF SubscriberInv
  <2>2. IsFiniteSet(Pods) /\ BatchSize \in Nat \ {0}
    BY ConsumerAssumption DEF ConsumerAssumption
  <2>3. ConsumerProofs!IsFiniteSet(Pods)
    BY ConsumerAssumptions
  <2>4. ConsumerFaultBudget \in [ConsumerProofs!Faults -> Nat]
    BY ConsumerAssumptions
  <2> QED
    BY <1>0, <2>1, <2>2, <2>3, <2>4, ConsumerProofs!HandledInTurn
<1>3. k \in DOMAIN stream /\ DOMAIN stream = 1 .. Len(stream) /\ Len(stream) \in Nat
      /\ \A l \in 1 .. k - 1 : l \in ConsumerProofs!Delivered /\ l < k
  BY <1>1, <1>2 DEF ConsumerProofs!Delivered
<1>4. e \in Committed /\ e \in DOMAIN outbox
  <2>1. e \in WorkerProofs!Streamed
    BY <1>0, <1>3 DEF WorkerProofs!Streamed
  <2> QED
    BY <2>1, MirrorFacts DEF WorkerProofs!OutboxGuarantee, Committed
<1>5. ASSUME NEW d \in Committed, outbox[d].cid = outbox[e].cid, outbox[d].n < outbox[e].n
      PROVE  d \in Announced
  <2>1. d \in DOMAIN outbox /\ DOMAIN outbox = 1 .. Len(outbox) /\ Len(outbox) \in Nat
    BY MirrorFacts DEF Committed
  <2>2. outbox[d].n \in Nat /\ outbox[e].n \in Nat
    <3>1. \A i \in DOMAIN outbox : outbox[i] \in OutboxRow
      BY DEF IInv, TypeOK
    <3> QED
      BY <1>4, <2>1, <3>1 DEF OutboxRow
  <2>3. d < e
    <3>1. CASE e < d
      <4>1. outbox[e].n < outbox[d].n
        BY <1>4, <1>5, <3>1 DEF IInv, TablesOK, OutboxInCommitOrder
      <4> QED
        BY <1>5, <2>2, <4>1
    <3>2. CASE e = d
      BY <1>5, <2>2, <3>2
    <3> QED
      BY <1>4, <2>1, <3>1, <3>2
  <2>4. \E l \in 1 .. k - 1 : stream[l] = d
    <3>1. d \in WorkerProofs!Table!Committed /\ Mirror[d].cid = Mirror[e].cid
      BY <1>4, <1>5, <2>1, MirrorFacts
    <3> QED
      BY <1>0, <1>3, <2>3, <3>1 DEF WorkerProofs!FirstCopiesInOrder, Mirror
  <2> QED
    BY <1>2, <1>3, <2>4, HandleAnnounces
<1>6. UNCHANGED <<outbox>> /\ Changes' = Changes
  BY DEF serviceVars, Changes, Committed
<1>7. Announcements' = Append(Announcements, e) /\ e \notin Announced
  BY <1>0, <1>2, HandleAnnounces
<1>8. Delivery!Announced = Announced
  BY DEF Delivery!Announced, Announced
<1>9. DOMAIN Changes = Committed /\ \A d \in Committed : Changes[d].cid = outbox[d].cid /\ Changes[d].n = outbox[d].n
  BY DEF Changes
<1>10. Delivery!Announce(e)
  BY <1>4, <1>5, <1>6, <1>7, <1>8, <1>9 DEF Delivery!Announce, Changes, Announcements
<1> QED
  BY <1>4, <1>10

(* COMMIT and the handler are the two steps of EventDelivery; statements,  *)
(* ticks and commands between them are stutters.                           *)
LEMMA DeliveryStep ==
  ASSUME IInv, RowsReserved, SubscriberInv, CarefulSubscriber,
         WorkerProofs!OutboxGuarantee, WorkerProofs!FirstCopiesInOrder,
         workerFaults["refused"] = WorkerFaultBudget["refused"], [Next]_vars
  PROVE  [DeliveryNext]_(Delivery!vars)
<1>1. CASE UNCHANGED <<workerOwn, stream, consumerOwn>>
  <2>1. Announcements' = Announcements
    BY <1>1 DEF consumerOwn, Announcements
  <2>2. ASSUME NEW r \in Requests, Commit(r) PROVE DeliveryNext
    <3>1. PICK i \in DOMAIN outbox :
            /\ i \notin Committed
            /\ Changes' = [d \in Committed \cup {i} |->
                             IF d = i THEN [cid |-> outbox[i].cid, n |-> outbox[i].n] ELSE Changes[d]]
      BY <2>2, CommitAddsChange
    <3>2. DOMAIN Changes = Committed
      BY DEF Changes
    <3>3. Delivery!Commit(i, outbox[i].cid, outbox[i].n)
      BY <2>1, <3>1, <3>2 DEF Delivery!Commit, Changes, Announcements
    <3> QED
      BY <3>3 DEF DeliveryNext
  <2>3. (\A r \in Requests : ~Commit(r)) => Changes' = Changes
    BY StepOfParts, ChangesRest
  <2> QED
    BY <2>1, <2>2, <2>3 DEF Delivery!vars, Changes, Announcements
<1>2. CASE UNCHANGED <<serviceVars, consumerOwn>> /\ WorkerProofs!WorkerNext
  <2>1. Announcements' = Announcements
    BY <1>2, WorkerAppends, AnnouncementsRest DEF consumerOwn
  <2>2. Changes' = Changes
    BY <1>2 DEF serviceVars, Changes, Committed
  <2> QED
    BY <2>1, <2>2 DEF Delivery!vars, Changes, Announcements
<1>3. CASE UNCHANGED serviceVars /\ ConsumerProofs!ConsumerNext
  <2>1. ASSUME NEW p \in Pods, NEW k \in DOMAIN pending, ConsumerProofs!Handle(p, k) PROVE DeliveryNext
    BY <1>3, <2>1, HandleIsAnnounce DEF DeliveryNext
  <2>2. UNCHANGED handled \/ \E p \in Pods : \E k \in DOMAIN pending : ConsumerProofs!Handle(p, k)
    BY <1>3
       DEF ConsumerProofs!ConsumerNext, ConsumerProofs!LoopStep, ConsumerProofs!Start, ConsumerProofs!Read,
           ConsumerProofs!ReadUnanswered, ConsumerProofs!Deliver, ConsumerProofs!Crash, ConsumerProofs!Check,
           ConsumerProofs!Record, ConsumerProofs!Ack, ConsumerProofs!EntryFails,
           ConsumerProofs!BatchFails, ConsumerProofs!Reclaim, ConsumerProofs!Expire
  <2>3. CASE UNCHANGED handled
    <3>1. Changes' = Changes /\ Announcements' = Announcements
      BY <1>3, <2>3, ConsumerOnlyReads DEF serviceVars, Changes, Committed, Announcements
    <3> QED
      BY <3>1 DEF Delivery!vars, Changes, Announcements
  <2> QED
    BY <2>1, <2>2, <2>3
<1> QED
  BY <1>1, <1>2, <1>3, StepOfParts

(* README: events are published "reliably" and never "drift from what was  *)
(* actually committed".  Whatever complaint-service's transactions, ticks  *)
(* and crashes do, the careful subscriber handles every event at most      *)
(* once, none that is not committed, and those of a complaint in the order *)
(* of its changes.                                                         *)
THEOREM PipelineDelivers == CarefulSubscriber => (Spec => DeliversOnceInOrder)
<1> SUFFICES ASSUME CarefulSubscriber PROVE Spec => DeliversOnceInOrder
  OBVIOUS
<1>1. Init => Delivery!Init
  <2> SUFFICES ASSUME Init PROVE Delivery!Init
    OBVIOUS
  <2>1. outbox = <<>> /\ handled = <<>>
    BY DEF Init, ServiceInit
  <2>2. Committed = {} /\ DOMAIN handled = {}
    BY <2>1 DEF Committed
  <2>3. Changes = <<>> /\ Announcements = <<>>
    BY <2>2 DEF Changes, Announcements
  <2> QED
    BY <2>3 DEF Delivery!Init, Changes, Announcements
<1>2. Spec => []WorkerProofs!WorkerInv
  <2>1. IsFiniteSet(Ticks) /\ BATCH \in Nat \ {0} /\ WorkerProofs!IsFiniteSet(Ticks)
    BY WorkerAssumption, WorkerAssumptions DEF WorkerAssumption
  <2>2. WorkerFaultBudget \in [WorkerProofs!Faults -> Nat]
    BY WorkerAssumptions
  <2>3. MaxRows \in Nat
    BY MaxRowsAssumption DEF MaxRowsAssumption
  <2>4. WorkerProofs!Spec => []WorkerProofs!WorkerInv
    BY <2>1, <2>2, <2>3, WorkerProofs!WorkerInvariance
  <2> QED
    BY <2>4, PipelineRunsWorker, PTL
<1>3. WorkerProofs!WorkerInv =>
        /\ WorkerProofs!OutboxGuarantee /\ WorkerProofs!FirstCopiesInOrder
        /\ workerFaults["refused"] = WorkerFaultBudget["refused"]
  <2>1. WorkerProofs!TypeInv => workerFaults["refused"] = 0
    BY DEF CarefulSubscriber, WorkerProofs!TypeInv, WorkerProofs!Faults
  <2> QED
    BY <2>1 DEF WorkerProofs!WorkerInv, WorkerProofs!Sound, CarefulSubscriber
<1>4. IInv /\ RowsReserved /\ SubscriberInv /\ WorkerProofs!WorkerInv /\ [Next]_vars
        => [DeliveryNext]_(Delivery!vars)
  BY <1>3, DeliveryStep
<1> QED
  BY <1>1, <1>2, <1>4, ServiceInvariants, SubscriberInvariance, PTL DEF Spec, DeliversOnceInOrder

-----------------------------------------------------------------------------
(* What is left of the promise when everything may fail, whatever the      *)
(* number of pods.                                                         *)
WhateverFails ==
  /\ Announced \subseteq Committed
  /\ WorkerProofs!CopiesBounded
  /\ ConsumerProofs!EntryHandledOnce
  /\ ConsumerProofs!EventHandledOnce
  /\ ConsumerProofs!AcknowledgedIsHandled
  /\ ConsumerProofs!StrandedBounded

LEMMA OnlyCommittedHandled ==
  ASSUME IInv, SubscriberInv, WorkerProofs!OutboxGuarantee
  PROVE  Announced \subseteq Committed
<1> SUFFICES ASSUME NEW j \in DOMAIN handled PROVE stream[handled[j]] \in Committed
  BY DEF Announced
<1>1. handled[j] \in DOMAIN stream
  <2>1. ConsumerProofs!TypeInv /\ ConsumerProofs!Placed
    BY DEF SubscriberInv, ConsumerProofs!GroupInv
  <2>2. ConsumerProofs!Delivered \subseteq DOMAIN stream
    BY <2>1 DEF ConsumerProofs!TypeInv, ConsumerProofs!Delivered
  <2>3. handled[j] \in ConsumerProofs!Delivered
    BY <2>1 DEF ConsumerProofs!Placed, ConsumerProofs!HandledEntries
  <2> QED
    BY <2>2, <2>3
<1>2. stream[handled[j]] \in WorkerProofs!Table!Committed
  BY <1>1 DEF WorkerProofs!OutboxGuarantee, WorkerProofs!Streamed
<1> QED
  BY <1>2, MirrorFacts

(* With any number of pods and any faults, of Redis, of either service and *)
(* of the mailer behind the handler: nothing is announced that was rolled  *)
(* back; an event has so many copies in the stream and no more, an entry   *)
(* is handled once, an event once by each pod and once more by each for    *)
(* every key that is lost; and what is not handled is still pending, one   *)
(* entry or one batch for each fault (worker.ts, shared-redis index.ts).   *)
THEOREM PipelineHoldsUp == Spec => []WhateverFails
<1>1. WorkerProofs!IsFiniteSet(Ticks) /\ IsFiniteSet(Ticks) /\ BATCH \in Nat \ {0}
  BY WorkerAssumption, WorkerAssumptions DEF WorkerAssumption
<1>2. WorkerFaultBudget \in [WorkerProofs!Faults -> Nat]
  BY WorkerAssumptions
<1>3. MaxRows \in Nat
  BY MaxRowsAssumption DEF MaxRowsAssumption
<1>4. WorkerProofs!Spec => []WorkerProofs!OutboxGuarantee
  BY <1>1, <1>2, <1>3, WorkerProofs!NothingInventedNothingLost
<1>5. WorkerProofs!Spec => []WorkerProofs!CopiesBounded
  BY <1>1, <1>2, <1>3, WorkerProofs!CopiesAreBounded
<1>6. ASSUME SubscriberInv PROVE ConsumerProofs!EventHandledOnce
  <2>1. IsFiniteSet(Pods) /\ BatchSize \in Nat \ {0}
    BY ConsumerAssumption DEF ConsumerAssumption
  <2>2. ConsumerProofs!IsFiniteSet(Pods)
    BY ConsumerAssumptions
  <2>3. ConsumerFaultBudget \in [ConsumerProofs!Faults -> Nat]
    BY ConsumerAssumptions
  <2>4. ConsumerProofs!GroupInv /\ ConsumerProofs!CountInv
    BY <1>6 DEF SubscriberInv
  <2> QED
    BY <2>1, <2>2, <2>3, <2>4, ConsumerProofs!CountsTell
<1>7. IInv /\ SubscriberInv /\ WorkerProofs!OutboxGuarantee /\ WorkerProofs!CopiesBounded => WhateverFails
  BY <1>6, OnlyCommittedHandled
     DEF SubscriberInv, ConsumerProofs!GroupInv, ConsumerProofs!CountInv, WhateverFails
<1> QED
  BY <1>4, <1>5, <1>7, PipelineRunsWorker, ServiceInvariants, SubscriberInvariance, PTL

=============================================================================

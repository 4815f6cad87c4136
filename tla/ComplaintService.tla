-------------------------- MODULE ComplaintService --------------------------
(***************************************************************************)
(* The write path of complaint-service: createComplaint and changeStatus   *)
(* (services/complaint.service.ts), run by concurrent requests.            *)
(*                                                                         *)
(* Each runs in an interactive database transaction of several statements, *)
(* at READ COMMITTED (the isolation level is left at the default): what a  *)
(* transaction writes becomes visible at its commit, an UPDATE waits for   *)
(* the row lock of another transaction and then goes ahead, and the plain  *)
(* SELECT that fetches the current status takes no lock.                   *)
(*                                                                         *)
(* status, history and the committed rows of outbox are the durable state; *)
(* tx holds the transaction of each request, uncommitted writes included.  *)
(***************************************************************************)
EXTENDS ComplaintStatus, Naturals, Sequences, FiniteSets

CONSTANTS
  Complaints,   \* complaint ids
  Requests,     \* slots for requests served at the same time
  NoComplaint,
  MaxRows       \* bound: outbox rows ever inserted, rolled back ones included

ASSUME NoComplaintAssumption == NoComplaint \notin Complaints
ASSUME MaxRowsAssumption == MaxRows \in Nat

VARIABLES
  status,    \* committed Complaint.status, NoRow where there is no row
  history,   \* committed StatusHistory rows of a complaint, by changedAt
  outbox,    \* Outbox rows by createdAt: event and state of the insertion
  tx         \* transaction of each request

serviceVars == <<status, history, outbox, tx>>

-----------------------------------------------------------------------------
Idle == [pc |-> "idle", cid |-> NoComplaint, from |-> NoRow, to |-> NoRow, row |-> 0]

(* The pc of a transaction names the last statement it executed.  From its *)
(* first write on it holds the row lock of its complaint.                  *)
Writing == {"inserted", "updated", "recorded", "outboxed"}

HoldsRow(r, c) == tx[r].pc \in Writing /\ tx[r].cid = c

IsChange(r) == tx[r].from # NoRow

(* the transactions that have yet to insert their outbox row *)
Unlogged == {r \in Requests : tx[r].pc \in {"inserted", "loaded", "updated", "recorded"}}

RoomForRow == Len(outbox) + Cardinality(Unlogged) < MaxRows

ServiceInit ==
  /\ status  = [c \in Complaints |-> NoRow]
  /\ history = [c \in Complaints |-> <<>>]
  /\ outbox  = <<>>
  /\ tx      = [r \in Requests |-> Idle]

(* createComplaint: tx.complaint.create, with a fresh id and status OPEN *)
InsertComplaint(r, c) ==
  /\ tx[r] = Idle
  /\ RoomForRow
  /\ status[c] = NoRow
  /\ \A q \in Requests : tx[q].cid # c
  /\ tx' = [tx EXCEPT ![r] = [Idle EXCEPT !.pc = "inserted", !.cid = c, !.to = "OPEN"]]
  /\ UNCHANGED <<status, history, outbox>>

(* Mutant: the transition is not validated. *)
LoadUnchecked(r, c, to) ==
  /\ tx[r] = Idle
  /\ RoomForRow
  /\ status[c] # NoRow
  /\ tx' = [tx EXCEPT ![r] =
              [Idle EXCEPT !.pc = "loaded", !.cid = c, !.from = status[c], !.to = to]]
  /\ UNCHANGED <<status, history, outbox>>

(* changeStatus: findUnique, then assertValidTransition on what it returned *)
LoadComplaint(r, c, to) ==
  /\ tx[r] = Idle
  /\ RoomForRow
  /\ status[c] # NoRow
  /\ ValidTransition(status[c], to)
  /\ tx' = [tx EXCEPT ![r] =
              [Idle EXCEPT !.pc = "loaded", !.cid = c, !.from = status[c], !.to = to]]
  /\ UNCHANGED <<status, history, outbox>>

(* no such row (404), or an illegal transition (400): nothing is written *)
RefuseChange(r, c, to) ==
  /\ tx[r] = Idle
  /\ status[c] # NoRow => ~ValidTransition(status[c], to)
  /\ UNCHANGED serviceVars

(* Mutant: the update does not wait for the row lock. *)
UpdateUnlocked(r) ==
  /\ tx[r].pc = "loaded"
  /\ tx' = [tx EXCEPT ![r].pc = "updated"]
  /\ UNCHANGED <<status, history, outbox>>

(* Mutant: the update is made outside the transaction (prisma, not tx). *)
UpdateAutocommit(r) ==
  /\ tx[r].pc = "loaded"
  /\ \A q \in Requests : ~HoldsRow(q, tx[r].cid)
  /\ status' = [status EXCEPT ![tx[r].cid] = tx[r].to]
  /\ tx' = [tx EXCEPT ![r].pc = "updated"]
  /\ UNCHANGED <<history, outbox>>

(* Mutant: the SELECT takes a shared lock, which two readers cannot both   *)
(* upgrade.                                                                *)
UpdateUpgradesLock(r) ==
  /\ tx[r].pc = "loaded"
  /\ \A q \in Requests \ {r} : tx[q].cid # tx[r].cid
  /\ tx' = [tx EXCEPT ![r].pc = "updated"]
  /\ UNCHANGED <<status, history, outbox>>

(* tx.complaint.update: waits for the row lock; the status that findUnique *)
(* returned is not looked at again                                         *)
UpdateStatus(r) ==
  /\ tx[r].pc = "loaded"
  /\ \A q \in Requests : ~HoldsRow(q, tx[r].cid)
  /\ tx' = [tx EXCEPT ![r].pc = "updated"]
  /\ UNCHANGED <<status, history, outbox>>

(* tx.statusHistory.create: not visible to others before the commit *)
RecordHistory(r) ==
  /\ tx[r].pc = "updated"
  /\ tx' = [tx EXCEPT ![r].pc = "recorded"]
  /\ UNCHANGED <<status, history, outbox>>

(* Mutant: the event is inserted outside the transaction. *)
WriteOutboxAutocommit(r) ==
  LET c == tx[r].cid IN
  /\ tx[r].pc \in {"inserted", "recorded"}
  /\ outbox' = Append(outbox,
       [ cid |-> c, from |-> tx[r].from, to |-> tx[r].to, state |-> "committed",
         n |-> IF IsChange(r) THEN Len(history[c]) + 1 ELSE 0 ])
  /\ tx' = [tx EXCEPT ![r].pc = "outboxed", ![r].row = Len(outbox) + 1]
  /\ UNCHANGED <<status, history>>

(* tx.outbox.create, published = false.  n, the ordinal of the event among *)
(* those of its complaint, is not a column: it is what the properties      *)
(* identify the event by.                                                  *)
WriteOutbox(r) ==
  LET c == tx[r].cid IN
  /\ tx[r].pc \in {"inserted", "recorded"}
  /\ outbox' = Append(outbox,
       [ cid |-> c, from |-> tx[r].from, to |-> tx[r].to, state |-> "pending",
         n |-> IF IsChange(r) THEN Len(history[c]) + 1 ELSE 0 ])
  /\ tx' = [tx EXCEPT ![r].pc = "outboxed", ![r].row = Len(outbox) + 1]
  /\ UNCHANGED <<status, history>>

(* Mutant: the creation gets a history row too, from a status that is none. *)
CommitRecordsCreation(r) ==
  LET c == tx[r].cid IN
  /\ tx[r].pc = "outboxed"
  /\ status' = [status EXCEPT ![c] = tx[r].to]
  /\ history' = [history EXCEPT ![c] = Append(@, [from |-> tx[r].from, to |-> tx[r].to])]
  /\ outbox' = [outbox EXCEPT ![tx[r].row].state = "committed"]
  /\ tx' = [tx EXCEPT ![r] = Idle]

(* COMMIT: the three writes become visible together *)
Commit(r) ==
  LET c == tx[r].cid IN
  /\ tx[r].pc = "outboxed"
  /\ status' = [status EXCEPT ![c] = tx[r].to]
  /\ history' = IF IsChange(r)
                THEN [history EXCEPT ![c] = Append(@, [from |-> tx[r].from, to |-> tx[r].to])]
                ELSE history
  /\ outbox' = [outbox EXCEPT ![tx[r].row].state = "committed"]
  /\ tx' = [tx EXCEPT ![r] = Idle]

(* A statement fails, the process dies, or the 5 s limit on an interactive *)
(* transaction passes: none of its writes is ever visible.                 *)
Rollback(r) ==
  /\ tx[r].pc # "idle"
  /\ outbox' = IF tx[r].pc = "outboxed"
               THEN [outbox EXCEPT ![tx[r].row].state = "aborted"]
               ELSE outbox
  /\ tx' = [tx EXCEPT ![r] = Idle]
  /\ UNCHANGED <<status, history>>

ServiceNext ==
  \E r \in Requests :
    \/ \E c \in Complaints : InsertComplaint(r, c)
    \/ \E c \in Complaints, to \in Status : LoadComplaint(r, c, to)
    \/ \E c \in Complaints, to \in Status : RefuseChange(r, c, to)
    \/ UpdateStatus(r)
    \/ RecordHistory(r)
    \/ WriteOutbox(r)
    \/ Commit(r)
    \/ Rollback(r)

(* The statements after the row lock never wait.  The row lock is granted  *)
(* in the order of the waiters, so that a waiter is not passed over for    *)
(* ever: strong fairness.  Nothing obliges a request to arrive or a        *)
(* transaction to fail.                                                    *)
ServiceFairness ==
  \A r \in Requests :
    /\ SF_serviceVars(UpdateStatus(r))
    /\ WF_serviceVars(RecordHistory(r))
    /\ WF_serviceVars(WriteOutbox(r))
    /\ WF_serviceVars(Commit(r))

ServiceSpec == ServiceInit /\ [][ServiceNext]_serviceVars

ServiceFairSpec == ServiceSpec /\ ServiceFairness

-----------------------------------------------------------------------------
HistoryRow == [from : Status, to : Status]

OutboxRow ==
  [cid : Complaints, from : Status \cup {NoRow}, to : Status, n : Nat,
   state : {"pending", "committed", "aborted"}]

Transaction ==
  [pc : {"idle", "loaded"} \cup Writing, cid : Complaints \cup {NoComplaint},
   from : Status \cup {NoRow}, to : Status \cup {NoRow}, row : Nat]

(* The shape of the database tables and of the transactions in progress.   *)
TypeOK ==
  /\ status \in [Complaints -> Status \cup {NoRow}]
  /\ history \in [Complaints -> Seq(HistoryRow)]
  /\ outbox \in Seq(OutboxRow)
  /\ tx \in [Requests -> Transaction]

Committed == {i \in DOMAIN outbox : outbox[i].state = "committed"}

(* The committed outbox rows of a complaint are exactly its creation and   *)
(* the rows of its status history, each with the transition the history    *)
(* holds: the transaction leaves neither an event without its change nor a *)
(* change without its event (README: "event publication is consistent      *)
(* with the DB write").                                                    *)
OutboxMirrorsHistory ==
  \A c \in Complaints :
    /\ status[c] # NoRow =>
         \E i \in Committed : outbox[i].cid = c /\ outbox[i].n = 0
    /\ \A k \in DOMAIN history[c] :
         \E i \in Committed :
           /\ outbox[i].cid = c
           /\ outbox[i].n = k
           /\ outbox[i].from = history[c][k].from
           /\ outbox[i].to = history[c][k].to
    /\ \A i \in Committed :
         outbox[i].cid = c => status[c] # NoRow /\ outbox[i].n <= Len(history[c])

(* createdAt, the order in which the worker reads the outbox, is the order *)
(* of the changes, and no change is announced by two rows: this is what    *)
(* the row lock held from UPDATE to COMMIT buys.                           *)
OutboxInCommitOrder ==
  \A i, j \in Committed :
    i < j /\ outbox[i].cid = outbox[j].cid => outbox[i].n < outbox[j].n

(* The status column is the target of the last history row, so the audit   *)
(* trail of a complaint ends where the complaint is, whatever the          *)
(* interleaving of its writers.                                            *)
StatusIsLastRecorded ==
  \A c \in Complaints :
    IF history[c] = <<>>
      THEN status[c] \in {NoRow, "OPEN"}
      ELSE status[c] = history[c][Len(history[c])].to

(* the complaint had, or has, this status *)
WasStatus(c, s) == s = "OPEN" \/ \E k \in DOMAIN history[c] : history[c][k].to = s

(* A writer may act on a status that is no longer current, never on one    *)
(* the complaint did not have: every recorded transition is legal and      *)
(* starts at OPEN or at the target of an earlier one.                      *)
FromWasOnceTheStatus ==
  \A c \in Complaints : \A k \in DOMAIN history[c] :
    /\ ValidTransition(history[c][k].from, history[c][k].to)
    /\ \/ history[c][k].from = "OPEN"
       \/ \E j \in 1 .. k - 1 : history[c][j].to = history[c][k].from

LockExclusive ==
  \A q, r \in Requests : \A c \in Complaints : HoldsRow(q, c) /\ HoldsRow(r, c) => q = r

(* What a transaction in progress knows stays true until it ends. *)
TransactionOK(r) ==
  LET t == tx[r] IN
  t.pc # "idle" =>
    /\ t.cid \in Complaints /\ t.to \in Status
    /\ IF t.from = NoRow
         THEN /\ t.pc \in {"inserted", "outboxed"}
              /\ t.to = "OPEN" /\ status[t.cid] = NoRow
         ELSE /\ t.pc # "inserted"
              /\ status[t.cid] # NoRow
              /\ ValidTransition(t.from, t.to) /\ WasStatus(t.cid, t.from)
    /\ t.pc = "outboxed" =>
         /\ t.row \in DOMAIN outbox
         /\ outbox[t.row] =
              [ cid |-> t.cid, from |-> t.from, to |-> t.to, state |-> "pending",
                n |-> IF t.from = NoRow THEN 0 ELSE Len(history[t.cid]) + 1 ]
         /\ \A i \in Committed : outbox[i].cid = t.cid => i < t.row

(* The row lock makes the rest of a transaction as good as atomic: between *)
(* its UPDATE and its COMMIT no other transaction adds to the history or   *)
(* to the committed events of its complaint, so the event it has written   *)
(* is still the next one when it commits.                                  *)
WritersDoNotInterfere == LockExclusive /\ \A r \in Requests : TransactionOK(r)

(* Every transaction ends: no writer waits for ever for another's row lock. *)
TransactionsEnd == \A r \in Requests : tx[r].pc # "idle" ~> tx[r].pc = "idle"

(* "The domain model enforces a strict complaint lifecycle state machine"  *)
(* (README.md): a committed status is only ever left by a legal transition. *)
(* The check in changeStatus is made on a status read before the row lock.  *)
StrictLifecycle ==
  [][\A c \in Complaints :
       status[c] # NoRow /\ status'[c] # status[c] =>
         ValidTransition(status[c], status'[c])]_serviceVars

-----------------------------------------------------------------------------
(* What the worker relies on: the outbox develops as OutboxTable says. *)
Table == INSTANCE OutboxTable WITH
  outbox <- [i \in DOMAIN outbox |->
               [cid |-> outbox[i].cid, n |-> outbox[i].n, state |-> outbox[i].state]]

OutboxContract == Table!Spec

(* However many requests run at once, status, audit trail and events owed  *)
(* move in one atomic step of the lifecycle, by a legal transition.        *)
Lifecycle == INSTANCE ComplaintLifecycle WITH
  owed <- {[cid |-> outbox[i].cid, n |-> outbox[i].n,
            from |-> outbox[i].from, to |-> outbox[i].to] : i \in Committed}

ImplementsLifecycle == Lifecycle!Spec

=============================================================================

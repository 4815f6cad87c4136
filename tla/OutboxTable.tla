---------------------------- MODULE OutboxTable ----------------------------
(***************************************************************************)
(* The outbox table as its two users see it: the contract between the      *)
(* transactions of complaint.service.ts, which insert rows, and the        *)
(* polling worker of outbox/worker.ts, which reads the committed ones.     *)
(*                                                                         *)
(* The table is a sequence in the order of createdAt.  A row carries the   *)
(* complaint it is about and the ordinal n of the event among that         *)
(* complaint's events.  A row of a transaction that rolled back stays as   *)
(* an "aborted" tombstone, which no reader ever sees.                      *)
(*                                                                         *)
(* ComplaintService implements this specification; OutboxWorker relies on  *)
(* nothing else.                                                           *)
(***************************************************************************)
EXTENDS Naturals, Sequences, FiniteSets

CONSTANT Complaints

VARIABLE outbox

RowState == {"pending", "committed", "aborted"}

Rows(c, s) == {i \in DOMAIN outbox : outbox[i].cid = c /\ outbox[i].state = s}

Committed == {i \in DOMAIN outbox : outbox[i].state = "committed"}

Init == outbox = <<>>

(* The row lock on the complaint: one uncommitted event per complaint, and *)
(* it is numbered after every event already committed.                     *)
Insert(c) ==
  /\ Rows(c, "pending") = {}
  /\ outbox' = Append(outbox, [ cid |-> c,
                                n |-> Cardinality(Rows(c, "committed")),
                                state |-> "pending" ])

CommitRow(i) ==
  /\ outbox[i].state = "pending"
  /\ outbox' = [outbox EXCEPT ![i].state = "committed"]

AbortRow(i) ==
  /\ outbox[i].state = "pending"
  /\ outbox' = [outbox EXCEPT ![i].state = "aborted"]

Next ==
  \/ \E c \in Complaints : Insert(c)
  \/ \E i \in DOMAIN outbox : CommitRow(i) \/ AbortRow(i)

Spec == Init /\ [][Next]_outbox

=============================================================================

------------------------- MODULE ComplaintLifecycle -------------------------
(***************************************************************************)
(* What the complaint write path promises, without its mechanism: "a       *)
(* strict complaint lifecycle state machine, and every transition is       *)
(* persisted to a status history table" (README.md), together with "event  *)
(* delivery can never drift from what was actually committed".             *)
(*                                                                         *)
(* Filing a complaint or changing its status is ONE step that moves the    *)
(* status, the audit trail and the set of events owed to subscribers.  The *)
(* transition it makes is in the table.  With a strict lifecycle it would  *)
(* start at the current status; what the code promises is that it starts   *)
(* at a status the complaint has had.                                      *)
(***************************************************************************)
EXTENDS ComplaintStatus, Sequences, Naturals

CONSTANT Complaints

VARIABLES
  status,    \* status of every complaint, NoRow before it is filed
  history,   \* its audit trail: the transitions made, oldest first
  owed       \* the events the outside world must hear of

vars == <<status, history, owed>>

(* the n-th event of a complaint; number 0 is its creation *)
EventOf(c, n, from, to) == [cid |-> c, n |-> n, from |-> from, to |-> to]

Init ==
  /\ status  = [c \in Complaints |-> NoRow]
  /\ history = [c \in Complaints |-> <<>>]
  /\ owed    = {}

File(c) ==
  /\ status[c] = NoRow
  /\ status' = [status EXCEPT ![c] = "OPEN"]
  /\ owed'   = owed \cup {EventOf(c, 0, NoRow, "OPEN")}
  /\ UNCHANGED history

(* the statuses a filed complaint has had *)
Had(c) == {"OPEN"} \cup {history[c][k].to : k \in DOMAIN history[c]}

Change(c, from, to) ==
  /\ status[c] # NoRow
  /\ from \in Had(c)
  /\ ValidTransition(from, to)
  /\ status'  = [status EXCEPT ![c] = to]
  /\ history' = [history EXCEPT ![c] = Append(@, [from |-> from, to |-> to])]
  /\ owed'    = owed \cup {EventOf(c, Len(history[c]) + 1, from, to)}

Next == \E c \in Complaints : File(c) \/ \E from, to \in Status : Change(c, from, to)

Spec == Init /\ [][Next]_vars

=============================================================================

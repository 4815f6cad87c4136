-------------------------- MODULE ComplaintStatus --------------------------
(***************************************************************************)
(* The status machine of a complaint: the table of legal transitions that  *)
(* complaint-service consults before it writes a new status.  The module   *)
(* has no state; the specifications of the write path extend it.           *)
(***************************************************************************)

(* enum ComplaintStatus of the Prisma schema *)
Status == {"OPEN", "IN_PROGRESS", "RESOLVED", "CLOSED", "REJECTED"}

(* the "status" of a complaint row that does not exist (yet) *)
NoRow == "NONE"

VALID_TRANSITIONS ==
  [ OPEN        |-> {"IN_PROGRESS", "REJECTED"},
    IN_PROGRESS |-> {"RESOLVED", "OPEN"},
    RESOLVED    |-> {"CLOSED", "IN_PROGRESS"},
    CLOSED      |-> {},
    REJECTED    |-> {} ]

(* assertValidTransition returns; where this is FALSE it throws AppError 400 *)
ValidTransition(from, to) == to \in VALID_TRANSITIONS[from]

=============================================================================

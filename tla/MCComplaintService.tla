------------------------- MODULE MCComplaintService -------------------------
(* ComplaintService on small instances, for TLC. *)
EXTENDS ComplaintService

=============================================================================

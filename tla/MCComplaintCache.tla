-------------------------- MODULE MCComplaintCache --------------------------
(* ComplaintCache on small instances, for TLC. *)
EXTENDS ComplaintCache, TLC

Symmetry == Permutations(Handlers)

=============================================================================

---------------------------- MODULE MCAdminDesk ----------------------------
(* AdminDesk on small instances, for TLC. *)
EXTENDS AdminDesk, TLC

Symmetry == Permutations(Complaints) \cup Permutations(Departments) \cup Permutations(Requests)

=============================================================================

--------------------------- MODULE MCCitizenDesk ---------------------------
(* CitizenDesk on a small instance, for TLC. *)
EXTENDS CitizenDesk, TLC

=============================================================================

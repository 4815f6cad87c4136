----------------------------- MODULE MCDemoSeed -----------------------------
(* DemoSeed on small instances, for TLC. *)
EXTENDS DemoSeed, TLC

Symmetry == Permutations(Complaints)

=============================================================================

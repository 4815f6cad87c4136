--------------------------- MODULE MCOutboxWorker ---------------------------
(* OutboxWorker on small instances, for TLC. *)
EXTENDS OutboxWorker

(* every kind of fault once *)
MCOneOfEach == [f \in Faults |-> 1]

=============================================================================
